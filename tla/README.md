# TLA+ models of phpxray

phpxray is a static analyser for PHP. It parses the files of a project, indexes
the symbols they declare, infers signatures, types the variables of every body,
runs rules over every analysed file, filters what they find and, on request,
repairs the sources. This directory holds TLA+ models of its incremental
session, watch loop, result cache, engines, fix rounds, ignore lists, flow
analyses, signature inference, lexer and parser, checked with TLC and in part proved
with TLAPS. Paths below are relative to `crates/`.

## 1. Inventory

### Components, their state and their operations

| Component | State it keeps | Operations |
|---|---|---|
| Discovery (`phpxray/src/lib.rs`, `discover_inputs`) | none; reads the file system | walk `paths`, `scanPaths`, `scanFiles`; flag each file *analyze* or *scan* |
| Analysis inputs (`phpxray/src/inputs.rs`) | one resolved, immutable value | resolve from the configuration, hash into a fingerprint |
| Lexer (`php-lexer/src/lexer.rs`) | position, a stack of modes, tokens, diagnostics | one step per token, blank or change of mode |
| Parser (`php-parser/src/parser.rs`) | token position, recursion counter, diagnostics | recursive descent for statements and declarations, precedence climbing for expressions, recovery |
| AST, PHPDoc, types | none across calls | functions of one text |
| Project index (`php-index`) | name tables of classes, functions, constants | load builtins, merge a file, register an alias, look up |
| Reflection index (`php-reflect/src/project.rs`) | signatures, members, hierarchy, bodies | merge an artifact, resolve imports and aliases, fold in inferred signatures, look up |
| Dependency recorder (`php-resolve/src/depsrec.rs`) | per thread: the lookups of the file being analysed | start, note (surface, body, whole index), finish |
| Signature inference (`php-infer/src/signatures.rs`, `returns.rs`) | none | harvest call sites, infer parameters, then returns in rounds |
| Definedness (`php-infer/src/definedness.rs`) | an environment per branch | walk a scope, merge branches, report reads |
| Flow typing (`php-infer/src/flow.rs`, `assign.rs`, `refine.rs`) | types per statement | collect facts of a condition, narrow, iterate a loop to a bounded fixpoint |
| Rules (`php-rules`) | none | some 300 stateless rules |
| Batch engine (`run_pipeline`, eager or streaming) | ASTs, index, call-site counts of the run | parse and index in batches, infer, analyse in parallel, assemble |
| Incremental session (`phpxray/src/incremental.rs`) | per file: text, artifacts, findings, recorded lookups, where its findings are located; fingerprints of the previous pass | `run(config, root, hint)` |
| Watch loop (`phpxray/src/watch.rs`) | configuration in effect, the session, the channel of event batches | initial pass, register watches, receive a batch, reload, pass, render |
| Result cache (`phpxray/src/result_cache.rs`) | files on disk: one entry per key, at most 20 | key, load, store, evict; `clear-result-cache` |
| Suppression and baseline (`suppress.rs`, `baseline.rs`) | match counts within one call | scan inline markers, compile entries, apply, generate a baseline |
| `--fix` (`phpxray/src/fix.rs`, `run_fix`) | the sources on disk | up to five rounds of analyse, rewrite, repeat |
| Configuration, diagnostics, reporting, CLI | none | parse YAML and NEON, render |

### How they interact

Discovery hands paths to the engines; each text is lexed, parsed and reflected
into an artifact. The batch engine and the session are two engines for one
function: from a set of texts, flags, inputs and stubs to a report. Both merge
per-file artifacts into the two indexes *in path order, stubs last*, finalize
the indexes (imports, then configured aliases), fold in the inferred signatures
and analyse each file against the shared, now immutable indexes. The session
remembers what an earlier pass found and, through the recorder, which lookups
the findings came from. The watch loop owns a session and feeds it hints it
derives from what the operating system reports; it reloads the configuration
through a callback of `main.rs` that merges the baseline. Every report passes
through suppression, last. The result cache sits in front of the batch engine
only; several processes may share its directory. `--fix` runs the batch engine
again and again, around rewrites of what it has read.

### What is hard

* *History*: a file is analysed in one pass and its findings are reused in many
  later ones. Its recorded lookups must stay right without being recorded again.
* *Several reads of one file system*: a pass looks at the disk to find what
  changed, reads each changed file again, then the stubs; a run reads the
  baseline twice, once to merge it and once to hash it; a fix round compares a
  file and then writes it. Editors do not wait.
* *Partial information*: a hint names what the OS reported, not what differs.
* *Feedback*: the loop's own reads are events on the channel it listens to; one
  repair makes another possible in a file already written.
* *Unlocked files*: cache entries are truncated, written, listed and deleted by
  concurrent processes, any of which may be killed.
* *Fallbacks*: an unreadable file is empty, a configuration that does not load
  keeps the old one, a cache entry that does not parse is a miss.
* *Fixpoints cut short*: signature inference and loop typing iterate a bounded
  number of times and must be right about what they have not seen.
* *Recovery*: the parser goes on after any garbage, under callers that still
  expect theirs, and must neither loop nor drop what it does not report.

### What makes each component correct

| Component | Properties |
|---|---|
| Session | after any history the report is the batch engine's on what was read (`BatchEquivalent`), and on the disk when nothing was withheld (`FreshReport`); recorded lookups are those of a fresh analysis (`DepsCurrent`); no finding sits in a file that is gone (`LocatedAtLiveFiles`); a quiet pass does no work (`QuietPassReusesAll`) |
| Watch loop | nothing shown is stale unless an event that will refresh it is on its way (`NoChangeForgotten`, `NoReloadForgotten`); it comes to rest (`Settles`) |
| Result cache | a run reports what it would have computed (`ReportIsOwn`); the directory is bounded (`Bounded`); an undisturbed repetition hits (`NextRunHits`) |
| Fix | only a race loses an editor's text (`OnlyRacesLose`); only the file in flight is torn (`TornOnlyInFlight`); the report is of the repaired sources (`ReportIsOfRepaired`); the rounds end (`Ends`); a text gets every repair in its place or none (`WritesWanted`, `RefusesClashes`) |
| Engines | both implement one abstract engine (`KeepsPromise`) |
| Suppression | markers say what is written and where (`SuppressesMarked`, `ErrorsAreMalformed`); the prefilter of paths changes nothing (`AsLinearScan`); reported entries are superfluous (`StaleEntriesAreIdle`); a baseline hides what it was made from (`BaselineHides`) |
| Definedness | but for four named cases, "is undefined" is not said of a read that may succeed (`DefiniteIsRight`); but for three, no read that fails goes unreported (`UndefinedIsReported`) |
| Flow typing | the type at every place of a body, and after the loop, covers every value of every round (`Covered`) |
| Signatures | where a function's calls are all evidence for its parameter or none is, and it reads no parameter it has assigned to, the inferred types cover every call (`SeenIsCovered`) |
| Lexer | what is written in strings, heredocs, interpolations and comments becomes the tokens that were meant (`AsWritten`); no symbol of any text is lost or used twice, and there is always a mode (`Total`) |
| Parser | groups as PHP's grammar does (`AsGrammar`), accepts what is valid (`ReadsValid`), gives each node its span (`DistinctSpans`), reports what it drops (`DropsAreReported`), recovers (`Recovers`), is bounded (`StackBounded`) and, with the lexer before it, ends (`Parses`) |

## 2. Modules

| Module | Models | Extends |
|---|---|---|
| `Analysis` | the two indexes as functions of a tree of files, an input and a stub; one file's analysis as a reader of them; the batch engine as a function | |
| `Session`, `SessionScope` | the incremental session, concurrent with edits; the projects for which it is exact | `Analysis` |
| `Watch`, `WatchScope` | the loop, the debouncer, editors; three assumptions on projects and editors | |
| `ResultCache`, `ResultCacheScope` | concurrent runs, edits, clearing, kills; one assumption on the key | |
| `Fix` | the rounds of `--fix` among editors, failing writes and kills | |
| `FixEdits` | `apply_to_source`: the edits of one text | |
| `Engine` | what an engine promises (abstract) | |
| `BatchEngine` | the eager and the streaming engine, with their workers; `KeepsPromise` is `Promise!Spec` | instance of `Engine` |
| `InlineIgnores`, `Suppress` | the scan for ignore markers; entries, counts, buckets, a baseline and a later run | |
| `Definedness`, `ScopeRun` | the analysis of a scope; beside it PHP executing that scope | |
| `Narrowing`, `FlowLoops` | what conditions say of types; the bounded rounds over a loop, beside its execution | |
| `Signatures` | harvest by the form of each call, rounds of inference, and an execution of the project | |
| `Lexer` | the scanner: modes on a stack over the symbols of a text | |
| `Parser` | the parser as a machine over tokens | |
| `FrontEnd` | the lexer, the hand-over and the parser; what both promise of any text | `Parser`, instance of `Lexer` |
| `Grammar` | what the parser has to do, read off PHP's grammar | `FrontEnd` |
| `SessionProofs`, `WatchProofs`, `ResultCacheProofs`, `FixProofs`, `FixEditsProofs`, `BatchEngineProofs`, `SuppressProofs`, `FrontEndProofs` | theorems | the module named, `TLAPS` |
| `MC*` | instances for TLC; those ending in `Gaps` hold what scopes exclude | |

### Analysis

A file's text is an abstract `Content`; parsing and reflecting it is given by
constant functions (`Reflects`, `Consts`, `Reads`, `BodyReads`, `Args`), because
the passes tell texts apart only through these. A *surface* is a span-free
reflection, so two texts may share one and differ in a body. Paths are numbers:
their order is the order of the `BTreeMap`. `Declared` is the merge of
`add_artifact` and `accepts_redeclaration`; `ProjectEntry` that of `add_file_as`
and `add_alias`; `Imported` and `Expanded` are what `resolve_type_imports` and
`apply_global_type_aliases` rewrite; `Inferred` is the parameter inference from
call sites (return inference is another function of the same inputs, and the
session treats both alike: it recomputes and diffs them).

What the rules compute is abstracted to *everything they could have depended
on*: `Findings(c, idx)` is the text together with the answer of each lookup. Two
findings are equal in the model only if the analyses saw the same, so the
properties below hold of any rule that is a function of what it looks up. Which
lookups are made is the least set closed under "an answer leads to further
lookups", starting from those of the text. `Batch` is the specification: a
function of tree, inputs and stub, without any state.

### Session

`Begin` compares the configuration with that of the previous pass and finds what
changed, by a hint (`diff_hinted`) or by a walk (`diff_full`); `ReadFile` reads
one changed file *again* and diffs its artifacts; `Finish` reads the stubs,
rebuilds the indexes, infers, decides what is invalid, analyses and reports. An
`Edit` may fall between any two of these. The indexes a pass builds live only
within `Finish`: parallel analysis of files against them commutes.
`files`, `findings`, `deps`, `emitted` are the fields of `FileEntry`; the `seen`
variables are the fingerprints kept by `Session`; `todo` and the three `changed`
sets are the locals of `run`. `drift` and `settled` are history variables.
Suppression, being a function of the report and the configuration applied at the
end of every pass, is left out here.

### Watch

A session reports what the batch engine would on the texts it last read, so the
loop's model keeps only these texts (`known`). `pending` is what the debouncer
holds, `queue` the `mpsc` channel. `Receive` is one iteration's decision;
`ReloadConfig` and `MergeBaseline` are the two reads of `reload()`; `BeginWalk`,
`BeginHinted`, `Probe`, `Visit`, `Read`, `Render` are a pass, one file at a time.
Reads are events too where the platform reports them. Watcher, debouncer and
operating system are external: every event is eventually delivered, in batches
of any composition; a directory that moves is reported by its own path. Lost
events (an overflowing OS queue) are not modelled.

### ResultCache

Every file-system call is an action: truncation and write are two, and the write
of a run over what another wrote since may leave a mixture, which does not
parse. A directory listing is a snapshot. A kill may cut the file being written.
Deleting a file leaves the runs that have it open with an unlinked one. `order`
is the order of modification times. What a run read is a value of `Project`,
`InputsOf`, `Merged`; the key is `Hash` of the hashed fields. The binary's
identity and the schema version are constant. Clearing is one step: a
`remove_dir_all` that fails half way is not modelled.

### Fix and FixEdits

A text is what an editor saved and the set of repairs added to it since. Which
repairs an analysis offers depends on what has been repaired in the *other*
files (`Needs`), so that rounds have a reason to follow one another. A pass reads
the files one by one (`Read`, the first half of `RunFix`), then each file with
repairs has its turn: `apply_to_file` compares the disk with the analysed bytes,
`fs::write` empties the file and fills it in two further steps. Editors save and
remove between any of these, a write may fail, the process may be killed. `raced`,
`unseen` and `failed` are history variables that name who is to blame.
`FixEdits` looks inside one text: from the findings to `Edit`s, sorted, checked
for overlap, applied from the back; docblock tags are merged per docblock. The
stable sort (`SortByKey`) is given by what place each edit gets. The wanted text is
read from left to right (`WantedFrom`), the other way round than the code writes it.

### Engine and BatchEngine

`Engine` says what any engine promises, in three steps: index all, count all call
sites, report in input order. `BatchEngine` has both implementations, chosen by
`STREAM_THRESHOLD`, with the batch loops of `analyze_streaming`, the ASTs it
retains or defers, the second parse of the deferred files, and workers that take
and finish files in any order. The refinement mapping sends the partial index to
the abstract one when the last batch has been merged.

### InlineIgnores and Suppress

A line is reduced to what `marker()` can tell of it. The scan is a machine: one
step per line, one per token of `IgnoreIdParser`'s two loops. `Suppress` goes on
from its result: first the inline map, then entries by path bucket or glob, each
with its count, then unmatched entries; then `generate` and a run with the
baseline in force after part of the findings has gone. A regular expression is
the set of the messages it matches.

### Definedness, Narrowing, FlowLoops, Signatures

These four models have the same shape. The analysis is a function, computed when
the input is chosen; the actions are PHP's, *external* to the repository, and
execute the chosen scope, loop or project with every test going either way. The
properties compare the two at every step. `Definedness` is a recursive function
over paths of a syntax tree, statement by statement as `Analyzer` visits it.
`Narrowing` has `collect_facts` with its negation and `and`/`or` rules, and each
predicate's filter over the arms of a union. `FlowLoops` has `record_loop`,
`record_foreach` and `record_if`: the bounded rounds, widening, and the joins.
`Signatures` has the harvest, parameter union with its give-up on unknown
arguments, and `infer_and_apply`'s rounds with refinement per call site.

Where an analysis is knowingly or unknowingly less than PHP, the property says so
by a predicate on the input, so that all inputs may stay in the run:

* `ScopeRun!DefiniteIsRight`: `Carried` (a loop brings a definition round to a read
  before it, or to one in another branch), `Dropped` (a branch that leaves is not
  merged, but a loop or `switch` it breaks out of, a `try` it throws in or a
  `finally` goes on with what it defined), `TestsDefine` (the test of an `elseif` or a
  `case` defines, and only its own branch knows), `FallsThrough` (a `case` that
  defines runs into the next).
* `ScopeRun!UndefinedIsReported`: `Lenient` (what the code forgives on purpose: operands
  that may be skipped, arguments that may be references, `throw`, `unset`, `eval`),
  `SkippedUpdate` (a `for` binds what its update defines before its body, also where
  no round is executed), `LeftEarly` (a `do` that is left by `break` or `continue`, or
  a `try` with a `finally` that is left, counts as done to its end).
* `Signatures!SeenIsCovered`: `PartlySeen` and `Reassigned`. How a call is written (`How`)
  decides whether it is evidence: `harvest_file` sees calls of functions by name and
  methods on receivers of a known class, `record_args` skips a call with a spread,
  named or placeholder argument whole, and static calls, callees in variables and
  `new` are not looked at. A function of which only some calls are evidence may get a
  type that excludes what the others pass. The argument is always passed in the model:
  the default of an optional parameter is no evidence either.

Each of the nine predicates is needed: without it the run finds a violation.

### Parser and Grammar

The Rust call stack is explicit: `todo` holds what the open functions still have
to do, so that nesting, early returns and recovery are visible to TLC, and
`depth` is the counter that `MAX_DEPTH` caps. A token is its kind; kinds that the
parser never tells apart share one representative. `nodes` are the finished trees,
each with its span. `Grammar` states the precedence of PHP on finished trees, from
the `%left`, `%right` and `%precedence` lines of the language's own grammar, and
not by the numbers the parser works with.

### Lexer and FrontEnd

`modes` is the lexer's `states`; one action is one branch of one of its step
functions, in their order, with the scans ahead (does this string interpolate, is
this a heredoc, what follows `&`, `enum` and `yield`) as functions of the text. A
label and a run of digits are one symbol each, everything else one per character,
so that a backslash, a quote or a brace can stand anywhere. `FrontEnd` runs
`tokenize` to the end of the text and gives the parser its tokens without the doc
comments (`Handed`), as `Parser::new` does; some of its inputs skip the lexer, being tokens,
and the scraps end with it. `Texts` are pairs of what is written and the tokens that
are meant, built from the inside out, so that `AsWritten` compares the lexer with
an author's intention and not with another lexer.

## 3. Runs

| Run | Asks | Bounds | States |
|---|---|---|---|
| `session` | are the session's properties true of a project with inheritance, a redeclaration, a callback body, a whole-index scan, a stub, inference and two configurations? | 3 files, 2 edits outstanding | 230 k |
| `watch` | does the loop forget a change, and does it come to rest? | 2 files, a stub, 2 configurations, 2 edits, 1 batch queued | 1.7 M |
| `result_cache` | do concurrent runs report their own results, is the directory bounded, does a repetition hit? | 3 runs, 1 entry kept, 1 edit, 1 clearing | 320 k |
| `result_cache_ignore` | are ignore lists told apart by every field they have? | as above | violated |
| `fix` | what may `--fix` overwrite, tear or report wrongly, and does it end? | 2 files, 3 rounds, 3 texts, 3 repairs, edits without end | 1.2 M |
| `fix_edits` | does a text get its repairs in their places, or none? | 5 tokens, up to 3 of 15 repairs, in every order | 22 k |
| `engines` | do both engines keep the abstract promise? | up to 4 files of 7 kinds, batches of 2 | 32 k |
| `suppress` | do markers, entries and a baseline suppress what they say? | markers of up to 5 tokens or 2 lines; 3 findings, 2 entries | 780 k |
| `scope_run` | are the warnings about undefined variables right? | 4 556 scopes of up to 3 statements, one inside another, 2 variables | 272 k |
| `flow_loops` | do a loop's types cover its values? | every condition and every pair of them, 2 variables, 2 statements | 570 k |
| `signatures` | do inferred types cover every call of functions whose calls are seen? | 3 functions, 8 bodies each, 4 ways to write a call, call depth 4 | 82 k |
| `parser` | does the lexer find the tokens, and the parser the trees; do both end on anything, and recover? | 3 operands with prefix operators, statements in statements, 12 levels; strings in strings in expressions; any 2 symbols in 11 contexts | 688 k |

*Why the bounds are enough.*

* Session: invalidation relates at most three files: the one edited, the one
  through which its effect travels (a parent, an importer, the site of a call)
  and the one reused; `MCSession` has one of each and two texts for the first
  two. `MaxDrift` bounds the edits that no complete pass has seen, not those of a
  behaviour: histories are unbounded.
* Watch: two edits are needed to have one event on the channel while the other
  change happens during the pass; a longer queue adds nothing, since what the
  queue does not take stays in `pending`, from which any subset may be delivered
  next.
* Result cache: three runs are one that lists, one that stores and one that
  reads; with one entry kept, two digests already make an eviction.
* Fix: a repair in one file makes the next one possible in the other, so two
  files exhaust three rounds; edits are not bounded, only the texts are.
* Engines: four files make two batches, with the analysed, the deferred and the
  stub file at either side of the boundary; the order of redeclaration has three
  candidates (builtin, file, stub).
* Suppression: two entries compete for one finding, a third finding exceeds a
  count; one token sequence of five holds each nesting and comma error.
* Scopes and loops: every kind of statement in every kind of branch once, and most
  statements in each place another has for one, over
  two variables, so that one may be copied to the other. `Limit` is the code's
  (6 rounds); types settle in at most three on these.
* Signatures: three functions make a cycle with a tail, and a chain that the
  three rounds (the code's number) just reach and one that they do not; two of the
  functions are also called in one or in two of the four ways.
* Parser: precedence is a relation of two operators, associativity of two of a
  kind, and a prefix operator binds between them; recovery depends on the
  function that recovers and its caller. `MaxDepth` is 12 for the code's 256,
  with inputs that nest deeper; `FrameSize` bounds the tasks per level.
* Lexer: a mode is left for the one below, so strings two deep, of every kind in
  every kind, with every expression around them, have each pair of neighbours on
  the stack; a scrap starts from each mode there is.

*Fairness.* Safety is checked without it. `Settles` assumes weak fairness of the
debouncer and of the loop: two threads that block only on each other's channel.
`Ends` assumes that the tool runs on (`WF_vars(RunFix)`), and `Parses` the same
of the thread that lexes and parses. Nobody has to edit, and nobody has to stop.

*Deadlock* is not checked where the program ends or waits (a fix ends, a run
ends, an execution ends, the loop waits for events). It is checked for `session`.

Every property of a passing run has a mutant, a change of a mapped definition
that TLC finds out. Mutant forms stand next to the definition, marked *Faulty*.

Type invariants are checked where a proof rests on them (`Session`, `Watch`,
`ResultCache`, `Fix`). The other state machines compute one answer and compare
it, and a value outside its type makes their evaluation fail.

## 4. What the runs found

One disagreement is a run of its own:

1. **Ignore entries in the cache key.** Five fields of an ignore entry are not
   hashed; two configurations differing in `messages` share a key
   (`result_cache_ignore`, `phpxray/src/result_cache.rs:134`).

The others are excluded from a passing run by a named assumption, a named case of the
property or its inputs. The last column names the configuration that shows each, or what to
replace in that of a passing run, for `tlc -config X.cfg M` (with `-continue`
where it shows several).

| Where | What | Shown by |
|---|---|---|
| session, imported aliases | `resolve_type_imports` writes the aliases of a *source* class into the importing class outside any recording; editing the alias does not invalidate clients. The header of `incremental.rs` claims soundness by construction. `SessionScope!ResolvedIsReached` excludes it; so does a class whose appearance switches off a configured `typeAliases` entry | `MCSessionGaps.cfg` (`MCSessionGaps`) |
| session, demotion | an analysed file may replace a builtin, a scan-only one may not; when settings turn one into the other no reflection differs, and clients keep their findings. `BuiltinsKeepTheirFlag` excludes it | the same with `Reaches <- MCAToB`, `Imports <- MCNoSymbols`, `Builtin <- MCBuiltinA`, `Discovery = {"all", "scanLibrary"}` |
| watch, start | watches are registered after the initial pass; an edit during it is neither read nor reported. `QuietStart` excludes it | `MCWatch.cfg` with `EditsWhenUnwatched = TRUE`, and `MCWatch` extending `Watch` instead of `WatchScope`, whose assumption would stop TLC |
| watch, `scanFiles` | discovery takes such an entry whatever its extension, `is_relevant` does not. `SelectedIsMatched` excludes it | |
| watch, baseline | a baseline that the configuration names first and that is written later: the reload fails, the old configuration stays, and under it that path does not matter. `BaselineIsNamed` excludes it | |
| baseline, order | a rule may locate a finding in another file than the one under analysis (`callback_context.rs`), and it then comes at the analysing file's place. The baseline entry of a file at the root is a bare name; it is used up by such a finding in a file of the same name in a directory, and the root file's own finding comes back, where `baseline.rs:1` says that a legacy codebase passes. `InOrder` excludes it | `MCSuppress.cfg` with `Inputs <- MCGaps` |
| fix, race | an editor's text saved between comparison and write is lost, where a comment says one check "covers concurrent edits" (`NeverOverwritten`) | `MCFix.cfg` with `NeverOverwritten` in place of `OnlyRacesLose` |
| definedness, `break` | a branch that leaves is dropped from the merge (`definedness.rs:296`), so what it defines is unknown behind the loop it breaks out of, and a read there is called definitely undefined, where the module promises "under-reporting rather than false positives": `Dropped` | `MCScopeRunGaps.cfg` (`MCScopeRun`) |
| definedness, others | a variable that one round of a loop writes is "undefined" in the next, as is one that the test of an `elseif` or `case`, a `case` that falls through, or a branch that throws or is followed by a `finally` defines: `Carried`, `TestsDefine`, `FallsThrough`, `Dropped` | `MCScopeRunGaps.cfg` with `Scopes <- MCCarried`; `MCScopeRun.cfg` with `DefiniteIsUndefined` in place of `DefiniteIsRight` |
| definedness, silence | the update of a `for` without a round and the rest of a `do` or `try` body that is left count as executed: `SkippedUpdate`, `LeftEarly` | `MCScopeRun.cfg`, with the case taken out of `UndefinedIsReported` |
| flow, loops | the facts of a `while` condition come from the types before the loop and are applied in later rounds | `MCFlowLoops.cfg` with `Loops <- MCGaps` |
| flow, tests | `$x == null`, where true, leaves only null (but `0 == null`); `is_int` drops an integer range beside a literal, and narrows `int\|mixed` to `int`; `get_class($x) !== A::class` drops `A` although subclasses remain | `MCFlowLoops.cfg` with `Loops <- MCGaps` |
| signatures, skipped calls | a call with a spread, named or placeholder argument (`signatures.rs:512`), a static call and one whose callee is not resolved leave no `mixed` behind, where the module says that "an unknown argument poisons the union": `PartlySeen` | `MCSignaturesGaps.cfg` (`MCSignatures`) |
| signatures, assignment | a parameter that is assigned to before it is returned: its type is bound once for the whole body (`Reassigned`) | `MCSignatures.cfg` with `Covered` in place of `SeenIsCovered` |
| parser, depth | `$$$...$x`, and a parameter in a property hook of a promoted parameter, recurse without `MAX_DEPTH`, where `parser.rs:10` says that nesting is capped | `MCParser.cfg` with `Inputs <- MCGaps`, `Texts = {}`, `Scraps = {}` |
| parser, `++` | `++$a ** 2` is read as `++($a ** 2)` | `MCParser.cfg` with `Inputs <- MCGaps`, `Texts = {}`, `Scraps = {}` |
| parser, `clone` | `clone("{$x}", $y)`: the scan for the call syntax counts the `}` that ends `{$` but not `{$` itself | `MCParser.cfg` with `Inputs <- MCGaps`, `Texts = {}`, `Scraps = {}` |
| parser, spans | in an unclosed `"${a[1]` two nodes have one span | `MCParser.cfg` with `Inputs <- MCGaps`, `Texts = {}`, `Scraps = {}` |

Noticed while reading, and left out of the models' inputs: a heredoc whose lines
end in `\r` alone is never closed (`heredoc_step` looks for `\n`); `<?phpfoo` is
an open tag followed by a name; `__halt_compiler() ?>` does not end the lexing;
where the loop limit is reached
nothing is widened, although `limits.rs:15` says so; `continue` and `break`
branches of typed loops are not joined; a `switch` case starts without what the one above falls
through with; a `catch` starts from the types before the `try`; `is_iterable` on
`array|Traversable` keeps the array only; a full disk leaves a file empty; a
path skipped in a later round of `--fix` is not mentioned; duplicated docblock
tags are dropped; errors of malformed markers are made after the entries are
matched, so a baseline lists them in vain; a baseline entry for a file at the
root is a bare name, and matches in any directory; `$a = &$b = $c` and
`v instanceof v = v` are accepted.

Not a violation, but noticed: creating an editor's temporary file starts a
hint-less pass, although `is_relevant` says such files are ignored; it costs
time only.

## 5. Proofs

TLC's results above are for the instances; these are for every value of the
constants that satisfies the assumption of its module (`IndexAssumption`,
`SessionAssumption`, `WatchAssumption`, `CacheAssumption`, `FixAssumption`,
`EditsAssumption`, `BatchAssumption`, `IgnoresAssumption`, `SuppressAssumption`,
`LexerAssumption`, `FrontEndAssumption`) and those of the `*Scope` module it extends;
`BaselineHidesAll` has the hypothesis `InOrder` besides. The configurations of section 4 show that scopes and hypothesis
cannot be dropped.

* `SessionProofs`, first of one analysis: `ReuseIsSound`. If no answer that an
  analysis looked up differs between two indexes, then the whole analysis (lookups,
  findings, where they are located) is the same on both. The lookups of an analysis
  are a least closed set, and a closed set of one index is closed in the other when
  the two agree on it; the theorem is that argument, from `Consulted` being closed
  and least. Then of the session: `Typed`, then `Invariance`, the inductive invariant, and from
  it `IncrementalIsBatch`, `DepsStayCurrent`, `FindingsLiveOn`, `ReportsAreFresh`.
  The invariant says, of a state *within* a pass, what each entry was analysed
  against: the tree, inputs, stub and inferred signatures of the previous pass,
  kept implicitly; that every path where the present tree differs from that one is
  in `changedFiles` or still in `todo`; and that `changedSurface` and
  `changedBody` contain every symbol whose surface or body the differences so far
  can move. At `Finish`, a valid entry therefore has met no changed answer, and
  `ReuseIsSound` applies. Without the strengthening `BatchEquivalent` is not
  inductive, since it says nothing while a pass reads. `QuietPassesReuse` states
  `QuietPassReusesAll`, a property of steps: a pass that finds nothing different has
  the tree, inputs, stub and hence inferred signatures of the one before it, so that
  every set of changes `Finish` computes is empty.

* `WatchProofs`: `LoopInvariance`, and from it `WatchTyped`, `NothingForgotten`
  and `ReloadsNotForgotten`. `NoChangeForgotten` speaks of the moment the loop
  waits, so the invariant says what holds the rest of the time: whatever is stale
  is still to be looked at (`look`), still to be read (`todo`), or told of by an
  event in `pending` or `queue` (`StaleIsTold`). Every step moves a path along
  that chain and none drops it. Reading a discovered file that has vanished since
  makes it stale under `Empty`; this is why `GoneIsTold` is needed. Receiving a
  batch consumes its events; that none of them is consumed in vain is
  `SelectedIsMatched`, together with `HoldsSelected`: what the session holds is
  selected, so relevant. The configuration has the same chain: `draft` in the
  middle of a reload, or an event (`ReloadIsTold`), which is where
  `BaselineIsNamed` is used. `QuietStart` is used once: an edit is always watched.

* `ResultCacheProofs`, in two stages. `CacheInvariance`, and from it
  `CacheServesOwn`: the invariant says what each run holds at each step (`RunOK`:
  its digest is the key of its own sources, ignore list and of *some* text of the
  baseline, which it read again) and that an entry that parses is genuine: written
  under that digest by a run whose report it is (`EntriesGenuine`). A hit compares
  digest and echo, so `KeysSeparate` gives that the report is the reader's own.
  Truncation, a mixture of two writes and a killed writer only ever leave `Torn`,
  which is no hit; a deleted file is out of reach of the run that still writes it.

  `CacheFullInvariance`, and from it `CacheTyped`, `CacheBounded` and
  `CacheNextRunHits`, adds the eviction. `Listed`: `order` lists every present
  entry exactly once. `OpenIsThere`: a run whose file is open and linked finds it
  present. `Room`: a bound as such is not inductive, because a run evicts by a
  listing that may be stale and deletes one file at a time; so the bound is stated
  for *every set* of evicting runs, without the entries they have doomed: what then
  remains is at most `MaxEntries` and one entry for each run outside the set that
  is storing or was killed. With the empty set this is `Bounded`. `AloneOK`: as
  long as nothing overlaps a run, its listing is the directory, the entry it wrote
  is the newest one, and the doomed ones are others. The list without an entry is
  written with `RemoveAt` (`Without`), since a fold cannot be proved about.

* `FixProofs`: `TypeCorrect`, `TornIsInFlight`, `ReportStands`, `RacesAlone`, from
  one inductive invariant. `Offered` says that what is repaired was readable and
  that another round may follow; `Compared` that the file about to be emptied is
  as it was compared, but for races (`OnlyRacesLose` is a statement about steps,
  and needs this before the step); `Current` says of each pc which files the last
  reads still describe: while a round writes, those it has not written yet, and
  when it is done, all.

* `FixEditsProofs`: `Gathers`, and from it `ClashesAreRefused` and
  `WritesWhatIsWanted`. `GatherInv` says, while the findings are gone through, that
  the groups are those of the anchors seen, one for each, and that no replacement
  occurs twice. An edit's place in the sorted list is the number of edits that go
  before it; that this is a permutation, sorted and stable, is proved by counting.
  In a sorted list neighbours tell of all pairs: if no edit overlaps the next one,
  none overlaps any, so the code's one comparison per edit is enough. `TextSoFar` is
  the invariant of writing: before edit *k* is applied, from the back, the text is the
  analysed one up to where edit *k*+1 starts and the wanted one from there. It holds
  because no edit moves what lies before it.

* `BatchEngineProofs`: `Invariant`, then `Refinement`: both engines, with any number
  of workers, batches and files, implement `Engine` (`KeepsPromise`, an
  `INSTANCE ... WITH`). The invariant says what a partial index, the counts, the
  retained and the deferred files and the findings hold in terms of the files *so
  far*; the theorem has one step for each action, which is a step of `Engine` or
  leaves its variables alone. Merging the last batch is the abstract indexing, the
  last count the abstract counting, and `Assemble` the report: findings taken by
  workers in any order are, sorted by position, those of the input in order.

* `SuppressProofs`, on the scan for markers and on the filter. `ScanInv` relates the
  machine to the text it has read: what the two loops of the identifier parser have
  consumed is well formed so far, and `MarksExactly` that the map of ignores is that
  of the lines done. From it `MalformedAreReported` and `MarkersSuppress`.
  `FilterInv` relates the counts to the findings done: what is dropped, and how often
  each entry was used, is what a linear scan of *all* entries gives on the same
  findings, since the buckets hold every entry whose path can match
  (`DropsAsLinearScan`). For `UnmatchedCanGo`, the scan of the shortened list is
  followed beside that of the full one: they choose the same entry, up to its index,
  at every finding. `BaselineHidesAll` follows two runs side by side, the one the
  baseline was made from and the later one on part of its findings: no entry of the
  user has been used more often in the second than in the first, and no entry of the
  baseline more often than findings of its key were kept. So the entry of a finding's
  own key is never used up before the finding itself comes, if the entries that
  precede it take what they took: which is where `InOrder` is used.

* `FrontEndProofs`: `LexerIsTotal` and `RecoveryIsReported`, for every text over
  the lexer's symbols and every list of tokens that ends in the end of the text.
  For the first, `LexInv` says that the tokens so far tile the text up to the
  cursor, with only blanks and comments between them, that the lowest mode is never
  left, and that every heredoc's mode has a label. There is one lemma for each
  action of the lexer: it adds tokens that start at the cursor and follow one
  another up to the new cursor, or moves the cursor over what may be skipped, and
  what it does to the modes is a push, a change or a pop with one left. The scans
  ahead need lemmas of their own: they stop within the text, beyond where they
  began. For the second, `DropInv` says what each open loop of the parser still
  owes: it has moved on, or there is a diagnostic where it stands, or it is at the
  end of the text, or before it in `todo` is a task that surely takes a token or
  reports one; and that `synchronize` is to be done only right behind a diagnostic.
  `DropsAreReported` alone is not inductive, since it says nothing of the tokens
  that a loop will drop later. A task may hold the bodies of other tasks; that each
  of them is well formed cannot be defined by recursion here, so `Task` is the
  largest such notion: a task belongs to *some* set of tasks that consist only of
  each other and in which the body of every loop has something to do (`Closed`).
  `FineKeeps` says which steps keep `DropInv`; one lemma for each task shows that
  it makes such a step. That the recursive function `Handed` exists, over the tokens
  of an arbitrary text, is shown by a least counterexample.

*Only model-checked.* Liveness: `Settles`, `Ends`, `Parses`. What rests on recursion
over data, which no prover here can do induction over: the properties of `scope_run`
(`Definedness` follows the tree of a body with `RECURSIVE` operators), and of
`parser` those that compare a finished tree with the grammar, or the tokens of a text
with the intention of its author: `AsWritten`, `AsGrammar`, `ReadsValid`,
`DistinctSpans`, `Recovers`.
`StackBounded` needs no induction, but the largest number of tasks that one level of
nesting leaves behind, over all chains of constructs; the run finds it no larger than
`FrameSize`. `Covered` of `FlowLoops` is moreover false of arbitrary inputs (section 4),
and that the named cases of `Signatures` are the only ones is known of the run's
projects: a theorem would need the exact class of bodies for which the code's bounded
rounds are enough.

## 6. Not modelled

* The rules: some 300 stateless functions over a typed tree. `Findings` abstracts
  them to what they can look up. What each of them reports is a matter of its
  documentation, which a test of one input decides as well as a model.
* The spelling of numbers and their overflow, the PHPDoc parser, the type lattice beyond what narrowing needs, and
  the inference of calls, properties, shapes and generics.
* Configuration formats, discovery's globs, reporting, the command line, Laravel
  aliases: parsing and formatting of one value.
* The interner, the spans, the `xtask` tools and the builtin stubs: data.
* Events that the operating system loses (the loop prints an error and goes on;
  nothing is promised), and the thread-local slot of the recorder under nested
  work stealing.

## 7. Plan

1. *(done)* `Analysis`, `Session`: the incremental engine, the core
   claim of the repository; its invariant proved.
2. *(done)* `Watch`, `ResultCache`: the two concurrent shells around the engines;
   all safety invariants proved.
3. *(done)* `Fix`, `FixEdits`: rounds with editors between comparison and write,
   and the edits of one text against a reference; both proved.
4. *(done)* `Engine`, `BatchEngine`: both engines implement one promise; proved.
5. *(done)* `Suppress`, with `InlineIgnores` and the baseline's round trip; proved.
6. *(done)* `Definedness`, `Narrowing`, `FlowLoops`, `Signatures`: the analyses
   against executions.
7. *(done)* `Lexer`, `Parser`, `Grammar`, `FrontEnd`; that the lexer is total and
   that recovery is reported are proved.
8. Left: hierarchy walks with cycles in the reflection index; the recorder's
   brackets under work stealing; for `FlowLoops`, a hypothesis on
   bodies under which `Covered` holds, and its proof, and that of `SeenIsCovered`.
