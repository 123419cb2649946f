------------------------------- MODULE Session -------------------------------
(***************************************************************************)
(* The incremental analysis session of watch mode (incremental.rs).  It    *)
(* keeps, per file, the text it last read, the findings of its last        *)
(* analysis and the lookups that analysis made; a pass re-reads what       *)
(* changed, works out which symbols changed, and analyzes again only the   *)
(* files whose recorded lookups meet them.                                 *)
(*                                                                         *)
(* A pass reads the disk several times (to find what changed, to read each *)
(* changed file again, to read the stubs), and the disk may change between *)
(* any two of these reads: Begin, one ReadFile per changed file, Finish.   *)
(***************************************************************************)
EXTENDS Analysis

CONSTANTS
    Discovery,  \* discovery settings: paths, scanPaths, excludes, extensions
    Role,       \* Role[d][p]: "analyze", "scan" or "skip"
    Versions,   \* Versions[p]: the texts file p may be given
    StubText,   \* the texts the configured stub file may be given
    MaxDrift    \* bound: edits no pass has yet been told of or looked for

ASSUME SessionAssumption ==
    /\ Role \in [Discovery -> [Path -> {"analyze", "scan", "skip"}]]
    /\ Versions \in [Path -> SUBSET Content]
    /\ StubText \subseteq Content
    /\ MaxDrift \in Nat

VARIABLES
    disk,           \* the project's files: a text or None
    inputs,         \* the analysis inputs the configuration resolves to
    discovery,      \* the discovery settings of the configuration
    stubs           \* the text of the configured stub file

VARIABLES
    files,          \* FileEntry: [source, analyze] or None
    findings,       \* FileEntry.findings, None for a file never analyzed
    deps,           \* FileEntry.deps
    emitted,        \* FileEntry.emitted_into
    seenInputs,     \* analysis_fingerprint, None before the first pass
    seenDiscovery,  \* discovery_fingerprint
    seenStubs,      \* stub_sources, None before the first pass
    seenAliases,    \* facade_aliases
    prevInferred,   \* prev_inferred
    report,         \* what the last pass returned
    reanalyzed      \* PassStats: the files the last pass analyzed again

VARIABLES
    pc,             \* "idle" or "reading"
    todo,           \* changed files still to be read, with their analyze flag
    changedFiles, changedSurface, changedBody,
    analysisChanged

VARIABLES
    drift,          \* edits since the last complete pass began, at most MaxDrift
    settled         \* the last pass was told of, or looked for, every change
                    \* and nothing changed since it began

world  == <<disk, inputs, discovery, stubs>>
entries == <<files, findings, deps, emitted>>
seen   == <<seenInputs, seenDiscovery, seenStubs, seenAliases, prevInferred>>
pass   == <<todo, changedFiles, changedSurface, changedBody, analysisChanged>>
vars   == <<world, entries, seen, report, reanalyzed, pc, pass, drift, settled>>

-----------------------------------------------------------------------------
\* discover_inputs: the files the settings select, flagged analyze or scan.
Discovered ==
    [p \in Path |->
       IF disk[p] = None \/ Role[discovery][p] = "skip"
       THEN None
       ELSE [source |-> disk[p], analyze |-> Role[discovery][p] = "analyze"]]

\* read_source_lossy: a file that cannot be read counts as empty.
ReadSource(p) == IF disk[p] = None THEN Empty ELSE disk[p]

Init ==
    /\ disk \in [Path -> Content \cup {None}]
    /\ \A p \in Path : disk[p] \in Versions[p] \cup {None}
    /\ inputs \in Input
    /\ discovery \in Discovery
    /\ stubs \in StubText
    /\ files = [p \in Path |-> None]
    /\ findings = [p \in Path |-> None]
    /\ deps = [p \in Path |-> {}]
    /\ emitted = [p \in Path |-> {}]
    /\ seenInputs = None
    /\ seenDiscovery = discovery
    /\ seenStubs = None
    /\ seenAliases = {}
    /\ prevInferred = None
    /\ report = [p \in Path |-> None]
    /\ reanalyzed = {}
    /\ pc = "idle"
    /\ todo = {}
    /\ changedFiles = {}
    /\ changedSurface = {}
    /\ changedBody = {}
    /\ analysisChanged = FALSE
    /\ drift = 0
    /\ settled = FALSE

FirstPass == seenInputs = None

-----------------------------------------------------------------------------
\* Somebody edits, adds or removes a source file, the configuration (or a
\* facade alias source), the discovery settings, or the stub file.
EditFile(p) ==
    /\ \E c \in Versions[p] \cup {None} :
         /\ c # disk[p]
         /\ disk' = [disk EXCEPT ![p] = c]
    /\ UNCHANGED <<inputs, discovery, stubs>>

EditInputs ==
    /\ inputs' \in Input \ {inputs}
    /\ UNCHANGED <<disk, discovery, stubs>>

EditDiscovery ==
    /\ discovery' \in Discovery \ {discovery}
    /\ UNCHANGED <<disk, inputs, stubs>>

EditStubs ==
    /\ stubs' \in StubText \ {stubs}
    /\ UNCHANGED <<disk, inputs, discovery>>

\* The inputs and the settings were loaded for the pass that is running; an
\* edit of them meanwhile is one for the next pass.
Edit ==
    /\ drift < MaxDrift
    /\ \/ \E p \in Path : EditFile(p)
       \/ EditStubs
       \/ pc = "idle" /\ (EditInputs \/ EditDiscovery)
    /\ drift' = drift + 1
    /\ settled' = FALSE
    /\ UNCHANGED <<entries, seen, report, reanalyzed, pc, pass>>

-----------------------------------------------------------------------------
\* The declared names of a set of files the session knows.
KeysOf(S) == UNION {DeclaredKeys(files[p].source) : p \in S}
NamesOf(S) == UNION {IndexNames(files[p].source) : p \in S}

\* diff_hinted: possible when every reported path is a known, readable file.
HintUsable(hint) ==
    /\ ~FirstPass
    /\ discovery = seenDiscovery
    /\ hint # {}
    /\ \A p \in hint : files[p] # None /\ disk[p] # None

HintedDiff(hint) ==
    {<<p, files[p].analyze>> : p \in {h \in hint : disk[h] # files[h].source}}

\* Faulty: compares only the texts.
FullDiffTextOnly ==
    {<<p, Discovered[p].analyze>> :
       p \in {f \in Path : /\ Discovered[f] # None
                          /\ \/ files[f] = None
                             \/ disk[f] # files[f].source}}

\* diff_full: the discovered files against the cached ones.
FullDiff ==
    {<<p, Discovered[p].analyze>> :
       p \in {f \in Path : Discovered[f] # None /\ Discovered[f] # files[f]}}

\* A pass starts: compare the configuration with the last one, find the
\* changed files, drop the removed ones and note what those declared.
StartPass(changed, removed, complete) ==
    /\ pc = "idle"
    /\ analysisChanged' = (inputs # seenInputs)
    /\ seenInputs' = inputs
    /\ seenDiscovery' = discovery
    /\ todo' = changed
    /\ changedFiles' = {f[1] : f \in changed} \cup removed
    /\ changedSurface' = NamesOf(removed)
    /\ changedBody' = KeysOf(removed)
    /\ reanalyzed' = {}
    /\ files' = [p \in Path |-> IF p \in removed THEN None ELSE files[p]]
    /\ findings' = [p \in Path |-> IF p \in removed THEN None ELSE findings[p]]
    /\ deps' = [p \in Path |-> IF p \in removed THEN {} ELSE deps[p]]
    /\ emitted' = [p \in Path |-> IF p \in removed THEN {} ELSE emitted[p]]
    /\ pc' = "reading"
    /\ settled' = complete
    /\ drift' = IF complete THEN 0 ELSE drift
    /\ UNCHANGED <<world, seenStubs, seenAliases, prevInferred, report>>

BeginHinted(hint) ==
    /\ HintUsable(hint)
    /\ StartPass(HintedDiff(hint), {},
                 \A p \in Path \ hint : Discovered[p] = files[p])

\* The walk: no hint, a structural change, a first pass, new discovery
\* settings, or a hinted path that is unknown or unreadable.
BeginFull ==
    /\ StartPass(FullDiff,
                 {p \in Path : files[p] # None /\ Discovered[p] = None}, TRUE)

-----------------------------------------------------------------------------
\* diff_artifacts: the reflections that differ between two texts.
DiffArtifacts(c, d) == {k \in Symbol : Reflects[c][k] # Reflects[d][k]}

\* What replacing the known file p by text c changes on the surface: differing
\* reflections, and every name of both symbol tables when these differ.
SurfaceChange(p, c) ==
    IF files[p] = None
    THEN IndexNames(c)
    ELSE DiffArtifacts(files[p].source, c)
           \cup (IF SameFileIndex(files[p].source, c)
                 THEN {}
                 ELSE IndexNames(files[p].source) \cup IndexNames(c))

\* Faulty: never so.
NeverDemoted(p, analyze) == FALSE

\* A file that was analyzed so far is only scanned from now on.
Demoted(p, analyze) == files[p] # None /\ files[p].analyze /\ ~analyze

\* Read one changed file again, diff its artifacts and store them.  A file
\* that stops being analyzed loses what its analysis left.
ReadFile(p, analyze) ==
    LET c == ReadSource(p)
        demoted == Demoted(p, analyze)
    IN /\ pc = "reading"
       /\ <<p, analyze>> \in todo
       /\ todo' = todo \ {<<p, analyze>>}
       /\ changedSurface' = changedSurface \cup SurfaceChange(p, c)
       /\ changedBody' = changedBody \cup DeclaredKeys(c)
            \cup (IF files[p] = None THEN {} ELSE DeclaredKeys(files[p].source))
       /\ files' = [files EXCEPT ![p] = [source |-> c, analyze |-> analyze]]
       /\ findings' = [findings EXCEPT ![p] = IF demoted THEN None ELSE @]
       /\ deps' = [deps EXCEPT ![p] = IF demoted THEN {} ELSE @]
       /\ emitted' = [emitted EXCEPT ![p] = IF demoted THEN {} ELSE @]
       /\ UNCHANGED <<world, seen, report, reanalyzed, pc, changedFiles,
                      analysisChanged, drift, settled>>

-----------------------------------------------------------------------------
\* The symbols whose inferred signature moved since the previous pass.
DiffInferred(old, new) == {k \in Symbol : old[k] # new[k]}

\* Alias names that appeared or vanished.
AliasChange(old, new) == (old \ new) \cup (new \ old)

\* Faulty: a scan of the index is redone on every pass.
InvalidOnScan(p, surface, stubsChanged) ==
    /\ files[p] # None
    /\ files[p].analyze
    /\ \/ analysisChanged
       \/ stubsChanged
       \/ p \in changedFiles
       \/ <<"global", None>> \in deps[p]
       \/ \E k \in changedBody : <<"body", k>> \in deps[p]
       \/ \E k \in surface : <<"surface", k>> \in deps[p]

\* Must the analyzed file p be analyzed again?
Invalid(p, surface, stubsChanged) ==
    /\ files[p] # None
    /\ files[p].analyze
    /\ \/ analysisChanged
       \/ stubsChanged
       \/ p \in changedFiles
       \/ <<"global", None>> \in deps[p] /\ surface # {}
       \/ \E k \in changedBody : <<"body", k>> \in deps[p]
       \/ \E k \in surface : <<"surface", k>> \in deps[p]
       \/ emitted[p] \cap changedFiles # {}

\* The rest of the pass, once every changed file is read: read the stubs,
\* rebuild the indexes, infer signatures, analyze the invalid files recording
\* their lookups, and report the findings of every entry.
Finish ==
    LET inferred == Inferred(files, seenInputs, stubs)
        idx == Indexed(files, seenInputs, stubs, inferred)
        surface == changedSurface
          \cup AliasChange(seenAliases, Alias[seenInputs])
          \cup (IF Infers[seenInputs] /\ prevInferred # None
                THEN DiffInferred(prevInferred, inferred)
                ELSE {})
        stubsChanged == seenStubs # None /\ stubs # seenStubs
        invalid == {p \in Path : Invalid(p, surface, stubsChanged)}
    IN /\ pc = "reading"
       /\ todo = {}
       /\ seenStubs' = stubs
       /\ seenAliases' = Alias[seenInputs]
       /\ prevInferred' = IF Infers[seenInputs] THEN inferred ELSE None
       /\ findings' = [p \in Path |-> IF p \in invalid
                                      THEN Findings(files[p].source, idx)
                                      ELSE findings[p]]
       /\ deps' = [p \in Path |-> IF p \in invalid
                                  THEN RecordedDeps(files[p].source, idx)
                                  ELSE deps[p]]
       /\ emitted' = [p \in Path |-> IF p \in invalid
                                     THEN EmittedInto(p, files[p].source, idx)
                                     ELSE emitted[p]]
       /\ report' = findings'
       /\ reanalyzed' = invalid
       /\ pc' = "idle"
       /\ changedFiles' = {}
       /\ changedSurface' = {}
       /\ changedBody' = {}
       /\ analysisChanged' = FALSE
       /\ UNCHANGED <<world, files, seenInputs, seenDiscovery, todo, drift,
                      settled>>

Begin == BeginFull \/ \E hint \in SUBSET Path : BeginHinted(hint)

Read == \E p \in Path, a \in BOOLEAN : ReadFile(p, a)

Next == Edit \/ Begin \/ Read \/ Finish

Spec == Init /\ [][Next]_vars
-----------------------------------------------------------------------------
\* Every variable keeps its type (the shape of Session and FileEntry).
TypeOK ==
    /\ disk \in [Path -> Content \cup {None}]
    /\ inputs \in Input
    /\ discovery \in Discovery
    /\ stubs \in StubText
    /\ files \in Tree
    /\ findings = [p \in Path |-> findings[p]]
    /\ deps \in [Path -> SUBSET Query]
    /\ emitted \in [Path -> SUBSET Path]
    /\ \A p \in Path : p \notin emitted[p]
    /\ seenInputs \in Input \cup {None}
    /\ seenDiscovery \in Discovery
    /\ seenStubs \in StubText \cup {None}
    /\ seenAliases \subseteq Symbol
    /\ prevInferred \in [Symbol -> SUBSET ArgType] \cup {None}
    /\ report = [p \in Path |-> report[p]]
    /\ reanalyzed \subseteq Path
    /\ pc \in {"idle", "reading"}
    /\ todo \subseteq Path \X BOOLEAN
    /\ changedFiles \subseteq Path
    /\ changedSurface \subseteq Symbol
    /\ changedBody \subseteq Symbol
    /\ analysisChanged \in BOOLEAN
    /\ drift \in 0..MaxDrift
    /\ settled \in BOOLEAN

\* Incremental equals batch (incremental.rs, "Equivalence with the batch
\* engine"): whatever edits came between the reads of its passes, what the
\* session reports is what the batch engine would report on the texts, flags,
\* inputs and stubs the session read.
BatchEquivalent ==
    pc = "idle" /\ ~FirstPass => report = Batch(files, seenInputs, seenStubs)

\* A pass that walked the tree, or was told of every file that differs, on a
\* disk nobody touched meanwhile, has read exactly what is there: its report is
\* then (BatchEquivalent) that of a fresh batch run.
FreshReport ==
    pc = "idle" /\ ~FirstPass /\ settled
        => /\ files = Discovered
           /\ seenInputs = inputs
           /\ seenStubs = stubs

\* The lookups recorded for an entry, however many passes reused it since, are
\* the ones its analysis would make now: the next invalidation relies on it.
DepsCurrent ==
    pc = "idle" /\ ~FirstPass =>
        LET idx == Indexed(files, seenInputs, seenStubs,
                           Inferred(files, seenInputs, seenStubs))
        IN \A p \in Path :
             deps[p] = IF files[p] # None /\ files[p].analyze
                       THEN Consulted(Reads[files[p].source], idx)
                       ELSE {}

\* No finding stays located in a file that was removed or is no longer
\* analyzed: "a producer keeps stale findings located at the dead path".
LocatedAtLiveFiles ==
    pc = "idle" => \A p \in Path : \A t \in emitted[p] :
        files[t] # None /\ files[t].analyze

\* A pass that finds nothing changed on the disk, in the inputs or in the stubs
\* analyzes nothing again: neither the inferred signatures nor the aliases it
\* recomputes may look different from those of the previous pass.
QuietPassReusesAll ==
    [][ /\ pc = "reading" /\ pc' = "idle"
        /\ changedFiles = {} /\ ~analysisChanged /\ stubs = seenStubs
        => reanalyzed' = {} ]_vars
=============================================================================
