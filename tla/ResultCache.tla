----------------------------- MODULE ResultCache -----------------------------
(***************************************************************************)
(* The whole-project result cache (result_cache.rs) as concurrent runs of  *)
(* the batch engine use it (run_pipeline).  A run reads the configuration, *)
(* the baseline and the sources, hashes what it read into a key, and takes *)
(* the report stored under the key, or analyzes and stores its own.  Files *)
(* are written in place and without locks; a run may be killed anywhere,   *)
(* the disk may change between any two of its reads, and                   *)
(* clear-result-cache may delete the directory.                            *)
(***************************************************************************)
EXTENDS Naturals, Sequences, FiniteSets, SequencesExt

CONSTANTS
    Run,        \* runs of phpxray, each with its place in time
    Root,       \* project roots that share the cache directory
    Project,    \* what discovery and reading can yield: paths, flags, texts
    Inputs,     \* analysis inputs and discovery settings
    Ignore,     \* merged ignore lists
    ConfigText,
    BaselineText,
    Digest,
    Torn,       \* a file that does not parse
    None        \* "not there"

CONSTANTS
    InputsOf,   \* InputsOf[c]: what config text c says of the analysis
    Merged,     \* Merged[c][b]: its ignore entries, those of the baseline
                \* merged in, or None when the baseline does not load
    IgnoreKey,  \* IgnoreKey[i]: the fields of an ignore list that are hashed
    Hash,       \* Hash[f]: the 64-bit digest of the hashed fields
    Level,      \* Level[i]: the rule level of the inputs
    Count,      \* Count[p]: how many files a project has
    MaxEntries  \* MAX_ENTRIES

CONSTANTS
    MaxEdits,   \* bound: edits of a behavior
    MaxClears   \* bound: times the cache is cleared

\* The hashed fields: files, inputs, ignore entries, bytes of the baseline.
Fields == Project \X Inputs \X {IgnoreKey[i] : i \in Ignore} \X BaselineText

Echo == {Level[i] : i \in Inputs} \X {Count[p] : p \in Project} \X Root

\* What a run reports: the findings of a project, suppressed by a list.
Report == [project : Project, inputs : Inputs, ignore : Ignore]

Entry == [echo : Echo, report : Report]

ASSUME CacheAssumption ==
    /\ InputsOf \in [ConfigText -> Inputs]
    /\ Merged \in [ConfigText -> [BaselineText -> Ignore \cup {None}]]
    /\ Hash \in [Fields -> Digest]
    /\ None \notin Ignore /\ None \notin Digest
    /\ None \notin Entry /\ None \notin Report
    /\ Torn \notin Entry /\ Torn # None
    /\ MaxEntries \in Nat \ {0}
    /\ MaxEdits \in Nat /\ MaxClears \in Nat

VARIABLES
    disk,       \* per root: [project, config, baseline]
    dir,        \* whether the cache directory exists
    cache,      \* per digest: the entry its file holds, Torn, or None
    order,      \* the digests that have a file, by time of modification
    edits, clears

VARIABLES       \* per run
    pc, root,
    config, ignore, project,    \* what it read
    digest,
    report,
    handle,     \* "open", "unlinked" (its file was deleted) or "closed"
    victims,    \* entries it is about to evict
    alone       \* no other run, edit or clearing overlaps it so far

own  == <<root, config, ignore, project, digest, report>>
vars == <<disk, dir, cache, order, edits, clears, pc, own, handle, victims, alone>>

Init ==
    /\ disk \in [Root -> [project : Project, config : ConfigText,
                          baseline : BaselineText]]
    /\ dir = FALSE
    /\ cache = [d \in Digest |-> None]
    /\ order = <<>>
    /\ edits = 0
    /\ clears = 0
    /\ pc = [r \in Run |-> "idle"]
    /\ root \in [Run -> Root]
    /\ config = [r \in Run |-> None]
    /\ ignore = [r \in Run |-> None]
    /\ project = [r \in Run |-> None]
    /\ digest = [r \in Run |-> None]
    /\ report = [r \in Run |-> None]
    /\ handle = [r \in Run |-> "closed"]
    /\ victims = [r \in Run |-> {}]
    /\ alone = [r \in Run |-> FALSE]

Present == {d \in Digest : cache[d] # None}

\* A run that has begun and has neither ended nor been killed.
Active(r) == pc[r] \notin {"idle", "done", "killed"}

\* From opening an entry to the end of the eviction.
Storing(r) == pc[r] \in {"write", "list", "evict"}

\* The files without one of them, which is listed at most once.
Without(s, d) ==
    IF d \in ToSet(s) THEN RemoveAt(s, CHOOSE i \in DOMAIN s : s[i] = d) ELSE s

-----------------------------------------------------------------------------
\* Somebody edits the sources, the configuration or the baseline.
Edit ==
    /\ edits < MaxEdits
    /\ edits' = edits + 1
    /\ \E R \in Root :
         \/ \E p \in Project : disk' = [disk EXCEPT ![R].project = p]
         \/ \E c \in ConfigText : disk' = [disk EXCEPT ![R].config = c]
         \/ \E b \in BaselineText : disk' = [disk EXCEPT ![R].baseline = b]
    /\ disk' # disk
    /\ UNCHANGED <<dir, cache, order, clears, pc, own, handle, victims, alone>>

\* Deleting a file leaves the runs that have it open with an unlinked one.
Unlink(D) ==
    handle' = [r \in Run |-> IF digest[r] \in D /\ handle[r] = "open"
                             THEN "unlinked" ELSE handle[r]]

\* clear-result-cache: the directory goes, with every entry.
Clear ==
    /\ clears < MaxClears
    /\ clears' = clears + 1
    /\ dir' = FALSE
    /\ cache' = [d \in Digest |-> None]
    /\ order' = <<>>
    /\ Unlink(Digest)
    /\ alone' = [r \in Run |-> FALSE]
    /\ UNCHANGED <<disk, edits, pc, own, victims>>

-----------------------------------------------------------------------------
\* A run begins by loading the configuration of its root ...
LoadConfig(r) ==
    /\ pc[r] = "idle"
    /\ config' = [config EXCEPT ![r] = disk[root[r]].config]
    /\ alone' = [q \in Run |-> q = r /\ \A s \in Run : ~Active(s)]
    /\ pc' = [pc EXCEPT ![r] = "merge"]
    /\ UNCHANGED <<disk, dir, cache, order, edits, clears, root, ignore, project,
                   digest, report, handle, victims>>

\* Faulty: goes on without the baseline.
AfterMergeAlways(merged) == "read"

\* A baseline that does not load ends the run.
AfterMerge(merged) == IF merged = None THEN "done" ELSE "read"

\* ... merges the baseline into its ignore list ...
MergeBaseline(r) ==
    /\ pc[r] = "merge"
    /\ LET merged == Merged[config[r]][disk[root[r]].baseline]
       IN /\ ignore' = [ignore EXCEPT ![r] = merged]
          /\ pc' = [pc EXCEPT ![r] = AfterMerge(merged)]
    /\ UNCHANGED <<disk, dir, cache, order, edits, clears, root, config, project,
                   digest, report, handle, victims, alone>>

\* ... and reads every file.
ReadSources(r) ==
    /\ pc[r] = "read"
    /\ project' = [project EXCEPT ![r] = disk[root[r]].project]
    /\ pc' = [pc EXCEPT ![r] = "key"]
    /\ UNCHANGED <<disk, dir, cache, order, edits, clears, root, config, ignore,
                   digest, report, handle, victims, alone>>

\* Faulty: trusts the baseline's bytes to stand for the ignore list.
KeyOfBytes(r, b) ==
    Hash[<<project[r], InputsOf[config[r]],
           IgnoreKey[CHOOSE i \in Ignore : TRUE], b>>]

\* key: what the run read, and the bytes the baseline has now.
KeyOf(r, b) ==
    Hash[<<project[r], InputsOf[config[r]], IgnoreKey[ignore[r]], b>>]

EchoOf(r) == <<Level[InputsOf[config[r]]], Count[project[r]], root[r]>>

\* What analyzing what the run read gives.
Analyzed(r) == [project |-> project[r], inputs |-> InputsOf[config[r]],
                ignore |-> ignore[r]]

Key(r) ==
    /\ pc[r] = "key"
    /\ digest' = [digest EXCEPT ![r] = KeyOf(r, disk[root[r]].baseline)]
    /\ pc' = [pc EXCEPT ![r] = "load"]
    /\ UNCHANGED <<disk, dir, cache, order, edits, clears, root, config, ignore,
                   project, report, handle, victims, alone>>

\* Faulty: the echo is not compared.
HitOnKey(r) == cache[digest[r]] \notin {None, Torn}

\* load: an entry that parses and echoes this run.
Hit(r) ==
    /\ cache[digest[r]] \notin {None, Torn}
    /\ cache[digest[r]].echo = EchoOf(r)

Load(r) ==
    /\ pc[r] = "load"
    /\ \/ /\ Hit(r)
          /\ report' = [report EXCEPT ![r] = cache[digest[r]].report]
          /\ pc' = [pc EXCEPT ![r] = "done"]
       \/ /\ ~Hit(r)
          /\ report' = [report EXCEPT ![r] = Analyzed(r)]
          /\ pc' = [pc EXCEPT ![r] = "store"]
    /\ UNCHANGED <<disk, dir, cache, order, edits, clears, root, config, ignore,
                   project, digest, handle, victims, alone>>

-----------------------------------------------------------------------------
\* store creates the directory ...
CreateDir(r) ==
    /\ pc[r] = "store"
    /\ dir' = TRUE
    /\ pc' = [pc EXCEPT ![r] = "open"]
    /\ UNCHANGED <<disk, cache, order, edits, clears, own, handle, victims, alone>>

\* ... opens the file, truncating one that is there (unless the directory is
\* gone again, which ends the store silently) ...
Open(r) ==
    /\ pc[r] = "open"
    /\ \/ /\ dir
          /\ cache' = [cache EXCEPT ![digest[r]] = Torn]
          /\ order' = Append(Without(order, digest[r]), digest[r])
          /\ handle' = [handle EXCEPT ![r] = "open"]
          /\ pc' = [pc EXCEPT ![r] = "write"]
       \/ /\ ~dir
          /\ pc' = [pc EXCEPT ![r] = "list"]
          /\ UNCHANGED <<cache, order, handle>>
    /\ UNCHANGED <<disk, dir, edits, clears, own, victims, alone>>

\* ... and writes it.  Over what another run wrote since, that gives this
\* entry, or one with the tail of the other, which no longer parses.
Write(r) ==
    /\ pc[r] = "write"
    /\ IF handle[r] = "open"
       THEN /\ \E e \in {[echo |-> EchoOf(r), report |-> report[r]], Torn} :
                 /\ e = Torn => cache[digest[r]] \notin
                        {Torn, [echo |-> EchoOf(r), report |-> report[r]]}
                 /\ cache' = [cache EXCEPT ![digest[r]] = e]
            /\ order' = Append(Without(order, digest[r]), digest[r])
       ELSE UNCHANGED <<cache, order>>
    /\ handle' = [handle EXCEPT ![r] = "closed"]
    /\ pc' = [pc EXCEPT ![r] = "list"]
    /\ UNCHANGED <<disk, dir, edits, clears, own, victims, alone>>

\* Faulty: drops the newest.
Newest(s) == ToSet(SubSeq(s, MaxEntries + 1, Len(s)))

\* Faulty: keeps one too many.
BeyondByOne(s) == ToSet(SubSeq(s, 1, Len(s) - MaxEntries - 1))

\* The entries beyond the newest MaxEntries.
Beyond(s) == ToSet(SubSeq(s, 1, Len(s) - MaxEntries))

\* evict_old_entries lists the directory ...
List(r) ==
    /\ pc[r] = "list"
    /\ victims' = [victims EXCEPT ![r] = Beyond(order)]
    /\ pc' = [pc EXCEPT ![r] = "evict"]
    /\ UNCHANGED <<disk, dir, cache, order, edits, clears, own, handle, alone>>

\* ... and deletes what it chose, one by one, whatever was written since.
Evict(r) ==
    /\ pc[r] = "evict"
    /\ \/ \E d \in victims[r] :
            /\ victims' = [victims EXCEPT ![r] = @ \ {d}]
            /\ cache' = [cache EXCEPT ![d] = None]
            /\ order' = Without(order, d)
            /\ Unlink({d})
            /\ UNCHANGED pc
       \/ /\ victims[r] = {}
          /\ pc' = [pc EXCEPT ![r] = "done"]
          /\ UNCHANGED <<victims, cache, order, handle>>
    /\ UNCHANGED <<disk, dir, edits, clears, own, alone>>

\* A run is killed; the file it was writing is left as it is, or cut.
Kill(r) ==
    /\ Active(r)
    /\ pc' = [pc EXCEPT ![r] = "killed"]
    /\ \/ UNCHANGED <<cache, order>>
       \/ /\ handle[r] = "open"
          /\ cache' = [cache EXCEPT ![digest[r]] = Torn]
          /\ order' = Append(Without(order, digest[r]), digest[r])
    /\ handle' = [handle EXCEPT ![r] = "closed"]
    /\ victims' = [victims EXCEPT ![r] = {}]
    /\ config' = [config EXCEPT ![r] = None]
    /\ ignore' = [ignore EXCEPT ![r] = None]
    /\ project' = [project EXCEPT ![r] = None]
    /\ digest' = [digest EXCEPT ![r] = None]
    /\ report' = [report EXCEPT ![r] = None]
    /\ UNCHANGED <<disk, dir, edits, clears, root, alone>>

Step(r) ==
    \/ LoadConfig(r) \/ MergeBaseline(r) \/ ReadSources(r) \/ Key(r) \/ Load(r)
    \/ CreateDir(r) \/ Open(r) \/ Write(r) \/ List(r) \/ Evict(r)

Next == Edit \/ Clear \/ \E r \in Run : Step(r) \/ Kill(r)

Spec == Init /\ [][Next]_vars
-----------------------------------------------------------------------------
\* Every variable keeps its type, and a run gets past the baseline only with
\* an ignore list.
TypeOK ==
    /\ disk \in [Root -> [project : Project, config : ConfigText,
                          baseline : BaselineText]]
    /\ dir \in BOOLEAN
    /\ cache \in [Digest -> Entry \cup {None, Torn}]
    /\ order \in Seq(Digest)
    /\ edits \in 0..MaxEdits
    /\ clears \in 0..MaxClears
    /\ pc \in [Run -> {"idle", "merge", "read", "key", "load", "store", "open",
                       "write", "list", "evict", "done", "killed"}]
    /\ root \in [Run -> Root]
    /\ config \in [Run -> ConfigText \cup {None}]
    /\ ignore \in [Run -> Ignore \cup {None}]
    /\ \A r \in Run : Active(r) /\ pc[r] # "merge" => ignore[r] # None
    /\ project \in [Run -> Project \cup {None}]
    /\ digest \in [Run -> Digest \cup {None}]
    /\ report \in [Run -> Report \cup {None}]
    /\ handle \in [Run -> {"open", "unlinked", "closed"}]
    /\ victims \in [Run -> SUBSET Digest]
    /\ alone \in [Run -> BOOLEAN]

\* A run reports what analyzing what it read would give, whether it analyzed or
\* found an entry: no torn, colliding or foreign entry is ever served, and no
\* entry written under a key says something else than the key's readers ask.
\* (result_cache_ignore_and_baseline_changes_miss and its sisters.)
ReportIsOwn ==
    \A r \in Run : report[r] # None => report[r] = Analyzed(r)

\* The directory holds MaxEntries entries and those of the runs that are storing
\* or were killed: however evictions, with stale listings, interleave, the cache
\* does not "grow without bound".
Bounded ==
    Cardinality(Present) <=
        MaxEntries + Cardinality({r \in Run : Storing(r) \/ pc[r] = "killed"})

\* A run that nothing overlapped leaves its entry behind: the eviction that ends
\* it does not take it, so repeating the run is a hit
\* (result_cache_hits_identical_project_rerun, --fail-without-result-cache).
NextRunHits ==
    \A r \in Run : alone[r] /\ pc[r] = "done" /\ report[r] # None => Hit(r)
=============================================================================
