-------------------------- MODULE ResultCacheProofs --------------------------
(***************************************************************************)
(* Proofs about the result cache, for any number of concurrent runs,       *)
(* edits, clearings, evictions and kills.  It serves no foreign report, as *)
(* long as what is hashed separates what is analyzed (ResultCacheScope).   *)
(* Its directory is bounded however stale the listings are that runs evict *)
(* by, and a run that nothing overlapped is a hit when it is repeated.     *)
(***************************************************************************)
EXTENDS ResultCacheScope, FiniteSetTheorems, SequenceTheorems, TLAPS

\* The steps of a run at which it has read its configuration, its ignore list,
\* its files, has its key, and has its report.
Loaded   == {"merge", "read", "key", "load", "store", "open", "write", "list", "evict"}
MergedIn == Loaded \ {"merge"}
HasFiles == MergedIn \ {"read"}
HasKey   == HasFiles \ {"key"}
Reported == HasKey \ {"load"}

\* The types that the proof needs.
Types ==
    /\ disk \in [Root -> [project : Project, config : ConfigText,
                          baseline : BaselineText]]
    /\ cache \in [Digest -> Entry \cup {None, Torn}]
    /\ pc \in [Run -> Loaded \cup {"idle", "done", "killed"}]
    /\ root \in [Run -> Root]
    /\ config \in [Run -> ConfigText \cup {None}]
    /\ ignore \in [Run -> Ignore \cup {None}]
    /\ project \in [Run -> Project \cup {None}]
    /\ digest \in [Run -> Digest \cup {None}]
    /\ report \in [Run -> Report \cup {None}]
    /\ handle \in [Run -> {"open", "unlinked", "closed"}]

\* What a run has at each step; it has a file open only while it writes.
RunOK(r) ==
    /\ pc[r] \in Loaded => config[r] \in ConfigText
    /\ pc[r] \in MergedIn => ignore[r] \in Ignore
    /\ pc[r] \in HasFiles => project[r] \in Project
    /\ pc[r] \in HasKey => \E b \in BaselineText : digest[r] = KeyOf(r, b)
    /\ pc[r] \in Reported => report[r] # None
    /\ report[r] # None => pc[r] \in Reported \cup {"done"} /\ report[r] = Analyzed(r)
    /\ handle[r] = "open" => pc[r] = "write"

\* An entry that parses was written by a run with that key, which reported what
\* it analyzed.
Genuine(d, e) ==
    \E p \in Project, i \in Inputs, g \in Ignore, b \in BaselineText :
        /\ d = Hash[<<p, i, IgnoreKey[g], b>>]
        /\ e.echo[1] = Level[i]
        /\ e.echo[2] = Count[p]
        /\ e.report = [project |-> p, inputs |-> i, ignore |-> g]

EntriesGenuine ==
    \A d \in Digest : cache[d] \notin {None, Torn} => Genuine(d, cache[d])

CacheInv == Types /\ (\A r \in Run : RunOK(r)) /\ EntriesGenuine

-----------------------------------------------------------------------------
LEMMA KeyTyped ==
    ASSUME Types, NEW r \in Run, config[r] \in ConfigText, ignore[r] \in Ignore,
           project[r] \in Project, NEW b \in BaselineText
    PROVE  KeyOf(r, b) \in Digest
<1>1. InputsOf[config[r]] \in Inputs
  BY CacheAssumption
<1>2. <<project[r], InputsOf[config[r]], IgnoreKey[ignore[r]], b>> \in Fields
  BY <1>1 DEF Fields
<1> QED  BY <1>2, CacheAssumption DEF KeyOf

LEMMA DigestTyped ==
    ASSUME Types, NEW r \in Run, RunOK(r), pc[r] \in HasKey
    PROVE  digest[r] \in Digest
<1>1. PICK b \in BaselineText : digest[r] = KeyOf(r, b)
  BY DEF RunOK
<1>2. /\ config[r] \in ConfigText
      /\ ignore[r] \in Ignore
      /\ project[r] \in Project
  BY DEF RunOK, HasKey, HasFiles, MergedIn
<1> QED  BY <1>1, <1>2, KeyTyped

\* An analysis of what a run read is a report, and its echo is an echo.
LEMMA AnalyzedTyped ==
    ASSUME NEW r \in Run, config[r] \in ConfigText, ignore[r] \in Ignore,
           project[r] \in Project, root[r] \in Root
    PROVE  /\ Analyzed(r) \in Report
           /\ EchoOf(r) \in Echo
<1>1. InputsOf[config[r]] \in Inputs
  BY CacheAssumption
<1>2. Analyzed(r) \in Report
  BY <1>1 DEF Analyzed, Report
<1>3. EchoOf(r) \in Echo
  BY <1>1 DEF EchoOf, Echo
<1> QED  BY <1>2, <1>3

\* A hit gives what the run would have computed.
LEMMA HitIsOwn ==
    ASSUME CacheInv, NEW r \in Run, pc[r] = "load", Hit(r)
    PROVE  cache[digest[r]].report = Analyzed(r)
<1> DEFINE d == digest[r]
<1>1. /\ RunOK(r)
      /\ config[r] \in ConfigText /\ ignore[r] \in Ignore /\ project[r] \in Project
  BY DEF CacheInv, RunOK, Loaded, MergedIn, HasFiles
<1>2. PICK b \in BaselineText : d = KeyOf(r, b)
  BY <1>1 DEF RunOK, HasKey, HasFiles, MergedIn, Loaded
<1>3. d \in Digest
  BY <1>1, <1>2, KeyTyped DEF CacheInv
<1>4. cache[d] \notin {None, Torn} /\ cache[d].echo = EchoOf(r)
  BY DEF Hit
<1>5. Genuine(d, cache[d])
  BY <1>3, <1>4 DEF CacheInv, EntriesGenuine
<1>6. PICK p \in Project, i \in Inputs, g \in Ignore, a \in BaselineText :
        /\ d = Hash[<<p, i, IgnoreKey[g], a>>]
        /\ cache[d].echo[1] = Level[i]
        /\ cache[d].echo[2] = Count[p]
        /\ cache[d].report = [project |-> p, inputs |-> i, ignore |-> g]
  BY <1>5 DEF Genuine
<1>7. Level[i] = Level[InputsOf[config[r]]] /\ Count[p] = Count[project[r]]
  BY <1>4, <1>6 DEF EchoOf
<1>8. InputsOf[config[r]] \in Inputs
  BY <1>1, CacheAssumption
<1>9. Hash[<<p, i, IgnoreKey[g], a>>]
        = Hash[<<project[r], InputsOf[config[r]], IgnoreKey[ignore[r]], b>>]
  BY <1>2, <1>6 DEF KeyOf
<1>10. p = project[r] /\ i = InputsOf[config[r]] /\ g = ignore[r]
  BY <1>1, <1>7, <1>8, <1>9, KeysSeparate
<1> QED  BY <1>6, <1>10 DEF Analyzed

\* A run that an action leaves alone, its file possibly deleted, stays as it is.
LEMMA LeftAlone ==
    ASSUME NEW r \in Run, RunOK(r),
           pc'[r] = pc[r], config'[r] = config[r], ignore'[r] = ignore[r],
           project'[r] = project[r], digest'[r] = digest[r],
           report'[r] = report[r],
           handle'[r] = "open" => handle[r] = "open"
    PROVE  RunOK(r)'
BY DEF RunOK, KeyOf, Analyzed

\* Deleting entries leaves genuine ones.
LEMMA FewerEntries ==
    ASSUME EntriesGenuine,
           \A d \in Digest : cache'[d] \in {cache[d], None, Torn}
    PROVE  EntriesGenuine'
<1> SUFFICES ASSUME NEW d \in Digest, cache'[d] \notin {None, Torn}
             PROVE  Genuine(d, cache[d])'
  BY DEF EntriesGenuine
<1>1. cache'[d] = cache[d]
  OBVIOUS
<1>2. Genuine(d, cache[d])
  BY <1>1 DEF EntriesGenuine
<1> QED  BY <1>1, <1>2 DEF Genuine

LEMMA UnlinkTyped ==
    ASSUME handle \in [Run -> {"open", "unlinked", "closed"}], NEW D, Unlink(D)
    PROVE  /\ handle' \in [Run -> {"open", "unlinked", "closed"}]
           /\ \A r \in Run : handle'[r] = "open" => handle[r] = "open"
BY DEF Unlink

-----------------------------------------------------------------------------
LEMMA InitInv == Init => CacheInv
<1> SUFFICES ASSUME Init PROVE CacheInv
  OBVIOUS
<1>1. Types
  BY DEF Init, Types
<1>2. \A r \in Run : RunOK(r)
  BY DEF Init, RunOK, Loaded, MergedIn, HasFiles, HasKey, Reported
<1>3. EntriesGenuine
  BY DEF Init, EntriesGenuine
<1> QED  BY <1>1, <1>2, <1>3 DEF CacheInv

LEMMA EditStep ==
    ASSUME CacheInv, Edit
    PROVE  CacheInv'
<1>1. UNCHANGED <<cache, pc, root, config, ignore, project, digest, report, handle>>
  BY DEF Edit, own
<1>2. Types'
  <2>1. disk' \in [Root -> [project : Project, config : ConfigText, baseline : BaselineText]]
    <3> DEFINE D == [project : Project, config : ConfigText, baseline : BaselineText]
    <3>1. disk \in [Root -> D]
      BY DEF CacheInv, Types
    <3>2. PICK R \in Root :
            \/ \E p \in Project : disk' = [disk EXCEPT ![R].project = p]
            \/ \E c \in ConfigText : disk' = [disk EXCEPT ![R].config = c]
            \/ \E b \in BaselineText : disk' = [disk EXCEPT ![R].baseline = b]
      BY DEF Edit
    <3>3. ASSUME NEW p \in Project, disk' = [disk EXCEPT ![R].project = p]
          PROVE  disk' \in [Root -> D]
      BY <3>1, <3>3
    <3>4. ASSUME NEW c \in ConfigText, disk' = [disk EXCEPT ![R].config = c]
          PROVE  disk' \in [Root -> D]
      BY <3>1, <3>4
    <3>5. ASSUME NEW b \in BaselineText, disk' = [disk EXCEPT ![R].baseline = b]
          PROVE  disk' \in [Root -> D]
      BY <3>1, <3>5
    <3> QED  BY <3>2, <3>3, <3>4, <3>5
  <2> QED  BY <1>1, <2>1 DEF CacheInv, Types
<1>3. \A r \in Run : RunOK(r)'
  BY <1>1, LeftAlone DEF CacheInv
<1>4. EntriesGenuine'
  BY <1>1, FewerEntries DEF CacheInv
<1> QED  BY <1>2, <1>3, <1>4 DEF CacheInv

LEMMA ClearStep ==
    ASSUME CacheInv, Clear
    PROVE  CacheInv'
<1>1. UNCHANGED <<disk, pc, root, config, ignore, project, digest, report>>
  BY DEF Clear, own
<1>2. /\ handle' \in [Run -> {"open", "unlinked", "closed"}]
      /\ \A r \in Run : handle'[r] = "open" => handle[r] = "open"
  BY UnlinkTyped DEF CacheInv, Types, Clear
<1>3. cache' = [d \in Digest |-> None]
  BY DEF Clear
<1>4. Types'
  BY <1>1, <1>2, <1>3 DEF CacheInv, Types
<1>5. \A r \in Run : RunOK(r)'
  BY <1>1, <1>2, LeftAlone DEF CacheInv
<1>6. EntriesGenuine'
  BY <1>3, FewerEntries DEF CacheInv
<1> QED  BY <1>4, <1>5, <1>6 DEF CacheInv

-----------------------------------------------------------------------------
\* The steps of a run.  Each leaves the other runs alone.
LEMMA LoadConfigStep ==
    ASSUME CacheInv, NEW r \in Run, LoadConfig(r)
    PROVE  CacheInv'
<1>1. /\ pc[r] = "idle"
      /\ config' = [config EXCEPT ![r] = disk[root[r]].config]
      /\ pc' = [pc EXCEPT ![r] = "merge"]
      /\ UNCHANGED <<disk, cache, root, ignore, project, digest, report, handle>>
  BY DEF LoadConfig
<1>2. disk[root[r]].config \in ConfigText
  BY DEF CacheInv, Types
<1>3. Types'
  BY <1>1, <1>2 DEF CacheInv, Types, Loaded
<1>4. RunOK(r)'
  BY <1>1, <1>2 DEF CacheInv, Types, RunOK, Loaded, MergedIn, HasFiles, HasKey, Reported
<1>5. \A q \in Run : RunOK(q)'
  <2> SUFFICES ASSUME NEW q \in Run, q # r PROVE RunOK(q)'
    BY <1>4
  <2> QED  BY <1>1, LeftAlone DEF CacheInv, Types
<1>6. EntriesGenuine'
  BY <1>1, FewerEntries DEF CacheInv
<1> QED  BY <1>3, <1>5, <1>6 DEF CacheInv

LEMMA MergeBaselineStep ==
    ASSUME CacheInv, NEW r \in Run, MergeBaseline(r)
    PROVE  CacheInv'
<1> DEFINE merged == Merged[config[r]][disk[root[r]].baseline]
<1>1. /\ pc[r] = "merge"
      /\ ignore' = [ignore EXCEPT ![r] = merged]
      /\ pc' = [pc EXCEPT ![r] = IF merged = None THEN "done" ELSE "read"]
      /\ UNCHANGED <<disk, cache, root, config, project, digest, report, handle>>
  BY DEF MergeBaseline, AfterMerge
<1>2. config[r] \in ConfigText /\ RunOK(r)
  BY <1>1 DEF CacheInv, RunOK, Loaded
<1>3. merged \in Ignore \cup {None}
  BY <1>2, CacheAssumption DEF CacheInv, Types
<1>4. Types'
  BY <1>1, <1>3 DEF CacheInv, Types, Loaded
<1>5. RunOK(r)'
  <2>1. report'[r] = None
    BY <1>1, <1>2 DEF RunOK, Reported, HasKey, HasFiles, MergedIn, Loaded
  <2>2. pc'[r] \in {"done", "read"} /\ (pc'[r] = "read" => ignore'[r] \in Ignore)
    BY <1>1, <1>3 DEF CacheInv, Types
  <2>3. handle'[r] # "open"
    BY <1>1, <1>2 DEF RunOK
  <2> QED
    BY <1>1, <1>2, <2>1, <2>2, <2>3
       DEF RunOK, Loaded, MergedIn, HasFiles, HasKey, Reported
<1>6. \A q \in Run : RunOK(q)'
  <2> SUFFICES ASSUME NEW q \in Run, q # r PROVE RunOK(q)'
    BY <1>5
  <2> QED  BY <1>1, LeftAlone DEF CacheInv, Types
<1>7. EntriesGenuine'
  BY <1>1, FewerEntries DEF CacheInv
<1> QED  BY <1>4, <1>6, <1>7 DEF CacheInv

LEMMA ReadSourcesStep ==
    ASSUME CacheInv, NEW r \in Run, ReadSources(r)
    PROVE  CacheInv'
<1>1. /\ pc[r] = "read"
      /\ project' = [project EXCEPT ![r] = disk[root[r]].project]
      /\ pc' = [pc EXCEPT ![r] = "key"]
      /\ UNCHANGED <<disk, cache, root, config, ignore, digest, report, handle>>
  BY DEF ReadSources
<1>2. disk[root[r]].project \in Project
  BY DEF CacheInv, Types
<1>3. Types'
  BY <1>1, <1>2 DEF CacheInv, Types, Loaded
<1>4. RunOK(r)'
  BY <1>1, <1>2 DEF CacheInv, Types, RunOK, Loaded, MergedIn, HasFiles, HasKey, Reported
<1>5. \A q \in Run : RunOK(q)'
  <2> SUFFICES ASSUME NEW q \in Run, q # r PROVE RunOK(q)'
    BY <1>4
  <2> QED  BY <1>1, LeftAlone DEF CacheInv, Types
<1>6. EntriesGenuine'
  BY <1>1, FewerEntries DEF CacheInv
<1> QED  BY <1>3, <1>5, <1>6 DEF CacheInv

LEMMA KeyStep ==
    ASSUME CacheInv, NEW r \in Run, Key(r)
    PROVE  CacheInv'
<1> DEFINE b == disk[root[r]].baseline
<1>1. /\ pc[r] = "key"
      /\ digest' = [digest EXCEPT ![r] = KeyOf(r, b)]
      /\ pc' = [pc EXCEPT ![r] = "load"]
      /\ UNCHANGED <<disk, cache, root, config, ignore, project, report, handle>>
  BY DEF Key
<1>2. /\ RunOK(r) /\ b \in BaselineText
      /\ config[r] \in ConfigText /\ ignore[r] \in Ignore /\ project[r] \in Project
  BY <1>1 DEF CacheInv, Types, RunOK, Loaded, MergedIn, HasFiles
<1>3. KeyOf(r, b) \in Digest
  BY <1>2, KeyTyped DEF CacheInv
<1>4. Types'
  BY <1>1, <1>3 DEF CacheInv, Types, Loaded
<1>5. RunOK(r)'
  <2>1. digest'[r] = KeyOf(r, b)'
    BY <1>1 DEF CacheInv, Types, KeyOf
  <2>2. \E a \in BaselineText : (digest[r] = KeyOf(r, a))'
    BY <1>1, <1>2, <2>1
  <2>3. pc'[r] = "load" /\ report'[r] = None /\ handle'[r] # "open"
    BY <1>1, <1>2 DEF CacheInv, Types, RunOK, Reported, HasKey, HasFiles, MergedIn, Loaded
  <2> QED
    BY <1>1, <1>2, <2>2, <2>3 DEF RunOK, Loaded, MergedIn, HasFiles, HasKey, Reported
<1>6. \A q \in Run : RunOK(q)'
  <2> SUFFICES ASSUME NEW q \in Run, q # r PROVE RunOK(q)'
    BY <1>5
  <2> QED  BY <1>1, LeftAlone DEF CacheInv, Types
<1>7. EntriesGenuine'
  BY <1>1, FewerEntries DEF CacheInv
<1> QED  BY <1>4, <1>6, <1>7 DEF CacheInv

LEMMA LoadStep ==
    ASSUME CacheInv, NEW r \in Run, Load(r)
    PROVE  CacheInv'
<1>1. /\ pc[r] = "load"
      /\ UNCHANGED <<disk, cache, root, config, ignore, project, digest, handle>>
  BY DEF Load
<1>2. /\ RunOK(r) /\ handle[r] # "open" /\ root[r] \in Root
      /\ config[r] \in ConfigText /\ ignore[r] \in Ignore /\ project[r] \in Project
  BY <1>1 DEF CacheInv, Types, RunOK, Loaded, MergedIn, HasFiles
<1>3. /\ report' = [report EXCEPT ![r] = Analyzed(r)]
      /\ \/ pc' = [pc EXCEPT ![r] = "done"]
         \/ pc' = [pc EXCEPT ![r] = "store"]
  BY <1>1, HitIsOwn DEF Load
<1>4. Analyzed(r) \in Report /\ Analyzed(r) # None
  BY <1>2, AnalyzedTyped, CacheAssumption
<1>5. Types'
  BY <1>1, <1>3, <1>4 DEF CacheInv, Types, Loaded
<1>6. RunOK(r)'
  <2>1. report'[r] = Analyzed(r) /\ Analyzed(r)' = Analyzed(r)
    BY <1>1, <1>3 DEF CacheInv, Types, Analyzed
  <2>2. \E b \in BaselineText : (digest[r] = KeyOf(r, b))'
    BY <1>1, <1>2 DEF RunOK, KeyOf, HasKey, HasFiles, MergedIn, Loaded
  <2>3. pc'[r] \in {"done", "store"}
    BY <1>3 DEF CacheInv, Types
  <2> QED
    BY <1>1, <1>2, <1>4, <2>1, <2>2, <2>3
       DEF RunOK, Loaded, MergedIn, HasFiles, HasKey, Reported
<1>7. \A q \in Run : RunOK(q)'
  <2> SUFFICES ASSUME NEW q \in Run, q # r PROVE RunOK(q)'
    BY <1>6
  <2> QED  BY <1>1, <1>3, LeftAlone DEF CacheInv, Types
<1>8. EntriesGenuine'
  BY <1>1, FewerEntries DEF CacheInv
<1> QED  BY <1>5, <1>7, <1>8 DEF CacheInv

\* From here on a run has its report, and moves on without touching it.
LEMMA MovesOn ==
    ASSUME CacheInv, NEW r \in Run, pc[r] \in Reported,
           NEW l \in Reported \cup {"done"}, pc' = [pc EXCEPT ![r] = l],
           UNCHANGED <<config, ignore, project, digest, report>>,
           \A q \in Run \ {r} : handle'[q] = "open" => handle[q] = "open",
           handle'[r] = "open" => l = "write"
    PROVE  \A q \in Run : RunOK(q)'
<1>1. RunOK(r) /\ report[r] # None
  BY DEF CacheInv, RunOK
<1>2. RunOK(r)'
  <2>1. pc'[r] = l
    BY DEF CacheInv, Types
  <2>2. Analyzed(r)' = Analyzed(r) /\ \A b \in BaselineText : KeyOf(r, b)' = KeyOf(r, b)
    BY DEF Analyzed, KeyOf
  <2> QED
    BY <1>1, <2>1, <2>2 DEF RunOK, Loaded, MergedIn, HasFiles, HasKey, Reported
<1>3. ASSUME NEW q \in Run, q # r
      PROVE  RunOK(q)'
  BY <1>3, LeftAlone DEF CacheInv, Types
<1> QED  BY <1>2, <1>3

LEMMA CreateDirStep ==
    ASSUME CacheInv, NEW r \in Run, CreateDir(r)
    PROVE  CacheInv'
<1>1. /\ pc[r] = "store"
      /\ pc' = [pc EXCEPT ![r] = "open"]
      /\ UNCHANGED <<disk, cache, root, config, ignore, project, digest, report,
                     handle>>
  BY DEF CreateDir, own
<1>2. Types'
  BY <1>1 DEF CacheInv, Types, Loaded
<1>3. handle[r] # "open"
  BY <1>1 DEF CacheInv, RunOK
<1>4. \A q \in Run : RunOK(q)'
  BY <1>1, <1>3, MovesOn DEF Reported, HasKey, HasFiles, MergedIn, Loaded
<1>5. EntriesGenuine'
  BY <1>1, FewerEntries DEF CacheInv
<1> QED  BY <1>2, <1>4, <1>5 DEF CacheInv

LEMMA OpenStep ==
    ASSUME CacheInv, NEW r \in Run, Open(r)
    PROVE  CacheInv'
<1>1. /\ pc[r] = "open"
      /\ UNCHANGED <<disk, root, config, ignore, project, digest, report>>
  BY DEF Open, own
<1>2. RunOK(r) /\ digest[r] \in Digest /\ handle[r] # "open"
  BY <1>1, DigestTyped DEF CacheInv, RunOK, HasKey, HasFiles, MergedIn, Loaded
<1>3. CASE dir
  <2>1. /\ cache' = [cache EXCEPT ![digest[r]] = Torn]
        /\ handle' = [handle EXCEPT ![r] = "open"]
        /\ pc' = [pc EXCEPT ![r] = "write"]
    BY <1>3 DEF Open
  <2>2. Types'
    BY <1>1, <2>1 DEF CacheInv, Types, Loaded
  <2>3. \A q \in Run : RunOK(q)'
    BY <1>1, <2>1, MovesOn DEF CacheInv, Types, Reported, HasKey, HasFiles, MergedIn, Loaded
  <2>4. EntriesGenuine'
    BY <2>1, FewerEntries DEF CacheInv, Types
  <2> QED  BY <2>2, <2>3, <2>4 DEF CacheInv
<1>4. CASE ~dir
  <2>1. pc' = [pc EXCEPT ![r] = "list"] /\ UNCHANGED <<cache, handle>>
    BY <1>4 DEF Open
  <2>2. Types'
    BY <1>1, <2>1 DEF CacheInv, Types, Loaded
  <2>3. \A q \in Run : RunOK(q)'
    BY <1>1, <1>2, <2>1, MovesOn DEF Reported, HasKey, HasFiles, MergedIn, Loaded
  <2>4. EntriesGenuine'
    BY <2>1, FewerEntries DEF CacheInv
  <2> QED  BY <2>2, <2>3, <2>4 DEF CacheInv
<1> QED  BY <1>3, <1>4

LEMMA WriteStep ==
    ASSUME CacheInv, NEW r \in Run, Write(r)
    PROVE  CacheInv'
<1> DEFINE mine == [echo |-> EchoOf(r), report |-> report[r]]
<1>1. /\ pc[r] = "write"
      /\ handle' = [handle EXCEPT ![r] = "closed"]
      /\ pc' = [pc EXCEPT ![r] = "list"]
      /\ UNCHANGED <<disk, root, config, ignore, project, digest, report>>
  BY DEF Write, own
<1>2. /\ RunOK(r) /\ root[r] \in Root /\ report[r] = Analyzed(r)
      /\ config[r] \in ConfigText /\ ignore[r] \in Ignore /\ project[r] \in Project
      /\ \E b \in BaselineText : digest[r] = KeyOf(r, b)
  BY <1>1 DEF CacheInv, Types, RunOK, Reported, HasKey, HasFiles, MergedIn, Loaded
<1>3. digest[r] \in Digest
  BY <1>1, <1>2, DigestTyped DEF CacheInv, HasKey, HasFiles, MergedIn, Loaded
<1>4. \/ UNCHANGED cache
      \/ cache' = [cache EXCEPT ![digest[r]] = mine]
      \/ cache' = [cache EXCEPT ![digest[r]] = Torn]
  BY DEF Write
<1>5. mine \in Entry
  BY <1>2, AnalyzedTyped DEF Entry
<1>6. Types'
  <2>1. cache' \in [Digest -> Entry \cup {None, Torn}]
    BY <1>4, <1>5 DEF CacheInv, Types
  <2> QED  BY <1>1, <2>1 DEF CacheInv, Types, Loaded
<1>7. \A q \in Run : RunOK(q)'
  BY <1>1, MovesOn DEF CacheInv, Types, Reported, HasKey, HasFiles, MergedIn, Loaded
<1>8. EntriesGenuine'
  <2>1. CASE cache' = [cache EXCEPT ![digest[r]] = mine]
    <3>1. Genuine(digest[r], mine)
      <4>1. PICK b \in BaselineText : digest[r] = KeyOf(r, b)
        BY <1>2
      <4>2. InputsOf[config[r]] \in Inputs
        BY <1>2, CacheAssumption
      <4>3. /\ digest[r] = Hash[<<project[r], InputsOf[config[r]], IgnoreKey[ignore[r]], b>>]
            /\ mine.echo[1] = Level[InputsOf[config[r]]]
            /\ mine.echo[2] = Count[project[r]]
            /\ mine.report = [project |-> project[r], inputs |-> InputsOf[config[r]],
                              ignore |-> ignore[r]]
        BY <1>2, <4>1 DEF KeyOf, EchoOf, Analyzed
      <4> QED  BY <1>2, <4>2, <4>3 DEF Genuine
    <3>2. ASSUME NEW d \in Digest, cache'[d] \notin {None, Torn}
          PROVE  Genuine(d, cache[d])'
      <4>1. CASE d = digest[r]
        <5>1. cache'[d] = mine
          BY <1>3, <2>1, <4>1 DEF CacheInv, Types
        <5>2. Genuine(d, mine)
          BY <3>1, <4>1
        <5> HIDE DEF mine
        <5> QED  BY <5>1, <5>2 DEF Genuine
      <4>2. CASE d # digest[r]
        <5>1. cache'[d] = cache[d]
          BY <2>1, <4>2 DEF CacheInv, Types
        <5>2. Genuine(d, cache[d])
          BY <3>2, <5>1 DEF CacheInv, EntriesGenuine
        <5> QED  BY <5>1, <5>2 DEF Genuine
      <4> QED  BY <4>1, <4>2
    <3> QED  BY <3>2 DEF EntriesGenuine
  <2>2. CASE UNCHANGED cache \/ cache' = [cache EXCEPT ![digest[r]] = Torn]
    BY <2>2, FewerEntries DEF CacheInv, Types
  <2> QED  BY <1>4, <2>1, <2>2
<1> QED  BY <1>6, <1>7, <1>8 DEF CacheInv

LEMMA ListStep ==
    ASSUME CacheInv, NEW r \in Run, List(r)
    PROVE  CacheInv'
<1>1. /\ pc[r] = "list"
      /\ pc' = [pc EXCEPT ![r] = "evict"]
      /\ UNCHANGED <<disk, cache, root, config, ignore, project, digest, report, handle>>
  BY DEF List, own
<1>2. handle[r] # "open"
  BY <1>1 DEF CacheInv, RunOK
<1>3. Types'
  BY <1>1 DEF CacheInv, Types, Loaded
<1>4. \A q \in Run : RunOK(q)'
  BY <1>1, <1>2, MovesOn DEF Reported, HasKey, HasFiles, MergedIn, Loaded
<1>5. EntriesGenuine'
  BY <1>1, FewerEntries DEF CacheInv
<1> QED  BY <1>3, <1>4, <1>5 DEF CacheInv

LEMMA EvictStep ==
    ASSUME CacheInv, NEW r \in Run, Evict(r)
    PROVE  CacheInv'
<1>1. /\ pc[r] = "evict"
      /\ UNCHANGED <<disk, root, config, ignore, project, digest, report>>
  BY DEF Evict, own
<1>2. handle[r] # "open"
  BY <1>1 DEF CacheInv, RunOK
<1>3. ASSUME NEW d \in victims[r],
             cache' = [cache EXCEPT ![d] = None],
             Unlink({d}), UNCHANGED pc
      PROVE  CacheInv'
  <2>1. /\ handle' \in [Run -> {"open", "unlinked", "closed"}]
        /\ \A q \in Run : handle'[q] = "open" => handle[q] = "open"
    BY <1>3, UnlinkTyped DEF CacheInv, Types
  <2>2. Types'
    BY <1>1, <1>3, <2>1 DEF CacheInv, Types
  <2>3. \A q \in Run : RunOK(q)'
    BY <1>1, <1>3, <2>1, LeftAlone DEF CacheInv
  <2>4. EntriesGenuine'
    BY <1>3, FewerEntries DEF CacheInv, Types
  <2> QED  BY <2>2, <2>3, <2>4 DEF CacheInv
<1>4. ASSUME pc' = [pc EXCEPT ![r] = "done"], UNCHANGED <<cache, handle>>
      PROVE  CacheInv'
  <2>1. Types'
    BY <1>1, <1>4 DEF CacheInv, Types
  <2>2. \A q \in Run : RunOK(q)'
    BY <1>1, <1>2, <1>4, MovesOn DEF Reported, HasKey, HasFiles, MergedIn, Loaded
  <2>3. EntriesGenuine'
    BY <1>4, FewerEntries DEF CacheInv
  <2> QED  BY <2>1, <2>2, <2>3 DEF CacheInv
<1> QED  BY <1>3, <1>4 DEF Evict

LEMMA KillStep ==
    ASSUME CacheInv, NEW r \in Run, Kill(r)
    PROVE  CacheInv'
<1>1. /\ pc' = [pc EXCEPT ![r] = "killed"]
      /\ handle' = [handle EXCEPT ![r] = "closed"]
      /\ config' = [config EXCEPT ![r] = None]
      /\ ignore' = [ignore EXCEPT ![r] = None]
      /\ project' = [project EXCEPT ![r] = None]
      /\ digest' = [digest EXCEPT ![r] = None]
      /\ report' = [report EXCEPT ![r] = None]
      /\ UNCHANGED <<disk, root>>
  BY DEF Kill
<1>2. \/ UNCHANGED cache
      \/ digest[r] \in Digest /\ cache' = [cache EXCEPT ![digest[r]] = Torn]
  BY DigestTyped DEF Kill, CacheInv, RunOK, HasKey, HasFiles, MergedIn, Loaded
<1>3. Types'
  <2>1. cache' \in [Digest -> Entry \cup {None, Torn}]
    BY <1>2 DEF CacheInv, Types
  <2> QED  BY <1>1, <2>1 DEF CacheInv, Types
<1>4. RunOK(r)'
  BY <1>1 DEF CacheInv, Types, RunOK, Loaded, MergedIn, HasFiles, HasKey, Reported
<1>5. \A q \in Run : RunOK(q)'
  <2> SUFFICES ASSUME NEW q \in Run, q # r PROVE RunOK(q)'
    BY <1>4
  <2> QED  BY <1>1, LeftAlone DEF CacheInv, Types
<1>6. EntriesGenuine'
  BY <1>2, FewerEntries DEF CacheInv, Types
<1> QED  BY <1>3, <1>5, <1>6 DEF CacheInv

LEMMA StutterStep ==
    ASSUME CacheInv, UNCHANGED vars
    PROVE  CacheInv'
<1>1. UNCHANGED <<disk, cache, pc, root, config, ignore, project, digest, report,
                  handle>>
  BY DEF vars, own
<1>2. Types'
  BY <1>1 DEF CacheInv, Types
<1>3. \A q \in Run : RunOK(q)'
  BY <1>1, LeftAlone DEF CacheInv
<1>4. EntriesGenuine'
  BY <1>1, FewerEntries DEF CacheInv
<1> QED  BY <1>2, <1>3, <1>4 DEF CacheInv

LEMMA NextInv == CacheInv /\ [Next]_vars => CacheInv'
<1> SUFFICES ASSUME CacheInv, [Next]_vars PROVE CacheInv'
  OBVIOUS
<1>1. CASE Edit
  BY <1>1, EditStep
<1>2. CASE Clear
  BY <1>2, ClearStep
<1>3. ASSUME NEW r \in Run, Step(r)
      PROVE  CacheInv'
  BY <1>3, LoadConfigStep, MergeBaselineStep, ReadSourcesStep, KeyStep, LoadStep,
     CreateDirStep, OpenStep, WriteStep, ListStep, EvictStep DEF Step
<1>4. ASSUME NEW r \in Run, Kill(r)
      PROVE  CacheInv'
  BY <1>4, KillStep
<1>5. CASE UNCHANGED vars
  BY <1>5, StutterStep
<1> QED  BY <1>1, <1>2, <1>3, <1>4, <1>5 DEF Next

-----------------------------------------------------------------------------
\* What every run has read and written, and what the entries hold, for any
\* number of runs over one cache directory (result_cache.rs, run_pipeline).
THEOREM CacheInvariance == Spec => []CacheInv
<1>1. Init => CacheInv
  BY InitInv
<1>2. CacheInv /\ [Next]_vars => CacheInv'
  BY NextInv
<1> QED  BY <1>1, <1>2, PTL DEF Spec

\* No run ever reports what another one computed from something else, whatever
\* runs, edits, evictions, clearings and kills interleave with it.
THEOREM CacheServesOwn == Spec => []ReportIsOwn
<1>1. CacheInv => ReportIsOwn
  BY DEF CacheInv, RunOK, ReportIsOwn
<1> QED  BY <1>1, CacheInvariance, PTL

-----------------------------------------------------------------------------
\* How many entries there are.  The directory lists each entry once.
Once(s) == \A i, j \in 1 .. Len(s) : s[i] = s[j] => i = j

Listed ==
    /\ order \in Seq(Digest)
    /\ Once(order)
    /\ ToSet(order) = Present

LEMMA Stretch ==
    ASSUME NEW S, NEW s \in Seq(S), NEW a \in Nat \ {0}, NEW b \in Nat,
           a <= b + 1, b <= Len(s)
    PROVE  /\ SubSeq(s, a, b) \in Seq(S)
           /\ Len(SubSeq(s, a, b)) = b - a + 1
           /\ \A i \in 1 .. b - a + 1 : SubSeq(s, a, b)[i] = s[a + i - 1]
<1>1. Len(s) \in Nat
  BY LenProperties
<1>2. \A i \in a .. b : s[i] \in S
  BY <1>1, ElementOfSeq
<1>3. /\ SubSeq(s, a, b) \in Seq(S)
      /\ Len(SubSeq(s, a, b)) = IF a <= b THEN b - a + 1 ELSE 0
      /\ \A i \in 1 .. b - a + 1 : SubSeq(s, a, b)[i] = s[a + i - 1]
  BY <1>2, SubSeqProperties
<1>4. (IF a <= b THEN b - a + 1 ELSE 0) = b - a + 1
  OBVIOUS
<1> QED  BY <1>3, <1>4

LEMMA WithoutOne ==
    ASSUME NEW s \in Seq(Digest), Once(s), NEW d
    PROVE  /\ Without(s, d) \in Seq(Digest)
           /\ Once(Without(s, d))
           /\ ToSet(Without(s, d)) = ToSet(s) \ {d}
<1>1. CASE d \notin ToSet(s)
  BY <1>1 DEF Without
<1>2. CASE d \in ToSet(s)
  <2> DEFINE k == CHOOSE i \in DOMAIN s : s[i] = d
             t == SubSeq(s, 1, k - 1) \o SubSeq(s, k + 1, Len(s))
  <2>1. /\ Len(s) \in Nat /\ DOMAIN s = 1 .. Len(s)
        /\ \A i \in 1 .. Len(s) : s[i] \in Digest
    BY LenProperties, ElementOfSeq
  <2>2. k \in 1 .. Len(s) /\ s[k] = d
    BY <1>2, <2>1 DEF ToSet
  <2>3. Without(s, d) = t
    BY <1>2 DEF Without, RemoveAt
  <2> HIDE DEF k
  <2> DEFINE u == SubSeq(s, 1, k - 1)
             v == SubSeq(s, k + 1, Len(s))
  <2>4. /\ u \in Seq(Digest) /\ Len(u) = k - 1
        /\ \A i \in 1 .. k - 1 : u[i] = s[i]
    <3>1. /\ u \in Seq(Digest) /\ Len(u) = (k - 1) - 1 + 1
          /\ \A i \in 1 .. (k - 1) - 1 + 1 : u[i] = s[1 + i - 1]
      BY <2>1, <2>2, Stretch
    <3> HIDE DEF u
    <3> QED  BY <2>1, <2>2, <3>1
  <2>5. /\ v \in Seq(Digest) /\ Len(v) = Len(s) - k
        /\ \A i \in 1 .. Len(s) - k : v[i] = s[k + i]
    <3>1. /\ v \in Seq(Digest) /\ Len(v) = Len(s) - (k + 1) + 1
          /\ \A i \in 1 .. Len(s) - (k + 1) + 1 : v[i] = s[(k + 1) + i - 1]
      <4>1. k + 1 \in Nat \ {0} /\ Len(s) \in Nat /\ k + 1 <= Len(s) + 1 /\ Len(s) <= Len(s)
        BY <2>1, <2>2
      <4> QED  BY <4>1, Stretch, Zenon
    <3> HIDE DEF v
    <3> QED  BY <2>1, <2>2, <3>1
  <2>12. t = u \o v
    OBVIOUS
  <2> HIDE DEF t, u, v
  <2>6. /\ t \in Seq(Digest) /\ Len(t) = Len(s) - 1
        /\ \A i \in 1 .. Len(s) - 1 : t[i] = IF i < k THEN s[i] ELSE s[i + 1]
    <3>1. /\ t \in Seq(Digest) /\ Len(t) = (k - 1) + (Len(s) - k)
          /\ \A i \in 1 .. (k - 1) + (Len(s) - k) :
                t[i] = IF i <= k - 1 THEN u[i] ELSE v[i - (k - 1)]
      <4>1. /\ t \in Seq(Digest) /\ Len(t) = Len(u) + Len(v)
            /\ \A i \in 1 .. Len(u) + Len(v) :
                  t[i] = IF i <= Len(u) THEN u[i] ELSE v[i - Len(u)]
        BY <2>4, <2>5, <2>12, ConcatProperties, Zenon
      <4> QED  BY <2>4, <2>5, <4>1
    <3>2. ASSUME NEW i \in 1 .. Len(s) - 1
          PROVE  t[i] = IF i < k THEN s[i] ELSE s[i + 1]
      <4>1. CASE i < k
        <5>1. i \in 1 .. k - 1
          BY <2>1, <2>2, <4>1
        <5>2. t[i] = u[i] /\ u[i] = s[i]
          BY <2>1, <2>2, <2>4, <3>1, <5>1
        <5> QED  BY <4>1, <5>2
      <4>2. CASE ~(i < k)
        <5> DEFINE j == i - (k - 1)
        <5>1. j \in 1 .. Len(s) - k /\ k + j = i + 1
          BY <2>1, <2>2, <4>2
        <5>2. t[i] = v[j]
          BY <2>1, <2>2, <3>1, <4>2
        <5> HIDE DEF j
        <5>3. v[j] = s[k + j]
          BY <2>5, <5>1
        <5> QED  BY <4>2, <5>1, <5>2, <5>3
      <4> QED  BY <4>1, <4>2
    <3> QED  BY <2>1, <2>2, <3>1, <3>2
  <2>7. Once(t)
    <3> SUFFICES ASSUME NEW i \in 1 .. Len(t), NEW j \in 1 .. Len(t), t[i] = t[j]
                 PROVE  i = j
      BY DEF Once
    <3> DEFINE a == IF i < k THEN i ELSE i + 1
               b == IF j < k THEN j ELSE j + 1
    <3>1. a \in 1 .. Len(s) /\ b \in 1 .. Len(s) /\ s[a] = s[b]
      BY <2>1, <2>2, <2>6
    <3>2. a = b
      BY <3>1 DEF Once
    <3> QED  BY <2>1, <2>2, <2>6, <3>2
  <2>8. ToSet(t) = ToSet(s) \ {d}
    <3>1. DOMAIN t = 1 .. Len(s) - 1
      BY <2>6, LenProperties
    <3>2. ASSUME NEW x \in ToSet(t)
          PROVE  x \in ToSet(s) \ {d}
      <4>1. PICK i \in 1 .. Len(s) - 1 : x = t[i]
        BY <3>1 DEF ToSet
      <4> DEFINE a == IF i < k THEN i ELSE i + 1
      <4>2. a \in 1 .. Len(s) /\ a # k /\ x = s[a]
        BY <2>1, <2>2, <2>6, <4>1
      <4>3. s[a] # s[k]
        BY <2>2, <4>2 DEF Once
      <4> QED  BY <2>1, <2>2, <4>2, <4>3 DEF ToSet
    <3>3. ASSUME NEW x \in ToSet(s), x # d
          PROVE  x \in ToSet(t)
      <4>1. PICK i \in 1 .. Len(s) : x = s[i]
        BY <2>1 DEF ToSet
      <4> DEFINE a == IF i < k THEN i ELSE i - 1
      <4>2. i # k
        BY <2>2, <3>3, <4>1
      <4>3. a \in 1 .. Len(s) - 1 /\ t[a] = x
        BY <2>1, <2>2, <2>6, <4>1, <4>2
      <4> QED  BY <3>1, <4>3 DEF ToSet
    <3> QED  BY <3>2, <3>3
  <2> QED  BY <2>3, <2>6, <2>7, <2>8
<1> QED  BY <1>1, <1>2

\* What is written last is last in the list, once.
LEMMA WithLast ==
    ASSUME NEW s \in Seq(Digest), Once(s), NEW d \in Digest, d \notin ToSet(s)
    PROVE  /\ Append(s, d) \in Seq(Digest)
           /\ Once(Append(s, d))
           /\ ToSet(Append(s, d)) = ToSet(s) \cup {d}
           /\ Len(Append(s, d)) \in Nat \ {0}
           /\ Append(s, d)[Len(Append(s, d))] = d
<1> DEFINE t == Append(s, d)
           n == Len(s)
<1>1. /\ n \in Nat /\ DOMAIN s = 1 .. n
  BY LenProperties
<1>2. /\ t \in Seq(Digest) /\ Len(t) = n + 1
      /\ \A i \in 1 .. n : t[i] = s[i]
      /\ t[n + 1] = d
  BY AppendProperties
<1>3. DOMAIN t = 1 .. n + 1
  BY <1>2, LenProperties
<1> HIDE DEF t
<1>4. \A i \in 1 .. n : t[i] # d
  BY <1>1, <1>2 DEF ToSet
<1> HIDE DEF n
<1>5. Once(t)
  <2> SUFFICES ASSUME NEW i \in 1 .. n + 1, NEW j \in 1 .. n + 1, t[i] = t[j]
               PROVE  i = j
    BY <1>2 DEF Once
  <2>1. CASE i \in 1 .. n /\ j \in 1 .. n
    BY <1>2, <2>1 DEF Once, n
  <2>2. CASE i = n + 1 /\ j = n + 1
    BY <2>2
  <2>3. CASE i = n + 1 /\ j \in 1 .. n
    BY <1>2, <1>4, <2>3
  <2>4. CASE i \in 1 .. n /\ j = n + 1
    BY <1>2, <1>4, <2>4
  <2> QED  BY <1>1, <2>1, <2>2, <2>3, <2>4
<1>6. ToSet(t) = ToSet(s) \cup {d}
  <2>1. ASSUME NEW x \in ToSet(t) PROVE x \in ToSet(s) \cup {d}
    <3>1. PICK i \in 1 .. n + 1 : x = t[i]
      BY <1>3 DEF ToSet
    <3>2. CASE i \in 1 .. n
      BY <1>1, <1>2, <3>1, <3>2 DEF ToSet
    <3>3. CASE i = n + 1
      BY <1>2, <3>1, <3>3
    <3> QED  BY <1>1, <3>2, <3>3
  <2>2. ASSUME NEW x \in ToSet(s) PROVE x \in ToSet(t)
    <3>1. PICK i \in 1 .. n : x = s[i]
      BY <1>1 DEF ToSet
    <3>2. i \in 1 .. n + 1 /\ t[i] = x
      BY <1>1, <1>2, <3>1
    <3> QED  BY <1>3, <3>2 DEF ToSet
  <2>3. d \in ToSet(t)
    <3>1. n + 1 \in 1 .. n + 1
      BY <1>1
    <3> QED  BY <1>2, <1>3, <3>1 DEF ToSet
  <2> QED  BY <2>1, <2>2, <2>3
<1> QED  BY <1>1, <1>2, <1>5, <1>6 DEF t

\* A listing spares at most MaxEntries entries, the one written last among them.
LEMMA BeyondSpares ==
    ASSUME NEW s \in Seq(Digest), Once(s)
    PROVE  /\ Beyond(s) \in SUBSET ToSet(s)
           /\ IsFiniteSet(ToSet(s))
           /\ Cardinality(ToSet(s) \ Beyond(s)) <= MaxEntries
           /\ Len(s) > 0 => s[Len(s)] \notin Beyond(s)
<1> DEFINE n == Len(s)
           m == n - MaxEntries
           u == SubSeq(s, 1, m)
<1>1. n \in Nat /\ DOMAIN s = 1 .. n /\ MaxEntries \in Nat \ {0} /\ m \in Int
  BY LenProperties, CacheAssumption
<1>2. IsFiniteSet(ToSet(s))
  <2>1. s \in Surjection(1 .. n, ToSet(s))
    BY <1>1, LenProperties DEF ToSet, Surjection
  <2> HIDE DEF n
  <2>2. IsFiniteSet(1 .. n)
    BY <1>1, FS_Interval
  <2> QED  BY <2>1, <2>2, FS_Surjection
<1>3. ASSUME NEW x \in Beyond(s)
      PROVE  \E i \in 1 .. m : x = s[i]
  <2>1. \A i \in 1 .. m : s[i] \in Digest
    <3>1. \A i \in 1 .. m : i \in 1 .. n
      BY <1>1
    <3> QED  BY <3>1, ElementOfSeq
  <2>2. /\ u \in Seq(Digest)
        /\ Len(u) = IF 1 <= m THEN m - 1 + 1 ELSE 0
        /\ \A i \in 1 .. m - 1 + 1 : u[i] = s[1 + i - 1]
    <3> HIDE DEF m
    <3> QED  BY <1>1, <2>1, SubSeqProperties
  <2>3. DOMAIN u = 1 .. Len(u)
    BY <2>2, LenProperties
  <2> HIDE DEF u, m
  <2>4. PICK i \in 1 .. Len(u) : x = u[i]
    BY <2>3 DEF Beyond, ToSet, u, m
  <2>5. i \in 1 .. m /\ u[i] = s[i]
    BY <1>1, <2>2, <2>4
  <2> QED  BY <2>4, <2>5
<1>4. ASSUME NEW i \in 1 .. m
      PROVE  s[i] \in Beyond(s)
  <2>1. \A j \in 1 .. m : s[j] \in Digest
    <3>1. \A j \in 1 .. m : j \in 1 .. n
      BY <1>1
    <3> QED  BY <3>1, ElementOfSeq
  <2>2. /\ u \in Seq(Digest)
        /\ Len(u) = IF 1 <= m THEN m - 1 + 1 ELSE 0
        /\ \A j \in 1 .. m - 1 + 1 : u[j] = s[1 + j - 1]
    <3> HIDE DEF m
    <3> QED  BY <1>1, <2>1, SubSeqProperties
  <2>3. DOMAIN u = 1 .. Len(u)
    BY <2>2, LenProperties
  <2> HIDE DEF u, m
  <2>4. i \in 1 .. Len(u) /\ u[i] = s[i]
    BY <1>1, <2>2
  <2> QED  BY <2>3, <2>4 DEF Beyond, ToSet, u, m
<1>5. Beyond(s) \in SUBSET ToSet(s)
  BY <1>1, <1>3 DEF ToSet
<1>6. Cardinality(ToSet(s) \ Beyond(s)) <= MaxEntries
  <2> DEFINE a == IF m > 0 THEN m + 1 ELSE 1
             I == {i \in a .. n : s[i] \notin Beyond(s)}
             f == [i \in I |-> s[i]]
             K == ToSet(s) \ Beyond(s)
  <2>1. \A x \in K : \E i \in I : x = s[i]
    <3> SUFFICES ASSUME NEW x \in K PROVE \E i \in I : x = s[i]
      OBVIOUS
    <3>1. PICK i \in 1 .. n : x = s[i]
      BY <1>1 DEF ToSet
    <3>2. i \notin 1 .. m
      BY <1>4, <3>1
    <3>3. i \in a .. n
      BY <1>1, <3>2
    <3> QED  BY <3>1, <3>3
  <2>2. \A i \in I : s[i] \in K
    <3> SUFFICES ASSUME NEW i \in I PROVE s[i] \in K
      OBVIOUS
    <3>1. i \in 1 .. n
      BY <1>1
    <3> QED  BY <1>1, <3>1 DEF ToSet
  <2>3. f \in Surjection(I, K)
    BY <2>1, <2>2 DEF Surjection
  <2>4. /\ IsFiniteSet(a .. n) /\ Cardinality(a .. n) <= MaxEntries
        /\ Cardinality(a .. n) \in Nat
    <3>1. a \in Int /\ n \in Int
      BY <1>1
    <3>2. (IF a > n THEN 0 ELSE n - a + 1) \in 0 .. MaxEntries
      BY <1>1
    <3> HIDE DEF a, n, m
    <3>3. IsFiniteSet(a .. n) /\ Cardinality(a .. n) = IF a > n THEN 0 ELSE n - a + 1
      BY <3>1, FS_Interval
    <3> QED  BY <1>1, <3>2, <3>3
  <2>5. I \in SUBSET (a .. n)
    OBVIOUS
  <2> HIDE DEF I, f, K, a, n, m
  <2>6. IsFiniteSet(I) /\ Cardinality(I) <= Cardinality(a .. n)
    BY <2>4, <2>5, FS_Subset
  <2>7. IsFiniteSet(K) /\ Cardinality(K) <= Cardinality(I)
    BY <2>3, <2>6, FS_Surjection
  <2>8. Cardinality(I) \in Nat /\ Cardinality(K) \in Nat
    BY <2>6, <2>7, FS_CardinalityType
  <2> QED  BY <1>1, <2>4, <2>6, <2>7, <2>8 DEF K
<1>7. ASSUME n > 0, s[n] \in Beyond(s) PROVE FALSE
  <2>1. PICK i \in 1 .. m : s[n] = s[i]
    BY <1>3, <1>7
  <2>2. i \in 1 .. n /\ i # n /\ n \in 1 .. n
    <3>1. n \in Nat /\ n > 0 /\ MaxEntries \in Nat \ {0} /\ i \in 1 .. n - MaxEntries
      BY <1>1, <1>7, <2>1
    <3> HIDE DEF n
    <3> QED  BY <3>1
  <2>3. \A j, k \in 1 .. n : s[j] = s[k] => j = k
    BY DEF Once
  <2> HIDE DEF n, m
  <2> QED  BY <2>1, <2>2, <2>3
<1> QED  BY <1>2, <1>5, <1>6, <1>7

-----------------------------------------------------------------------------
\* The types that the rest needs.
RestTypes ==
    /\ dir \in BOOLEAN
    /\ edits \in 0..MaxEdits
    /\ clears \in 0..MaxClears
    /\ victims \in [Run -> SUBSET Digest]
    /\ alone \in [Run -> BOOLEAN]

\* A file that a run has open, and that nobody deleted, is there.
OpenIsThere == \A r \in Run : handle[r] = "open" => cache[digest[r]] # None

\* The runs that may have added an entry without having finished to evict.
Counted == {r \in Run : Storing(r) \/ pc[r] = "killed"}

Evicting == {r \in Run : pc[r] = "evict"}

\* What some runs are still about to delete.
Doomed(Q) == UNION {victims[q] : q \in Q}

\* Bounded, without what any of the evicting runs are about to delete: when they
\* are through, they no longer count, and what they listed is gone.
Room ==
    /\ IsFiniteSet(Counted)
    /\ \A Q \in SUBSET Evicting :
          Cardinality(Present \ Doomed(Q)) <= MaxEntries + Cardinality(Counted \ Q)

\* A run that is alone finds the directory it made, writes over nobody, and
\* leaves its entry last in the list that it evicts from.
AloneOK(r) ==
    alone[r] =>
        /\ \A q \in Run \ {r} : ~Active(q)
        /\ pc[r] = "open" => dir
        /\ pc[r] = "write" => handle[r] = "open" /\ cache[digest[r]] = Torn
        /\ pc[r] = "list" => /\ Hit(r)
                             /\ Len(order) > 0
                             /\ order[Len(order)] = digest[r]
        /\ pc[r] = "evict" => Hit(r) /\ digest[r] \notin victims[r]
        /\ pc[r] = "done" /\ report[r] # None => Hit(r)

FullInv ==
    /\ CacheInv
    /\ RestTypes
    /\ Listed
    /\ OpenIsThere
    /\ Room
    /\ \A r \in Run : AloneOK(r)

-----------------------------------------------------------------------------
\* Writing a file lists it last.
LEMMA WriteLists ==
    ASSUME Listed, Types, NEW d \in Digest, NEW e, e # None,
           cache' = [cache EXCEPT ![d] = e],
           order' = Append(Without(order, d), d)
    PROVE  /\ Listed'
           /\ Present' = Present \cup {d}
           /\ Len(order') > 0
           /\ order'[Len(order')] = d
<1> DEFINE s == Without(order, d)
<1>1. s \in Seq(Digest) /\ Once(s) /\ ToSet(s) = Present \ {d}
  BY WithoutOne DEF Listed
<1> HIDE DEF s
<1>2. /\ order' \in Seq(Digest) /\ Once(order')
      /\ ToSet(order') = ToSet(s) \cup {d}
      /\ Len(order') \in Nat \ {0}
      /\ order'[Len(order')] = d
  <2>1. d \notin ToSet(s) /\ order' = Append(s, d)
    BY <1>1 DEF s
  <2> QED  BY <1>1, <2>1, WithLast
<1>3. Present' = Present \cup {d}
  BY DEF Present, Types
<1>4. ToSet(order') = Present'
  BY <1>1, <1>2, <1>3
<1>5. ToSet(order)' = ToSet(order') /\ Once(order)' = Once(order')
  BY DEF ToSet, Once
<1> QED  BY <1>2, <1>3, <1>4, <1>5 DEF Listed

\* Deleting one takes it off the list.
LEMMA DeleteLists ==
    ASSUME Listed, Types, NEW d \in Digest,
           cache' = [cache EXCEPT ![d] = None],
           order' = Without(order, d)
    PROVE  Listed' /\ Present' = Present \ {d}
<1>1. order' \in Seq(Digest) /\ Once(order') /\ ToSet(order') = Present \ {d}
  BY WithoutOne DEF Listed
<1>2. Present' = Present \ {d}
  BY DEF Present, Types
<1>3. ToSet(order)' = ToSet(order') /\ Once(order)' = Once(order')
  BY DEF ToSet, Once
<1> QED  BY <1>1, <1>2, <1>3 DEF Listed

LEMMA SameLists ==
    ASSUME Listed, UNCHANGED <<cache, order>>
    PROVE  Listed' /\ Present' = Present
<1>1. Present' = Present
  BY DEF Present
<1> QED  BY <1>1 DEF Listed, Once, ToSet

\* Nothing changes there but what the runs hold.
LEMMA NoneLists ==
    ASSUME cache' = [d \in Digest |-> None], order' = <<>>
    PROVE  Listed' /\ Present' = {}
<1>1. Present' = {}
  BY DEF Present
<1>2. <<>> \in Seq(Digest) /\ Len(<<>>) = 0
  BY EmptySeq
<1>3. ToSet(order') = {}
  <2>1. DOMAIN order' = 1 .. 0
    BY <1>2, LenProperties
  <2>2. 1 .. 0 = {}
    OBVIOUS
  <2> QED  BY <2>1, <2>2 DEF ToSet
<1>4. Once(order')
  BY <1>2 DEF Once
<1>5. ToSet(order)' = ToSet(order') /\ Once(order)' = Once(order')
  BY DEF ToSet, Once
<1> QED  BY <1>1, <1>2, <1>3, <1>4, <1>5 DEF Listed

LEMMA PresentFinite ==
    ASSUME Listed
    PROVE  IsFiniteSet(Present)
BY BeyondSpares DEF Listed

\* Of sets that grow by at most one element each.
LEMMA Smaller ==
    ASSUME NEW A, NEW B, IsFiniteSet(B), A \subseteq B
    PROVE  /\ IsFiniteSet(A) /\ Cardinality(A) \in Nat /\ Cardinality(B) \in Nat
           /\ Cardinality(A) <= Cardinality(B)
BY FS_Subset, FS_CardinalityType

\* Room is kept by what adds no entry but dooms none, and uncounts no run.
LEMMA RoomKept ==
    ASSUME Room, Listed, Evicting' \subseteq Evicting,
           Counted \subseteq Counted', IsFiniteSet(Counted'),
           Present' \subseteq Present,
           \A q \in Evicting' : (victims[q] \ victims'[q]) \cap Present' = {}
    PROVE  Room'
<1> SUFFICES ASSUME NEW Q \in SUBSET (Evicting')
             PROVE  Cardinality(Present' \ Doomed(Q)') <= MaxEntries + Cardinality(Counted' \ Q)
  BY DEF Room
<1>1. Present' \ Doomed(Q)' \subseteq Present \ Doomed(Q)
  <2> SUFFICES ASSUME NEW x \in Present', x \notin Doomed(Q)', x \in Doomed(Q)
               PROVE  FALSE
    OBVIOUS
  <2>1. PICK q \in Q : x \in victims[q]
    BY DEF Doomed
  <2>2. x \notin victims'[q]
    BY DEF Doomed
  <2> QED  BY <2>1, <2>2
<1>2. Cardinality(Present \ Doomed(Q)) <= MaxEntries + Cardinality(Counted \ Q)
  BY DEF Room
<1>3. /\ Cardinality(Present' \ Doomed(Q)') \in Nat
      /\ Cardinality(Present \ Doomed(Q)) \in Nat
      /\ Cardinality(Present' \ Doomed(Q)') <= Cardinality(Present \ Doomed(Q))
  <2>1. IsFiniteSet(Present \ Doomed(Q))
    BY PresentFinite, FS_Difference
  <2> QED  BY <1>1, <2>1, Smaller
<1>4. /\ Cardinality(Counted' \ Q) \in Nat
      /\ Cardinality(Counted \ Q) \in Nat
      /\ Cardinality(Counted \ Q) <= Cardinality(Counted' \ Q)
  <2>1. IsFiniteSet(Counted' \ Q)
    BY FS_Difference
  <2>2. Counted \ Q \subseteq Counted' \ Q
    OBVIOUS
  <2> QED  BY <2>1, <2>2, Smaller
<1> QED  BY <1>2, <1>3, <1>4, CacheAssumption

\* While a run is at work, no other is alone.
LEMMA OthersNotAlone ==
    ASSUME \A q \in Run : AloneOK(q), NEW r \in Run, Active(r), UNCHANGED alone
    PROVE  \A q \in Run \ {r} : AloneOK(q)'
<1> SUFFICES ASSUME NEW q \in Run \ {r} PROVE AloneOK(q)'
  OBVIOUS
<1>1. ~alone[q]
  BY DEF AloneOK
<1> QED  BY <1>1 DEF AloneOK

\* A run that moves on counts, or no longer does.
LEMMA Moves ==
    ASSUME Types, NEW r \in Run, NEW l, pc' = [pc EXCEPT ![r] = l]
    PROVE  /\ Counted' = IF l \in {"write", "list", "evict", "killed"}
                         THEN Counted \cup {r} ELSE Counted \ {r}
           /\ Evicting' = IF l = "evict" THEN Evicting \cup {r} ELSE Evicting \ {r}
           /\ pc'[r] = l
           /\ \A q \in Run \ {r} : pc'[q] = pc[q] /\ (Active(q)' <=> Active(q))
<1>1. pc'[r] = l /\ \A q \in Run \ {r} : pc'[q] = pc[q]
  BY DEF Types
<1>2. Counted' = IF l \in {"write", "list", "evict", "killed"}
                 THEN Counted \cup {r} ELSE Counted \ {r}
  BY <1>1 DEF Counted, Storing
<1>3. Evicting' = IF l = "evict" THEN Evicting \cup {r} ELSE Evicting \ {r}
  BY <1>1 DEF Evicting
<1> QED  BY <1>1, <1>2, <1>3 DEF Active

\* The steps before a run stores.
LEMMA PrepareStep ==
    ASSUME FullInv, CacheInv', NEW r \in Run,
           pc[r] \in {"merge", "read", "key", "load", "store"},
           NEW l \in {"read", "key", "load", "store", "open", "done"},
           pc' = [pc EXCEPT ![r] = l],
           UNCHANGED <<cache, order, edits, clears, victims, alone, handle>>,
           dir' \in BOOLEAN, l = "open" => dir',
           \A q \in Run : handle[q] = "open" => digest'[q] = digest[q],
           l = "done" /\ report'[r] # None => Hit(r)'
    PROVE  FullInv'
<1>1. RestTypes'
  BY DEF FullInv, RestTypes
<1>2. Listed' /\ Present' = Present
  BY SameLists DEF FullInv
<1>3. OpenIsThere'
  BY DEF FullInv, OpenIsThere
<1>4. /\ Counted' = Counted \ {r} /\ Evicting' = Evicting \ {r} /\ pc'[r] = l
      /\ \A q \in Run \ {r} : pc'[q] = pc[q] /\ (Active(q)' <=> Active(q))
  BY Moves DEF FullInv, CacheInv
<1>5. r \notin Counted
  BY DEF Counted, Storing
<1>6. Room'
  <2>1. Counted' = Counted /\ IsFiniteSet(Counted') /\ Evicting' \subseteq Evicting
    BY <1>4, <1>5 DEF FullInv, Room
  <2> QED  BY <1>2, <2>1, RoomKept DEF FullInv
<1>7. Active(r)
  BY DEF Active
<1>8. AloneOK(r)'
  BY <1>4 DEF FullInv, AloneOK
<1>9. \A q \in Run : AloneOK(q)'
  BY <1>7, <1>8, OthersNotAlone DEF FullInv
<1> QED  BY <1>1, <1>2, <1>3, <1>6, <1>9 DEF FullInv

LEMMA PrepareSteps ==
    ASSUME FullInv, CacheInv', NEW r \in Run,
           MergeBaseline(r) \/ ReadSources(r) \/ Key(r) \/ Load(r) \/ CreateDir(r)
    PROVE  FullInv'
<1> USE DEF own
<1>0. CacheInv /\ RunOK(r) /\ RunOK(r)' /\ Types /\ Types' /\ dir \in BOOLEAN
  BY DEF FullInv, CacheInv, RestTypes
<1>1. CASE MergeBaseline(r)
  <2> DEFINE l == AfterMerge(Merged[config[r]][disk[root[r]].baseline])
  <2>1. /\ pc[r] = "merge" /\ pc' = [pc EXCEPT ![r] = l]
        /\ UNCHANGED <<dir, cache, order, edits, clears, victims, alone, handle, digest, report>>
    BY <1>1 DEF MergeBaseline
  <2>2. l \in {"done", "read"}
    BY DEF AfterMerge
  <2>3. report'[r] = None
    BY <1>0, <2>1 DEF RunOK, Reported, HasKey, HasFiles, MergedIn, Loaded
  <2> HIDE DEF l
  <2> QED  BY <1>0, <2>1, <2>2, <2>3, PrepareStep
<1>2. CASE ReadSources(r)
  <2>1. /\ pc[r] = "read" /\ pc' = [pc EXCEPT ![r] = "key"]
        /\ UNCHANGED <<dir, cache, order, edits, clears, victims, alone, handle, digest>>
    BY <1>2 DEF ReadSources
  <2> QED  BY <1>0, <2>1, PrepareStep
<1>3. CASE Key(r)
  <2>1. /\ pc[r] = "key" /\ pc' = [pc EXCEPT ![r] = "load"]
        /\ UNCHANGED <<dir, cache, order, edits, clears, victims, alone, handle>>
        /\ digest' = [digest EXCEPT ![r] = KeyOf(r, disk[root[r]].baseline)]
    BY <1>3 DEF Key
  <2>2. handle[r] # "open"
    BY <1>0, <2>1 DEF RunOK
  <2>3. \A q \in Run : handle[q] = "open" => digest'[q] = digest[q]
    BY <1>0, <2>1, <2>2 DEF Types
  <2> QED  BY <1>0, <2>1, <2>3, PrepareStep
<1>4. CASE Load(r)
  <2>1. /\ pc[r] = "load"
        /\ UNCHANGED <<dir, cache, order, edits, clears, victims, alone, handle, digest,
                       config, project, root>>
        /\ \/ Hit(r) /\ pc' = [pc EXCEPT ![r] = "done"]
           \/ pc' = [pc EXCEPT ![r] = "store"]
    BY <1>4 DEF Load
  <2>2. CASE Hit(r) /\ pc' = [pc EXCEPT ![r] = "done"]
    <3>1. Hit(r)'
      BY <2>1, <2>2 DEF Hit, EchoOf
    <3> QED  BY <1>0, <2>1, <2>2, <3>1, PrepareStep
  <2>3. CASE pc' = [pc EXCEPT ![r] = "store"]
    BY <1>0, <2>1, <2>3, PrepareStep
  <2> QED  BY <2>1, <2>2, <2>3
<1>5. CASE CreateDir(r)
  <2>1. /\ pc[r] = "store" /\ pc' = [pc EXCEPT ![r] = "open"] /\ dir' = TRUE
        /\ UNCHANGED <<cache, order, edits, clears, victims, alone, handle, digest>>
    BY <1>5 DEF CreateDir
  <2> QED  BY <1>0, <2>1, PrepareStep
<1> QED  BY <1>1, <1>2, <1>3, <1>4, <1>5

LEMMA BeginStep ==
    ASSUME FullInv, CacheInv', NEW r \in Run, LoadConfig(r)
    PROVE  FullInv'
<1>1. /\ pc[r] = "idle"
      /\ alone' = [q \in Run |-> q = r /\ \A s \in Run : ~Active(s)]
      /\ pc' = [pc EXCEPT ![r] = "merge"]
      /\ UNCHANGED <<dir, cache, order, edits, clears, victims, handle, digest>>
  BY DEF LoadConfig
<1>2. RestTypes'
  BY <1>1 DEF FullInv, RestTypes
<1>3. Listed' /\ Present' = Present
  BY <1>1, SameLists DEF FullInv
<1>4. OpenIsThere'
  BY <1>1 DEF FullInv, OpenIsThere
<1>5. /\ Counted' = Counted \ {r} /\ Evicting' = Evicting \ {r} /\ pc'[r] = "merge"
      /\ \A q \in Run \ {r} : pc'[q] = pc[q] /\ (Active(q)' <=> Active(q))
  BY <1>1, Moves DEF FullInv, CacheInv
<1>6. Room'
  <2>1. r \notin Counted
    BY <1>1 DEF Counted, Storing
  <2>2. Counted' = Counted /\ IsFiniteSet(Counted') /\ Evicting' \subseteq Evicting
    BY <1>5, <2>1 DEF FullInv, Room
  <2> QED  BY <1>1, <1>3, <2>2, RoomKept DEF FullInv
<1>7. \A q \in Run : AloneOK(q)'
  BY <1>1, <1>5 DEF AloneOK
<1> QED  BY <1>2, <1>3, <1>4, <1>6, <1>7 DEF FullInv

LEMMA EditKeeps ==
    ASSUME FullInv, CacheInv', Edit
    PROVE  FullInv'
<1>1. /\ edits < MaxEdits /\ edits' = edits + 1
      /\ UNCHANGED <<dir, cache, order, clears, pc, root, config, project, digest, report,
                     handle, victims, alone>>
  BY DEF Edit, own
<1>2. RestTypes'
  BY <1>1, CacheAssumption DEF FullInv, RestTypes
<1>3. Listed' /\ Present' = Present
  BY <1>1, SameLists DEF FullInv
<1>4. OpenIsThere'
  BY <1>1 DEF FullInv, OpenIsThere
<1>5. Counted' = Counted /\ Evicting' = Evicting
  BY <1>1 DEF Counted, Storing, Evicting
<1>6. Room'
  <2>1. IsFiniteSet(Counted')
    BY <1>5 DEF FullInv, Room
  <2> QED  BY <1>1, <1>3, <1>5, <2>1, RoomKept DEF FullInv
<1>7. \A q \in Run : AloneOK(q)'
  BY <1>1 DEF FullInv, AloneOK, Active, Hit, EchoOf
<1> QED  BY <1>2, <1>3, <1>4, <1>6, <1>7 DEF FullInv

LEMMA StutterKeeps ==
    ASSUME FullInv, CacheInv', UNCHANGED vars
    PROVE  FullInv'
<1>1. UNCHANGED <<edits, dir, cache, order, clears, pc, root, config, project, digest,
                  report, handle, victims, alone>>
  BY DEF vars, own
<1>2. RestTypes'
  BY <1>1 DEF FullInv, RestTypes
<1>3. Listed' /\ Present' = Present
  BY <1>1, SameLists DEF FullInv
<1>4. OpenIsThere'
  BY <1>1 DEF FullInv, OpenIsThere
<1>5. Counted' = Counted /\ Evicting' = Evicting
  BY <1>1 DEF Counted, Storing, Evicting
<1>6. Room'
  <2>1. IsFiniteSet(Counted')
    BY <1>5 DEF FullInv, Room
  <2> QED  BY <1>1, <1>3, <1>5, <2>1, RoomKept DEF FullInv
<1>7. \A q \in Run : AloneOK(q)'
  BY <1>1 DEF FullInv, AloneOK, Active, Hit, EchoOf
<1> QED  BY <1>2, <1>3, <1>4, <1>6, <1>7 DEF FullInv

LEMMA ClearKeeps ==
    ASSUME FullInv, CacheInv', Clear
    PROVE  FullInv'
<1>1. /\ clears < MaxClears /\ clears' = clears + 1 /\ dir' = FALSE
      /\ cache' = [d \in Digest |-> None] /\ order' = <<>>
      /\ Unlink(Digest)
      /\ alone' = [r \in Run |-> FALSE]
      /\ UNCHANGED <<edits, pc, victims, digest>>
  BY DEF Clear, own
<1>2. RestTypes'
  <2>1. clears' \in 0..MaxClears
    BY <1>1, CacheAssumption DEF FullInv, RestTypes
  <2>2. dir' \in BOOLEAN /\ alone' \in [Run -> BOOLEAN]
    BY <1>1
  <2> QED  BY <1>1, <2>1, <2>2 DEF FullInv, RestTypes
<1>3. Listed' /\ Present' = {}
  BY <1>1, NoneLists
<1>4. OpenIsThere'
  <2> SUFFICES ASSUME NEW r \in Run, handle'[r] = "open" PROVE FALSE
    BY DEF OpenIsThere
  <2>1. handle'[r] = IF digest[r] \in Digest /\ handle[r] = "open"
                     THEN "unlinked" ELSE handle[r]
    BY <1>1 DEF Unlink
  <2>2. handle[r] = "open" => pc[r] \in HasKey /\ RunOK(r)
    BY DEF FullInv, CacheInv, RunOK, HasKey, HasFiles, MergedIn, Loaded
  <2>3. handle[r] = "open" => digest[r] \in Digest
    BY <2>2, DigestTyped DEF FullInv, CacheInv
  <2> QED  BY <2>1, <2>3
<1>5. Counted' = Counted /\ Evicting' = Evicting
  BY <1>1 DEF Counted, Storing, Evicting
<1>6. Room'
  <2>1. IsFiniteSet(Counted')
    BY <1>5 DEF FullInv, Room
  <2> QED  BY <1>1, <1>3, <1>5, <2>1, RoomKept DEF FullInv
<1>7. \A q \in Run : AloneOK(q)'
  BY <1>1 DEF AloneOK
<1> QED  BY <1>2, <1>3, <1>4, <1>6, <1>7 DEF FullInv

-----------------------------------------------------------------------------
\* The steps of a store.
LEMMA OpenKeeps ==
    ASSUME FullInv, CacheInv', NEW r \in Run, Open(r)
    PROVE  FullInv'
<1> DEFINE d == digest[r]
<1>1. /\ pc[r] = "open"
      /\ UNCHANGED <<dir, edits, clears, digest, victims, alone>>
  BY DEF Open, own
<1>2. RestTypes'
  BY <1>1 DEF FullInv, RestTypes
<1>3. d \in Digest
  BY <1>1, DigestTyped DEF FullInv, CacheInv, HasKey, HasFiles, MergedIn, Loaded
<1>4. Active(r) /\ r \notin Counted /\ r \notin Evicting
  BY <1>1 DEF Active, Counted, Storing, Evicting
<1>5. CASE dir
  <2>1. /\ cache' = [cache EXCEPT ![d] = Torn]
        /\ order' = Append(Without(order, d), d)
        /\ handle' = [handle EXCEPT ![r] = "open"]
        /\ pc' = [pc EXCEPT ![r] = "write"]
    BY <1>5 DEF Open
  <2>2. Listed' /\ Present' = Present \cup {d}
    BY <1>3, <2>1, WriteLists, CacheAssumption DEF FullInv, CacheInv
  <2>3. OpenIsThere'
    <3> SUFFICES ASSUME NEW q \in Run, handle'[q] = "open" PROVE cache'[digest[q]] # None
      BY <1>1 DEF OpenIsThere
    <3>1. CASE digest[q] = d
      BY <1>3, <2>1, <3>1, CacheAssumption DEF FullInv, CacheInv, Types
    <3>2. CASE digest[q] # d
      <4>1. q # r /\ handle[q] = "open"
        BY <2>1, <3>2 DEF FullInv, CacheInv, Types
      <4> QED  BY <2>1, <3>2, <4>1 DEF FullInv, CacheInv, Types, OpenIsThere
    <3> QED  BY <3>1, <3>2
  <2>4. /\ Counted' = Counted \cup {r} /\ Evicting' = Evicting \ {r} /\ pc'[r] = "write"
        /\ \A q \in Run \ {r} : pc'[q] = pc[q] /\ (Active(q)' <=> Active(q))
    BY <2>1, Moves DEF FullInv, CacheInv
  <2>5. Room'
    <3>1. IsFiniteSet(Counted) /\ IsFiniteSet(Counted')
      BY <2>4, FS_AddElement DEF FullInv, Room
    <3> SUFFICES ASSUME NEW Q \in SUBSET Evicting
                 PROVE  Cardinality(Present' \ Doomed(Q)) <= MaxEntries + Cardinality(Counted' \ Q)
      BY <1>1, <1>4, <2>4, <3>1 DEF Room, Doomed
    <3> DEFINE A == Present \ Doomed(Q)
               B == Counted \ Q
               C == Present' \ Doomed(Q)
    <3>2. Cardinality(A) <= MaxEntries + Cardinality(B)
      BY DEF FullInv, Room
    <3>3. IsFiniteSet(A) /\ IsFiniteSet(B)
      BY <3>1, PresentFinite, FS_Difference DEF FullInv
    <3>4. C \subseteq A \cup {d} /\ Counted' \ Q = B \cup {r} /\ r \notin B
      BY <1>4, <2>2, <2>4
    <3> HIDE DEF A, B, C, d
    <3>5. /\ IsFiniteSet(A \cup {d}) /\ Cardinality(A \cup {d}) <= Cardinality(A) + 1
          /\ Cardinality(B \cup {r}) = Cardinality(B) + 1
          /\ Cardinality(A) \in Nat /\ Cardinality(B) \in Nat
      <4>1. /\ IsFiniteSet(A \cup {d})
            /\ Cardinality(A \cup {d}) = IF d \in A THEN Cardinality(A) ELSE Cardinality(A) + 1
        BY <3>3, FS_AddElement
      <4>2. Cardinality(B \cup {r}) = IF r \in B THEN Cardinality(B) ELSE Cardinality(B) + 1
        BY <3>3, FS_AddElement
      <4>3. Cardinality(A) \in Nat /\ Cardinality(B) \in Nat
        BY <3>3, FS_CardinalityType
      <4> QED  BY <3>4, <4>1, <4>2, <4>3
    <3>6. /\ Cardinality(C) \in Nat
          /\ Cardinality(A \cup {d}) \in Nat
          /\ Cardinality(C) <= Cardinality(A \cup {d})
      BY <3>4, <3>5, Smaller
    <3>7. Cardinality(C) <= MaxEntries + Cardinality(B \cup {r})
      BY <3>2, <3>5, <3>6, CacheAssumption
    <3> QED  BY <3>4, <3>7 DEF C
  <2>6. AloneOK(r)'
    <3>1. handle'[r] = "open" /\ cache'[digest'[r]] = Torn
      BY <1>1, <1>3, <2>1 DEF FullInv, CacheInv, Types
    <3> QED  BY <1>1, <2>4, <3>1 DEF FullInv, AloneOK
  <2>7. \A q \in Run : AloneOK(q)'
    BY <1>1, <1>4, <2>6, OthersNotAlone DEF FullInv
  <2> QED  BY <1>2, <2>2, <2>3, <2>5, <2>7 DEF FullInv
<1>6. CASE ~dir
  <2>1. pc' = [pc EXCEPT ![r] = "list"] /\ UNCHANGED <<cache, order, handle>>
    BY <1>6 DEF Open
  <2>2. Listed' /\ Present' = Present
    BY <2>1, SameLists DEF FullInv
  <2>3. OpenIsThere'
    BY <1>1, <2>1 DEF FullInv, OpenIsThere
  <2>4. /\ Counted' = Counted \cup {r} /\ Evicting' = Evicting \ {r} /\ pc'[r] = "list"
        /\ \A q \in Run \ {r} : pc'[q] = pc[q] /\ (Active(q)' <=> Active(q))
    BY <2>1, Moves DEF FullInv, CacheInv
  <2>5. Room'
    <3>1. IsFiniteSet(Counted')
      BY <2>4, FS_AddElement DEF FullInv, Room
    <3> QED  BY <1>1, <2>2, <2>4, <3>1, RoomKept DEF FullInv
  <2>6. AloneOK(r)'
    <3>1. ~alone[r]
      BY <1>1, <1>6 DEF FullInv, AloneOK
    <3> QED  BY <1>1, <3>1 DEF AloneOK
  <2>7. \A q \in Run : AloneOK(q)'
    BY <1>1, <1>4, <2>6, OthersNotAlone DEF FullInv
  <2> QED  BY <1>2, <2>2, <2>3, <2>5, <2>7 DEF FullInv
<1> QED  BY <1>5, <1>6

LEMMA WriteKeeps ==
    ASSUME FullInv, CacheInv', NEW r \in Run, Write(r)
    PROVE  FullInv'
<1> DEFINE d == digest[r]
           mine == [echo |-> EchoOf(r), report |-> report[r]]
<1>1. /\ pc[r] = "write"
      /\ handle' = [handle EXCEPT ![r] = "closed"]
      /\ pc' = [pc EXCEPT ![r] = "list"]
      /\ UNCHANGED <<dir, edits, clears, config, project, root, digest, victims, alone>>
  BY DEF Write, own
<1>2. RestTypes'
  BY <1>1 DEF FullInv, RestTypes
<1>3. d \in Digest
  BY <1>1, DigestTyped DEF FullInv, CacheInv, HasKey, HasFiles, MergedIn, Loaded
<1>4. Active(r) /\ r \in Counted
  BY <1>1 DEF Active, Counted, Storing
<1>5. mine \in Entry
  <2>1. /\ config[r] \in ConfigText /\ ignore[r] \in Ignore /\ project[r] \in Project
        /\ root[r] \in Root /\ report[r] = Analyzed(r)
    BY <1>1 DEF FullInv, CacheInv, Types, RunOK, Reported, HasKey, HasFiles, MergedIn, Loaded
  <2> QED  BY <2>1, AnalyzedTyped DEF Entry
<1>6. mine # None /\ mine # Torn
  BY <1>5, CacheAssumption
<1>7. \/ handle[r] # "open" /\ UNCHANGED <<cache, order>>
      \/ /\ handle[r] = "open" /\ order' = Append(Without(order, d), d)
         /\ \E e \in {mine, Torn} : /\ e = Torn => cache[d] \notin {Torn, mine}
                                    /\ cache' = [cache EXCEPT ![d] = e]
  BY DEF Write
<1> HIDE DEF mine
<1>8. /\ Listed' /\ Present' = Present
      /\ handle[r] = "open" => Len(order') > 0 /\ order'[Len(order')] = d
  <2>1. CASE handle[r] # "open"
    BY <1>7, <2>1, SameLists DEF FullInv
  <2>2. CASE handle[r] = "open"
    <3>1. d \in Present
      BY <1>3, <2>2 DEF FullInv, OpenIsThere, Present
    <3>2. PICK e \in {mine, Torn} : cache' = [cache EXCEPT ![d] = e]
      BY <1>7, <2>2
    <3>3. e # None
      BY <1>6, CacheAssumption
    <3>4. Types /\ Listed /\ order' = Append(Without(order, d), d)
      BY <1>7, <2>2 DEF FullInv, CacheInv
    <3> HIDE DEF d
    <3>5. /\ Listed' /\ Present' = Present \cup {d}
          /\ Len(order') > 0 /\ order'[Len(order')] = d
      BY <1>3, <3>2, <3>3, <3>4, WriteLists
    <3> QED  BY <3>1, <3>5
  <2> QED  BY <2>1, <2>2
<1>9. OpenIsThere'
  <2> SUFFICES ASSUME NEW q \in Run, handle'[q] = "open" PROVE cache'[digest[q]] # None
    BY <1>1 DEF OpenIsThere
  <2>1. handle[q] = "open" /\ cache[digest[q]] # None
    BY <1>1 DEF FullInv, CacheInv, Types, OpenIsThere
  <2>2. \A e \in {mine, Torn} : e # None
    BY <1>6, CacheAssumption
  <2>3. CASE UNCHANGED cache
    BY <2>1, <2>3
  <2>4. ASSUME NEW e \in {mine, Torn}, cache' = [cache EXCEPT ![d] = e]
        PROVE  cache'[digest[q]] # None
    BY <1>3, <2>1, <2>2, <2>4 DEF FullInv, CacheInv, Types
  <2> QED  BY <1>7, <2>3, <2>4
<1>10. /\ Counted' = Counted \cup {r} /\ Evicting' = Evicting \ {r} /\ pc'[r] = "list"
       /\ \A q \in Run \ {r} : pc'[q] = pc[q] /\ (Active(q)' <=> Active(q))
  BY <1>1, Moves DEF FullInv, CacheInv
<1>11. Room'
  <2>1. IsFiniteSet(Counted')
    BY <1>10, FS_AddElement DEF FullInv, Room
  <2> QED  BY <1>1, <1>8, <1>10, <2>1, RoomKept DEF FullInv
<1>12. AloneOK(r)'
  <2> SUFFICES ASSUME alone[r] PROVE AloneOK(r)'
    BY <1>1 DEF AloneOK
  <2>1. handle[r] = "open" /\ cache[d] = Torn
    BY <1>1 DEF FullInv, AloneOK
  <2>2. cache' = [cache EXCEPT ![d] = mine]
    BY <1>7, <2>1
  <2>3. cache'[d] = mine
    BY <1>3, <2>2 DEF FullInv, CacheInv, Types
  <2>4. Hit(r)'
    <3>1. EchoOf(r)' = EchoOf(r) /\ mine.echo = EchoOf(r)
      BY <1>1 DEF EchoOf, mine
    <3> QED  BY <1>1, <1>6, <2>3, <3>1 DEF Hit
  <2>5. Len(order') > 0 /\ order'[Len(order')] = digest'[r]
    BY <1>1, <1>8, <2>1
  <2> QED  BY <1>1, <1>10, <2>4, <2>5 DEF FullInv, AloneOK
<1>13. \A q \in Run : AloneOK(q)'
  BY <1>1, <1>4, <1>12, OthersNotAlone DEF FullInv
<1> QED  BY <1>2, <1>8, <1>9, <1>11, <1>13 DEF FullInv

LEMMA ListKeeps ==
    ASSUME FullInv, CacheInv', NEW r \in Run, List(r)
    PROVE  FullInv'
<1>1. /\ pc[r] = "list"
      /\ victims' = [victims EXCEPT ![r] = Beyond(order)]
      /\ pc' = [pc EXCEPT ![r] = "evict"]
      /\ UNCHANGED <<dir, cache, order, edits, clears, config, project, root, digest,
                     handle, alone>>
  BY DEF List, own
<1>2. /\ Beyond(order) \in SUBSET Present
      /\ Cardinality(Present \ Beyond(order)) <= MaxEntries
      /\ Len(order) > 0 => order[Len(order)] \notin Beyond(order)
  BY BeyondSpares DEF FullInv, Listed
<1>3. RestTypes'
  <2>1. Beyond(order) \in SUBSET Digest
    BY <1>2 DEF Present
  <2> QED  BY <1>1, <2>1 DEF FullInv, RestTypes
<1>4. Listed' /\ Present' = Present
  BY <1>1, SameLists DEF FullInv
<1>5. OpenIsThere'
  BY <1>1 DEF FullInv, OpenIsThere
<1>6. Active(r) /\ r \in Counted
  BY <1>1 DEF Active, Counted, Storing
<1>7. /\ Counted' = Counted \cup {r} /\ Evicting' = Evicting \cup {r} /\ pc'[r] = "evict"
      /\ \A q \in Run \ {r} : pc'[q] = pc[q] /\ (Active(q)' <=> Active(q))
  BY <1>1, Moves DEF FullInv, CacheInv
<1>8. Room'
  <2>1. IsFiniteSet(Counted) /\ Counted' = Counted
    BY <1>6, <1>7 DEF FullInv, Room
  <2> SUFFICES ASSUME NEW Q \in SUBSET (Evicting \cup {r})
               PROVE  Cardinality(Present \ Doomed(Q)') <= MaxEntries + Cardinality(Counted \ Q)
    BY <1>4, <1>7, <2>1 DEF Room
  <2>2. CASE r \in Q
    <3>1. Beyond(order) \subseteq Doomed(Q)'
      <4>1. victims'[r] = Beyond(order)
        BY <1>1 DEF FullInv, RestTypes
      <4> QED  BY <2>2, <4>1 DEF Doomed
    <3>2. Present \ Doomed(Q)' \subseteq Present \ Beyond(order) /\ IsFiniteSet(Present \ Beyond(order))
      BY <3>1, PresentFinite, FS_Difference DEF FullInv
    <3>3. /\ Cardinality(Present \ Doomed(Q)') \in Nat
          /\ Cardinality(Present \ Beyond(order)) \in Nat
          /\ Cardinality(Present \ Doomed(Q)') <= Cardinality(Present \ Beyond(order))
      BY <3>2, Smaller
    <3>4. Cardinality(Counted \ Q) \in Nat
      BY <2>1, FS_Difference, FS_CardinalityType
    <3> QED  BY <1>2, <3>3, <3>4, CacheAssumption
  <2>3. CASE r \notin Q
    <3>1. Doomed(Q)' = Doomed(Q)
      <4>1. \A q \in Q : victims'[q] = victims[q]
        BY <1>1, <2>3 DEF FullInv, RestTypes, Evicting
      <4> QED  BY <4>1 DEF Doomed
    <3>2. Q \in SUBSET Evicting
      BY <2>3
    <3> QED  BY <3>1, <3>2 DEF FullInv, Room
  <2> QED  BY <2>2, <2>3
<1>9. AloneOK(r)'
  <2> SUFFICES ASSUME alone[r] PROVE AloneOK(r)'
    BY <1>1 DEF AloneOK
  <2>1. Hit(r) /\ Len(order) > 0 /\ order[Len(order)] = digest[r]
    BY <1>1 DEF FullInv, AloneOK
  <2>2. Hit(r)'
    BY <1>1, <2>1 DEF Hit, EchoOf
  <2>3. digest'[r] \notin victims'[r]
    BY <1>1, <1>2, <2>1 DEF FullInv, RestTypes
  <2> QED  BY <1>1, <1>7, <2>2, <2>3 DEF FullInv, AloneOK
<1>10. \A q \in Run : AloneOK(q)'
  BY <1>1, <1>6, <1>9, OthersNotAlone DEF FullInv
<1> QED  BY <1>3, <1>4, <1>5, <1>8, <1>10 DEF FullInv

LEMMA EvictKeeps ==
    ASSUME FullInv, CacheInv', NEW r \in Run, Evict(r)
    PROVE  FullInv'
<1>1. /\ pc[r] = "evict"
      /\ UNCHANGED <<dir, edits, clears, config, project, root, digest, report, alone>>
  BY DEF Evict, own
<1>2. Active(r) /\ r \in Evicting /\ r \in Counted
  BY <1>1 DEF Active, Evicting, Counted, Storing
<1>3. ASSUME NEW d \in victims[r],
             victims' = [victims EXCEPT ![r] = victims[r] \ {d}],
             cache' = [cache EXCEPT ![d] = None],
             order' = Without(order, d),
             Unlink({d}), UNCHANGED pc
      PROVE  FullInv'
  <2>1. d \in Digest /\ victims'[r] = victims[r] \ {d}
    BY <1>3 DEF FullInv, RestTypes
  <2>2. RestTypes'
    BY <1>1, <1>3 DEF FullInv, RestTypes
  <2>3. Listed' /\ Present' = Present \ {d}
    BY <1>3, <2>1, DeleteLists DEF FullInv, CacheInv
  <2>4. OpenIsThere'
    <3> SUFFICES ASSUME NEW q \in Run, handle'[q] = "open" PROVE cache'[digest[q]] # None
      BY <1>1 DEF OpenIsThere
    <3>1. handle[q] = "open" /\ digest[q] # d
      BY <1>3 DEF Unlink
    <3>2. digest[q] \in Digest
      <4>1. pc[q] \in HasKey /\ RunOK(q)
        BY <3>1 DEF FullInv, CacheInv, RunOK, HasKey, HasFiles, MergedIn, Loaded
      <4> QED  BY <4>1, DigestTyped DEF FullInv, CacheInv
    <3>3. cache'[digest[q]] = cache[digest[q]]
      BY <1>3, <3>1, <3>2 DEF FullInv, CacheInv, Types
    <3> QED  BY <3>1, <3>3 DEF FullInv, OpenIsThere
  <2>5. Counted' = Counted /\ Evicting' = Evicting
    BY <1>3 DEF Counted, Storing, Evicting
  <2>6. Room'
    <3>1. IsFiniteSet(Counted')
      BY <2>5 DEF FullInv, Room
    <3>2. \A q \in Evicting' : (victims[q] \ victims'[q]) \cap Present' = {}
      BY <1>3, <2>1, <2>3, <2>5 DEF FullInv, RestTypes, Evicting
    <3> QED  BY <2>3, <2>5, <3>1, <3>2, RoomKept DEF FullInv
  <2>7. AloneOK(r)'
    <3> SUFFICES ASSUME alone[r] PROVE AloneOK(r)'
      BY <1>1 DEF AloneOK
    <3>1. Hit(r) /\ digest[r] \notin victims[r]
      BY <1>1 DEF FullInv, AloneOK
    <3>2. digest[r] \in Digest /\ digest[r] # d
      BY <1>1, <1>3, <3>1, DigestTyped DEF FullInv, CacheInv, HasKey, HasFiles, MergedIn, Loaded
    <3>3. cache'[digest[r]] = cache[digest[r]]
      BY <1>3, <3>2 DEF FullInv, CacheInv, Types
    <3>4. Hit(r)'
      BY <1>1, <3>1, <3>3 DEF Hit, EchoOf
    <3> QED  BY <1>1, <1>3, <2>1, <3>1, <3>4 DEF FullInv, AloneOK, Active
  <2>8. \A q \in Run : AloneOK(q)'
    BY <1>1, <1>2, <2>7, OthersNotAlone DEF FullInv
  <2> QED  BY <2>2, <2>3, <2>4, <2>6, <2>8 DEF FullInv
<1>4. ASSUME victims[r] = {}, pc' = [pc EXCEPT ![r] = "done"],
             UNCHANGED <<victims, cache, order, handle>>
      PROVE  FullInv'
  <2>1. RestTypes'
    BY <1>1, <1>4 DEF FullInv, RestTypes
  <2>2. Listed' /\ Present' = Present
    BY <1>4, SameLists DEF FullInv
  <2>3. OpenIsThere'
    BY <1>1, <1>4 DEF FullInv, OpenIsThere
  <2>4. /\ Counted' = Counted \ {r} /\ Evicting' = Evicting \ {r} /\ pc'[r] = "done"
        /\ \A q \in Run \ {r} : pc'[q] = pc[q] /\ (Active(q)' <=> Active(q))
    BY <1>4, Moves DEF FullInv, CacheInv
  <2>5. Room'
    <3>1. IsFiniteSet(Counted')
      BY <2>4, FS_RemoveElement DEF FullInv, Room
    <3> SUFFICES ASSUME NEW Q \in SUBSET (Evicting \ {r})
                 PROVE  Cardinality(Present \ Doomed(Q)) <= MaxEntries + Cardinality((Counted \ {r}) \ Q)
      BY <1>4, <2>2, <2>4, <3>1 DEF Room, Doomed
    <3>2. Doomed(Q \cup {r}) = Doomed(Q)
      BY <1>4 DEF Doomed
    <3>3. Q \cup {r} \in SUBSET Evicting /\ (Counted \ {r}) \ Q = Counted \ (Q \cup {r})
      BY <1>2
    <3>4. Cardinality(Present \ Doomed(Q \cup {r}))
            <= MaxEntries + Cardinality(Counted \ (Q \cup {r}))
      BY <3>3 DEF FullInv, Room
    <3> QED  BY <3>2, <3>3, <3>4
  <2>6. AloneOK(r)'
    <3> SUFFICES ASSUME alone[r] PROVE AloneOK(r)'
      BY <1>1 DEF AloneOK
    <3>1. Hit(r)'
      BY <1>1, <1>4 DEF FullInv, AloneOK, Hit, EchoOf
    <3> QED  BY <1>1, <2>4, <3>1 DEF FullInv, AloneOK
  <2>7. \A q \in Run : AloneOK(q)'
    BY <1>1, <1>2, <2>6, OthersNotAlone DEF FullInv
  <2> QED  BY <2>1, <2>2, <2>3, <2>5, <2>7 DEF FullInv
<1> QED  BY <1>3, <1>4 DEF Evict

LEMMA KillKeeps ==
    ASSUME FullInv, CacheInv', NEW r \in Run, Kill(r)
    PROVE  FullInv'
<1>1. /\ Active(r)
      /\ pc' = [pc EXCEPT ![r] = "killed"]
      /\ handle' = [handle EXCEPT ![r] = "closed"]
      /\ victims' = [victims EXCEPT ![r] = {}]
      /\ digest' = [digest EXCEPT ![r] = None]
      /\ UNCHANGED <<dir, edits, clears, alone>>
  BY DEF Kill
<1>2. RestTypes'
  BY <1>1 DEF FullInv, RestTypes
<1>3. \/ UNCHANGED <<cache, order>>
      \/ /\ handle[r] = "open" /\ digest[r] \in Digest
         /\ cache' = [cache EXCEPT ![digest[r]] = Torn]
         /\ order' = Append(Without(order, digest[r]), digest[r])
  <2>1. handle[r] = "open" => pc[r] \in HasKey /\ RunOK(r)
    BY DEF FullInv, CacheInv, RunOK, HasKey, HasFiles, MergedIn, Loaded
  <2> QED  BY <2>1, DigestTyped DEF Kill, FullInv, CacheInv
<1>4. Listed' /\ Present' = Present
  <2>1. CASE UNCHANGED <<cache, order>>
    BY <2>1, SameLists DEF FullInv
  <2>2. ASSUME handle[r] = "open", digest[r] \in Digest,
               cache' = [cache EXCEPT ![digest[r]] = Torn],
               order' = Append(Without(order, digest[r]), digest[r])
        PROVE  Listed' /\ Present' = Present
    <3>1. digest[r] \in Present
      BY <2>2 DEF FullInv, OpenIsThere, Present
    <3>2. Listed' /\ Present' = Present \cup {digest[r]}
      BY <2>2, WriteLists, CacheAssumption DEF FullInv, CacheInv
    <3> QED  BY <3>1, <3>2
  <2> QED  BY <1>3, <2>1, <2>2
<1>5. OpenIsThere'
  <2> SUFFICES ASSUME NEW q \in Run, handle'[q] = "open" PROVE cache'[digest'[q]] # None
    BY DEF OpenIsThere
  <2>1. q # r /\ handle[q] = "open" /\ digest'[q] = digest[q]
    BY <1>1 DEF FullInv, CacheInv, Types
  <2>2. cache[digest[q]] # None
    BY <2>1 DEF FullInv, OpenIsThere
  <2>3. CASE UNCHANGED <<cache, order>>
    BY <2>1, <2>2, <2>3
  <2>4. ASSUME digest[r] \in Digest, cache' = [cache EXCEPT ![digest[r]] = Torn]
        PROVE  cache'[digest'[q]] # None
    BY <2>1, <2>2, <2>4, CacheAssumption DEF FullInv, CacheInv, Types
  <2> QED  BY <1>3, <2>3, <2>4
<1>6. /\ Counted' = Counted \cup {r} /\ Evicting' = Evicting \ {r} /\ pc'[r] = "killed"
      /\ \A q \in Run \ {r} : pc'[q] = pc[q] /\ (Active(q)' <=> Active(q))
  BY <1>1, Moves DEF FullInv, CacheInv
<1>7. Room'
  <2>1. IsFiniteSet(Counted')
    BY <1>6, FS_AddElement DEF FullInv, Room
  <2>2. \A q \in Evicting' : (victims[q] \ victims'[q]) \cap Present' = {}
    BY <1>1, <1>6 DEF FullInv, RestTypes, Evicting
  <2> QED  BY <1>4, <1>6, <2>1, <2>2, RoomKept DEF FullInv
<1>8. AloneOK(r)'
  BY <1>1, <1>6 DEF FullInv, AloneOK
<1>9. \A q \in Run : AloneOK(q)'
  BY <1>1, <1>8, OthersNotAlone DEF FullInv
<1> QED  BY <1>2, <1>4, <1>5, <1>7, <1>9 DEF FullInv

-----------------------------------------------------------------------------
LEMMA InitFull == Init => FullInv
<1> SUFFICES ASSUME Init PROVE FullInv
  OBVIOUS
<1>1. CacheInv
  BY InitInv
<1>2. RestTypes
  <2>1. MaxEdits \in Nat /\ MaxClears \in Nat
    BY CacheAssumption
  <2>2. 0 \in 0..MaxEdits /\ 0 \in 0..MaxClears
    BY <2>1
  <2> QED  BY <2>2 DEF Init, RestTypes
<1>3. Listed /\ Present = {}
  <2>1. Present = {}
    BY DEF Init, Present
  <2>2. order \in Seq(Digest) /\ Len(order) = 0
    BY EmptySeq DEF Init
  <2>3. DOMAIN order = 1 .. 0 /\ 1 .. 0 = {}
    BY <2>2, LenProperties
  <2> QED  BY <2>1, <2>2, <2>3 DEF Listed, Once, ToSet
<1>4. OpenIsThere /\ \A r \in Run : AloneOK(r)
  BY DEF Init, OpenIsThere, AloneOK
<1>5. Counted = {}
  BY DEF Init, Counted, Storing
<1>6. Room
  <2>1. IsFiniteSet(Counted)
    BY <1>5, FS_EmptySet
  <2> SUFFICES ASSUME NEW Q \in SUBSET Evicting
               PROVE  Cardinality(Present \ Doomed(Q)) <= MaxEntries + Cardinality(Counted \ Q)
    BY <2>1 DEF Room
  <2>2. Present \ Doomed(Q) = {} /\ Counted \ Q = {}
    BY <1>3, <1>5
  <2>3. MaxEntries \in Nat /\ Cardinality({}) = 0
    BY FS_EmptySet, CacheAssumption
  <2>4. 0 <= MaxEntries + 0
    BY <2>3
  <2> QED  BY <2>2, <2>3, <2>4
<1> QED  BY <1>1, <1>2, <1>3, <1>4, <1>6 DEF FullInv

LEMMA NextFull == FullInv /\ [Next]_vars => FullInv'
<1> SUFFICES ASSUME FullInv, [Next]_vars PROVE FullInv'
  OBVIOUS
<1>1. CacheInv'
  BY NextInv DEF FullInv
<1>2. CASE Edit
  BY <1>1, <1>2, EditKeeps
<1>3. CASE Clear
  BY <1>1, <1>3, ClearKeeps
<1>4. ASSUME NEW r \in Run, Step(r)
      PROVE  FullInv'
  BY <1>1, <1>4, BeginStep, PrepareSteps, OpenKeeps, WriteKeeps, ListKeeps, EvictKeeps
     DEF Step
<1>5. ASSUME NEW r \in Run, Kill(r)
      PROVE  FullInv'
  BY <1>1, <1>5, KillKeeps
<1>6. CASE UNCHANGED vars
  BY <1>1, <1>6, StutterKeeps
<1> QED  BY <1>2, <1>3, <1>4, <1>5, <1>6 DEF Next

\* The same runs, with their listings of the directory and what they overlap.
THEOREM CacheFullInvariance == Spec => []FullInv
<1>1. Init => FullInv
  BY InitFull
<1>2. FullInv /\ [Next]_vars => FullInv'
  BY NextFull
<1> QED  BY <1>1, <1>2, PTL DEF Spec

\* Every variable of the cache keeps its type, and a run that got past the
\* baseline has an ignore list to hash (run_pipeline, result_cache::key).
THEOREM CacheTyped == Spec => []TypeOK
<1>1. FullInv => TypeOK
  <2> SUFFICES ASSUME FullInv PROVE TypeOK
    OBVIOUS
  <2>1. \A r \in Run : Active(r) /\ pc[r] # "merge" => ignore[r] # None
    <3> SUFFICES ASSUME NEW r \in Run, Active(r), pc[r] # "merge"
                 PROVE  ignore[r] # None
      OBVIOUS
    <3>1. pc[r] \in MergedIn
      BY DEF FullInv, CacheInv, Types, Active, MergedIn, Loaded
    <3>2. ignore[r] \in Ignore
      BY <3>1 DEF FullInv, CacheInv, RunOK
    <3> QED  BY <3>2, CacheAssumption
  <2> QED  BY <2>1 DEF FullInv, CacheInv, Types, RestTypes, Listed, Loaded, TypeOK
<1> QED  BY <1>1, CacheFullInvariance, PTL

\* However many runs store, list, evict and are killed over one directory, with
\* listings as stale as they come, the entries that are there beyond MaxEntries
\* are at most as many as the runs still storing or killed (evict_old_entries).
THEOREM CacheBounded == Spec => []Bounded
<1>1. FullInv => Bounded
  <2> SUFFICES ASSUME FullInv PROVE Bounded
    OBVIOUS
  <2>1. {} \in SUBSET Evicting /\ Present \ Doomed({}) = Present /\ Counted \ {} = Counted
    BY DEF Doomed
  <2>2. Cardinality(Present \ Doomed({})) <= MaxEntries + Cardinality(Counted \ {})
    BY <2>1 DEF FullInv, Room
  <2> QED  BY <2>1, <2>2 DEF Bounded, Counted
<1> QED  BY <1>1, CacheFullInvariance, PTL

\* A run that nothing overlapped finds its own entry when it is repeated: the
\* eviction that ended it did not choose it (store, evict_old_entries).
THEOREM CacheNextRunHits == Spec => []NextRunHits
<1>1. FullInv => NextRunHits
  BY DEF FullInv, AloneOK, NextRunHits
<1> QED  BY <1>1, CacheFullInvariance, PTL
=============================================================================
