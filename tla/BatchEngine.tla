----------------------------- MODULE BatchEngine -----------------------------
(***************************************************************************)
(* The two engines of lib.rs: the eager one (analyze_parsed_progress) has  *)
(* every AST at once; the streaming one (analyze_streaming) parses and     *)
(* indexes the files in batches, keeps the ASTs of analyzed files only and *)
(* parses the others again, batch by batch, when it looks for their calls. *)
(* Both end in analyze_with_indexes, which analyzes files in parallel.     *)
(*                                                                         *)
(* A file is known by its position in the inputs; an AST or a text is that *)
(* of the file it was made from.                                           *)
(***************************************************************************)
EXTENDS Integers, SequencesExt, FiniteSetsExt

CONSTANTS
    Name, Builtin, Global, Type, Inputs, None,      \* as in Engine
    StreamBatch,    \* STREAM_BATCH
    Threshold       \* STREAM_THRESHOLD

VARIABLES
    project,    \* the project
    infer,      \* inferUntypedSignatures
    streaming,  \* the engine that run_pipeline has chosen
    pc,
    batch,      \* parsed_batch: the files of the batch that is being indexed
    stub,       \* the files of the batch that are taken for stubs
    first,      \* files in the batches before
    index,      \* index[k]: the file whose declaration holds, 0 for a builtin, or None
    order,      \* where the files' ASTs are: <<[analyzed, slot]>>
    retained,   \* the analyzed files, whose ASTs stay
    deferred,   \* the other files, of which only the texts stay
    counts,     \* analyzed_count and scanned_count
    live,       \* the files that are not analyzed and whose AST is in memory
    evidence,   \* evidence[k]: the types k is called with, file by file
    done,       \* the files analyzed, in the order the workers finish, with findings
    report,
    indexed,    \* the progress counters
    harvested

vars == <<project, infer, streaming, pc, batch, stub, first, index, order, retained,
          deferred, counts, live, evidence, done, report, indexed, harvested>>

\* The promise both engines are to keep.
Promise == INSTANCE Engine WITH
    project <- project, infer <- infer, report <- report,
    indexed <- indexed, harvested <- harvested

ASSUME BatchAssumption ==
    /\ Promise!EngineAssumption
    /\ StreamBatch \in Nat \ {0} /\ Threshold \in Nat

Files == project.files
Total == Len(Files)

Init ==
    /\ project \in Inputs
    /\ infer \in BOOLEAN
    \* --fix and PHPXRAY_STREAM=0 take the eager engine, PHPXRAY_STREAM=1 the
    \* other; without them the number of files decides
    /\ \E wish \in {"eager", "streaming", "none"} :
         streaming = (wish = "streaming" \/ (wish = "none" /\ Total > Threshold))
    /\ pc = "parse"
    /\ batch = <<>>
    /\ stub = {}
    /\ first = 0
    /\ index = [k \in Name |-> IF k \in Builtin THEN 0 ELSE None]
    /\ order = <<>>
    /\ retained = <<>>
    /\ deferred = <<>>
    /\ counts = [analyzed |-> 0, scanned |-> 0]
    /\ live = {}
    /\ evidence = [k \in Name |-> <<>>]
    /\ done = <<>>
    /\ report = None
    /\ indexed = 0
    /\ harvested = 0

-----------------------------------------------------------------------------
BatchSize == IF streaming THEN StreamBatch ELSE Total

NotAnalyzed(fs) == {f \in fs : ~Files[f].analyze}

\* The trailing inputs.
MarkedStubs(files) ==
    {files[i] : i \in {j \in DOMAIN files : first + j > Total - project.stubs}}

\* The next files are parsed, in parallel, and come back in their order.
Parse ==
    /\ pc = "parse"
    /\ first < Total
    /\ batch' = [i \in 1 .. Min({BatchSize, Total - first}) |-> first + i]
    /\ stub' = MarkedStubs(batch')
    /\ live' = live \cup NotAnalyzed(ToSet(batch'))
    /\ pc' = "index"
    /\ UNCHANGED <<project, infer, streaming, first, index, order, retained, deferred,
                   counts, evidence, done, report, indexed, harvested>>

\* accepts_redeclaration.
Accepts(f, k) ==
    \/ index[k] = None
    \/ f \in stub
    \/ index[k] = 0 /\ Files[f].analyze

\* index_parsed_file, one file after the other.
IndexFile ==
    /\ pc = "index"
    /\ indexed < first + Len(batch)
    /\ LET f == batch[indexed - first + 1]
       IN index' = [k \in Name |-> IF k \in Files[f].declares /\ Accepts(f, k)
                                   THEN f ELSE index[k]]
    /\ indexed' = indexed + 1
    /\ UNCHANGED <<project, infer, streaming, pc, batch, stub, first, order, retained,
                   deferred, counts, live, evidence, done, report, harvested>>

\* The files whose ASTs stay: those that rules run over, or all.
Kept(files) == {f \in files : Files[f].analyze \/ ~streaming}

\* The files of which the texts stay.
Deferred(files) == {f \in files : ~Files[f].analyze /\ streaming}

\* The ASTs that are not needed until the calls are looked for.
Dropped(files) == NotAnalyzed(files)

\* Where a file of a batch ends up.
Place(f, files, before) == Len(before) + Promise!Rank(files, f)

Slot(f, files) ==
    IF f \in Kept(files)
    THEN [analyzed |-> TRUE, slot |-> Place(f, Kept(files), retained)]
    ELSE [analyzed |-> FALSE, slot |-> Place(f, Deferred(files), deferred)]

\* The streaming engine keeps what the rules need, and texts of the rest.
Stow ==
    /\ pc = "index"
    /\ indexed = first + Len(batch)
    /\ order' = order \o [i \in DOMAIN batch |-> Slot(batch[i], ToSet(batch))]
    /\ retained' = retained \o Promise!InOrder(Kept(ToSet(batch)))
    /\ deferred' = deferred \o Promise!InOrder(Deferred(ToSet(batch)))
    /\ live' = IF streaming THEN live \ Dropped(ToSet(batch)) ELSE live
    /\ counts' =
         [analyzed |-> counts.analyzed + Cardinality(ToSet(batch) \ NotAnalyzed(ToSet(batch))),
          scanned |-> counts.scanned + Cardinality(NotAnalyzed(ToSet(batch)) \ stub)]
    /\ first' = first + Len(batch)
    /\ batch' = <<>>
    /\ pc' = "parse"
    /\ UNCHANGED <<project, infer, streaming, stub, index, evidence, done, report,
                   indexed, harvested>>

\* The indexes are finished; the pre-pass follows if it is on.
Finalize ==
    /\ pc = "parse"
    /\ first = Total
    /\ pc' = IF infer /\ Total > 0 THEN "reparse" ELSE "analyze"
    /\ UNCHANGED <<project, infer, streaming, batch, stub, first, index, order, retained,
                   deferred, counts, live, evidence, done, report, indexed, harvested>>

-----------------------------------------------------------------------------
\* The slots of the batch whose call sites come next.
Slots == SubSeq(order, harvested + 1, Min({harvested + BatchSize, Total}))

ProgramAt(slot) == IF slot.analyzed THEN retained[slot.slot] ELSE deferred[slot.slot]

\* Faulty: the programs at hand come before those that are parsed again.
ProgramsAtHandFirst ==
    LET at == SelectSeq(Slots, LAMBDA s : s.analyzed)
        re == SelectSeq(Slots, LAMBDA s : ~s.analyzed)
    IN [i \in DOMAIN at |-> ProgramAt(at[i])] \o [i \in DOMAIN re |-> ProgramAt(re[i])]

\* The programs of the batch, in file order.
Programs == [i \in DOMAIN Slots |-> ProgramAt(Slots[i])]

\* The texts of deferred files are parsed again.
Reparse ==
    /\ pc = "reparse"
    /\ live' = live \cup NotAnalyzed(ToSet(Programs))
    /\ pc' = "harvest"
    /\ UNCHANGED <<project, infer, streaming, batch, stub, first, index, order, retained,
                   deferred, counts, evidence, done, report, indexed, harvested>>

\* resolve_call_fqn: a call of an undeclared name falls back to the global one.
Resolved(k) == IF index[k] # None THEN k ELSE Global[k]

\* harvest_file: the types a file calls k with.
Observed(f, k) == {Files[f].calls[j] : j \in {l \in Name : Resolved(l) = k}} \ {None}

\* harvest_batch: merged in file order, whichever worker is done first.
Harvested(k) == evidence[k] \o [i \in DOMAIN Programs |-> Observed(Programs[i], k)]

Harvest ==
    /\ pc = "harvest"
    /\ evidence' = [k \in Name |-> Harvested(k)]
    /\ live' = IF streaming THEN live \ ToSet(deferred) ELSE live
    /\ harvested' = harvested + Len(Slots)
    /\ pc' = IF harvested' = Total THEN "analyze" ELSE "reparse"
    /\ UNCHANGED <<project, infer, streaming, batch, stub, first, index, order, retained,
                   deferred, counts, done, report, indexed>>

-----------------------------------------------------------------------------
\* Type::union: of types that come up again the first one stays.
Union(seen) == [i \in DOMAIN seen |-> seen[i] \ UNION {seen[j] : j \in 1 .. i - 1}]

\* params_from_evidence: builtins are left alone.
Params(k) == IF infer /\ index[k] \notin {0, None} THEN Union(evidence[k]) ELSE <<>>

\* analyze_one_file.
Findings(f) ==
    [file |-> f,
     about |-> [k \in {Resolved(l) : l \in {m \in Name : Files[f].calls[m] # None}}
                  |-> [winner |-> index[k], params |-> Params(k)]]]

\* A worker analyzes one of the files.
Analyze(p) ==
    /\ pc = "analyze"
    /\ Files[retained[p]].analyze
    /\ \A d \in DOMAIN done : done[d].at # p
    /\ done' = Append(done, [at |-> p, findings |-> Findings(retained[p])])
    /\ UNCHANGED <<project, infer, streaming, pc, batch, stub, first, index, order,
                   retained, deferred, counts, live, evidence, report, indexed, harvested>>

\* sort_by_key.
InFileOrder ==
    LET at == Promise!InOrder({done[d].at : d \in DOMAIN done})
    IN [p \in DOMAIN done |-> done[CHOOSE d \in DOMAIN done : done[d].at = at[p]]]

Assemble ==
    /\ pc = "analyze"
    /\ Len(done) = counts.analyzed
    /\ report' = [findings |-> [d \in DOMAIN done |-> InFileOrder[d].findings],
                  analyzed |-> counts.analyzed,
                  scanned |-> counts.scanned]
    /\ pc' = "done"
    /\ UNCHANGED <<project, infer, streaming, batch, stub, first, index, order, retained,
                   deferred, counts, live, evidence, done, indexed, harvested>>

Next ==
    \/ Parse \/ IndexFile \/ Stow \/ Finalize
    \/ Reparse \/ Harvest
    \/ (\E p \in DOMAIN retained : Analyze(p))
    \/ Assemble

Spec == Init /\ [][Next]_vars
-----------------------------------------------------------------------------
\* "Both produce identical reports; they differ only in whether every AST is
\* held at once": either engine does what an engine promises, in which the
\* report is a function of the project.
KeepsPromise == Promise!Spec
=============================================================================
