--------------------------------- MODULE Fix ---------------------------------
(***************************************************************************)
(* --fix (run_fix in lib.rs, apply_fixes in fix.rs): rounds of analyze,    *)
(* then for each file with repairs compare the disk with what was analyzed *)
(* and rewrite it, until a round writes nothing.  Editors save and remove  *)
(* files at any moment, writes may fail, and the process may be killed.    *)
(*                                                                         *)
(* A text is what an editor saved and the repairs added to it since.  What *)
(* repairs an analysis offers depends on the types the other files have    *)
(* been given.  What happens inside one text is the subject of FixEdits.   *)
(***************************************************************************)
EXTENDS Naturals, FiniteSets

CONSTANTS
    Path,           \* the analyzed files, numbered in the order of their paths
    Base,           \* the texts editors save
    Repair,         \* machine-applicable repairs
    Lossy,          \* the texts that are not UTF-8
    Torn,           \* a truncated file
    Mixed,          \* a file two programs wrote into at the same time
    None            \* "not there"

CONSTANTS
    Offers,         \* Offers[b]: the repairs the findings in b may carry
    Needs,          \* Needs[r]: the repairs inference needs to come up with r
    Clashes,        \* Clashes[b]: sets of repairs whose edits of b overlap
    MaxRounds,      \* MAX_ROUNDS
    WritesFail,     \* whether the disk can fill up
    Killable,       \* whether the process may be killed
    Edited          \* whether anybody saves or removes files meanwhile

ASSUME FixAssumption ==
    /\ Path \subseteq Nat /\ IsFiniteSet(Path)
    /\ Lossy \subseteq Base
    /\ Torn # Mixed /\ Torn # None /\ Mixed # None
    /\ {Torn, Mixed, None} \cap [base : Base, added : SUBSET Repair] = {}
    /\ Offers \in [Base -> SUBSET Repair]
    /\ Needs \in [Repair -> SUBSET Repair]
    /\ Clashes \in [Base -> SUBSET SUBSET Repair]
    /\ MaxRounds \in Nat \ {0}
    /\ WritesFail \in BOOLEAN /\ Killable \in BOOLEAN /\ Edited \in BOOLEAN

Text == [base : Base, added : SUBSET Repair]

VARIABLES
    disk,       \* what every path holds
    analyzed,   \* what the pass has read
    pc,         \* where run_fix is
    round,      \* rounds so far
    todo,       \* the paths this round has still to read, or to repair
    wrote,      \* the paths rewritten in this round
    changed,    \* summary.changed_paths
    skipped,    \* summary.files_skipped
    unseen,     \* history: paths saved since the pass read them
    raced,      \* history: paths saved since they were compared
    failed      \* history: paths whose writing broke off

tool == <<analyzed, pc, round, todo, wrote, changed, skipped>>
vars == <<disk, tool, unseen, raced, failed>>

Init ==
    /\ disk \in [Path -> {[base |-> b, added |-> {}] : b \in Base}]
    /\ analyzed = [p \in Path |-> None]
    /\ pc = "read"
    /\ round = 0
    /\ todo = Path
    /\ wrote = {}
    /\ changed = {}
    /\ skipped = {}
    /\ unseen = {}
    /\ raced = {}
    /\ failed = {}

-----------------------------------------------------------------------------
\* An editor saves or removes a file, as often as anyone likes.
Edit(p) ==
    /\ Edited
    /\ pc \notin {"done", "killed"}
    /\ \E t \in {[base |-> b, added |-> {}] : b \in Base} \cup {None} :
         t # disk[p] /\ disk' = [disk EXCEPT ![p] = t]
    /\ unseen' = unseen \cup {p}
    /\ raced' = raced \cup {p}
    /\ UNCHANGED <<tool, failed>>

\* A pass reads a file.
ReadFile(p) ==
    /\ pc = "read"
    /\ p \in todo
    /\ todo' = todo \ {p}
    /\ analyzed' = [analyzed EXCEPT ![p] = disk[p]]
    /\ unseen' = unseen \ {p}
    /\ UNCHANGED <<disk, pc, round, wrote, changed, skipped, raced, failed>>

\* The repairs the analysis of these texts offers for p: what is there already
\* is not reported again, and some only follow from repairs made elsewhere.
Repairs(texts, p) ==
    IF texts[p] \notin Text
    THEN {}
    ELSE LET known == UNION {texts[q].added : q \in {r \in Path : texts[r] \in Text}}
         IN {r \in Offers[texts[p].base] \ texts[p].added : Needs[r] \subseteq known}

\* Faulty: the pass after the rounds repairs, too.
AfterPassRepairs == "apply"

\* After the rounds comes one more pass, which only reports.
AfterPass == IF round = MaxRounds THEN "done" ELSE "apply"

\* The pass has read everything and reports.
Analyze ==
    /\ pc = "read"
    /\ todo = {}
    /\ pc' = AfterPass
    /\ todo' = {p \in Path : Repairs(analyzed, p) # {}}
    /\ wrote' = {}
    /\ UNCHANGED <<disk, analyzed, round, changed, skipped, unseen, raced, failed>>

-----------------------------------------------------------------------------
\* The files are repaired in path order.
Turn(p) == p \in todo /\ \A q \in todo : p <= q

\* Reasons for skipping a file are kept in the first round only.
Skip(p) ==
    /\ todo' = todo \ {p}
    /\ skipped' = IF round = 0 THEN skipped \cup {p} ELSE skipped
    /\ pc' = "apply"
    /\ UNCHANGED <<wrote, changed>>

\* Faulty: only a file that is gone is skipped.
SameIfThere(p) == disk[p] # None

\* The bytes on the disk are those of the analyzed source.
Same(p) == disk[p] = analyzed[p] /\ analyzed[p].base \notin Lossy

\* apply_to_source gives up.
Clash(p) == \E c \in Clashes[analyzed[p].base] : c \subseteq Repairs(analyzed, p)

\* apply_fixes comes to a file, and compares it with the disk.
Compare(p) ==
    /\ pc = "apply"
    /\ Turn(p)
    /\ raced' = raced \ {p}
    /\ IF Same(p) /\ ~Clash(p)
       THEN pc' = "write" /\ UNCHANGED <<todo, wrote, changed, skipped>>
       ELSE Skip(p)
    /\ UNCHANGED <<disk, analyzed, round, unseen, failed>>

\* fs::write empties the file first, unless it cannot be opened.
Truncate(p) ==
    /\ pc = "write"
    /\ Turn(p)
    /\ \/ /\ disk' = [disk EXCEPT ![p] = Torn]
          /\ pc' = "fill"
          /\ UNCHANGED <<todo, wrote, changed, skipped>>
       \/ WritesFail /\ Skip(p) /\ UNCHANGED disk
    /\ UNCHANGED <<analyzed, round, unseen, raced, failed>>

Repaired(p) == [analyzed[p] EXCEPT !.added = @ \cup Repairs(analyzed, p)]

\* Faulty: a short write is taken for a whole one.
AfterShort(p) == {Repaired(p), Torn}

\* What the path holds once the text went into the file that was opened:
\* somebody may have removed it, put another in its place, or saved into it.
After(p) ==
    CASE disk[p] = Torn -> {Repaired(p)}
      [] disk[p] = None -> {None}
      [] OTHER          -> {Repaired(p), disk[p], Mixed}

Fill(p) ==
    /\ pc = "fill"
    /\ Turn(p)
    /\ \/ /\ \E t \in After(p) : disk' = [disk EXCEPT ![p] = t]
          /\ todo' = todo \ {p}
          /\ wrote' = wrote \cup {p}
          /\ changed' = changed \cup {p}
          /\ pc' = "apply"
          /\ UNCHANGED <<skipped, failed>>
       \/ /\ WritesFail
          /\ Skip(p)
          /\ failed' = failed \cup {p}
          /\ UNCHANGED disk
    /\ UNCHANGED <<analyzed, round, unseen, raced>>

\* Faulty: nothing is run again after the last round.
ConvergedOrLast == wrote = {} \/ round + 1 = MaxRounds

\* A round that wrote nothing is the last one, and its report stands.
Converged == wrote = {}

\* Faulty: another round follows as long as there is something to repair.
NextRoundSame == round

\* The rounds are counted.
NextRound == round + 1

EndRound ==
    /\ pc = "apply"
    /\ todo = {}
    /\ IF Converged
       THEN pc' = "done" /\ UNCHANGED <<round, todo>>
       ELSE /\ round' = NextRound
            /\ todo' = Path
            /\ pc' = "read"
    /\ UNCHANGED <<disk, analyzed, wrote, changed, skipped, unseen, raced, failed>>

Kill ==
    /\ Killable
    /\ pc \notin {"done", "killed"}
    /\ pc' = "killed"
    /\ UNCHANGED <<disk, analyzed, round, todo, wrote, changed, skipped,
                   unseen, raced, failed>>

\* The steps of run_fix.
RunFix ==
    \/ \E p \in Path : ReadFile(p) \/ Compare(p) \/ Truncate(p) \/ Fill(p)
    \/ Analyze \/ EndRound

Next == RunFix \/ (\E p \in Path : Edit(p)) \/ Kill

\* The tool runs on by itself; nobody has to edit.
Spec == Init /\ [][Next]_vars /\ WF_vars(RunFix)
-----------------------------------------------------------------------------
\* Every variable keeps its type.
TypeOK ==
    /\ disk \in [Path -> Text \cup {None, Torn, Mixed}]
    /\ analyzed \in [Path -> Text \cup {None, Torn, Mixed}]
    /\ pc \in {"read", "apply", "write", "fill", "done", "killed"}
    /\ round \in 0..MaxRounds
    /\ todo \subseteq Path
    /\ wrote \subseteq changed /\ changed \subseteq Path
    /\ skipped \subseteq Path
    /\ unseen \subseteq Path /\ raced \subseteq Path /\ failed \subseteq Path

\* Emptying a file only destroys the text whose repaired form is written next.
\* "this one check covers concurrent edits AND non-UTF-8 files [...], so spans
\* are valid and the write is lossless".
NeverOverwritten ==
    [][\A p \in Path : pc = "write" /\ disk[p] # Torn /\ disk'[p] = Torn
                          => disk[p] = analyzed[p]]_vars

\* What the code does keep of that: a text an editor saved is destroyed only if
\* it was saved after the comparison.
OnlyRacesLose ==
    [][\A p \in Path : pc = "write" /\ disk[p] # Torn /\ disk'[p] = Torn
                          => disk[p] = analyzed[p] \/ p \in raced]_vars

\* Whatever interleaves with the writes, and wherever the process is killed, at
\* most the file being written is left empty, but for those whose writing failed.
TornOnlyInFlight ==
    \A p \in Path :
        disk[p] = Torn => (pc \in {"fill", "killed"} /\ Turn(p)) \/ p \in failed

\* The report that is returned is about the repaired code: its texts are those
\* on the disk, but for files saved after they were read and failed writes.
ReportIsOfRepaired ==
    pc = "done" => \A p \in Path \ (unseen \cup failed) : analyzed[p] = disk[p]

\* The rounds come to an end, even beside an editor who keeps undoing the repairs.
Ends == <>(pc \in {"done", "killed"})
=============================================================================
