------------------------------ MODULE Suppress ------------------------------
(***************************************************************************)
(* apply_compiled (suppress.rs): which findings of a report the ignore     *)
(* entries drop, and --generate-baseline (baseline.rs, main.rs), which     *)
(* turns what is left into further entries for later runs.  The inline     *)
(* markers are scanned first, by InlineIgnores.                            *)
(*                                                                         *)
(* A path is a sequence of segments; a finding is the number of its key    *)
(* <<path, message, identifier>>, in the order of the baseline's map, and  *)
(* a line.  A message pattern is the set of the messages it matches.  One  *)
(* file of the project may have inline markers.                            *)
(***************************************************************************)
EXTENDS InlineIgnores, FiniteSetsExt

CONSTANTS
    Keys,           \* the keys in order: <<[path, message, id]>>
    Inputs,         \* what a run starts from: [entries, findings, source]
    Broken,         \* the key of the malformed markers of the file with markers
    ReportUnmatched,
    None,           \* an absent identifier, count or setting
    ParseError      \* identifier of a malformed inline marker

Key == DOMAIN Keys

Message == {Keys[k].message : k \in Key}
Path == Seq(STRING) \ {<<>>}

\* A pattern is a path, a glob with "*" for any one segment, or a bare name.
Pattern == [glob : BOOLEAN, segments : Path]

Entry ==
    {e \in [messages : SUBSET Message, raw : SUBSET Message,
            ids : SUBSET ({Keys[k].id : k \in Key} \ {None}), paths : SUBSET Pattern,
            count : Nat \cup {None}, report : BOOLEAN \cup {None}] :
        \* an empty entry is not compiled
        e.messages # {} \/ e.raw # {} \/ e.ids # {} \/ e.paths # {}}

Finding == [key : Key, line : Nat]

ASSUME SuppressAssumption ==
    /\ Key = 1 .. Len(Keys) /\ Len(Keys) \in Nat
    /\ \A k \in Key : Keys[k].path \in Path
    /\ Inputs \subseteq [entries : Seq(Entry), findings : Seq(Finding), source : Seq(Marker)]
    /\ Broken \in Key /\ Keys[Broken].id = ParseError
    /\ ReportUnmatched \in BOOLEAN
    /\ None # ParseError /\ None \notin Id \cup Nat

VARIABLES
    entries,    \* the entries in effect, a baseline's after the configuration's
    report,     \* what the analysis has found, in order
    first,      \* the position of the first entry of the baseline
    n,          \* the finding that is looked at
    matched,    \* how many findings each entry has dropped
    hides,      \* history: <<entry, finding>> dropped by it
    kept,       \* the findings that stay
    unmatched   \* the entries reported as not matched, or not often enough

filter == <<entries, report, first, n, matched, hides, kept, unmatched>>
vars == <<ignores, filter, pc>>

Init ==
    /\ \E r \in Inputs :
         InitScan(r.source) /\ entries = r.entries /\ report = r.findings
    /\ first = Len(entries) + 1
    /\ n = 1
    /\ matched = [j \in DOMAIN entries |-> 0]
    /\ hides = {}
    /\ kept = <<>>
    /\ unmatched = {}

-----------------------------------------------------------------------------
\* ExcludeMatcher: a path covers what is under it, a bare name matches at any
\* depth, a glob is taken as it is.
PathMatches(p, path) ==
    IF p.glob
    THEN /\ Len(p.segments) = Len(path)
         /\ \A s \in DOMAIN path : p.segments[s] \in {"*", path[s]}
    ELSE \/ IsPrefix(p.segments, path)
         \/ Len(p.segments) = 1 /\ Contains(path, p.segments[1])

\* Matcher::matches: every condition that is present holds.
Matches(e, k) ==
    /\ e.messages # {} => Keys[k].message \in e.messages
    /\ e.raw # {} => Keys[k].message \in e.raw
    /\ e.ids # {} => Keys[k].id \in e.ids
    /\ e.paths # {} => \E p \in e.paths : PathMatches(p, Keys[k].path)

\* Faulty: a bare name is looked up like a path.
BucketableByPath(p) == ~p.glob

\* Only paths of several segments can be looked up by prefix.
Bucketable(p) == ~p.glob /\ Len(p.segments) > 1

\* bucket_paths: empty for an entry that every finding must be held against.
BucketPaths(e) ==
    IF \A p \in e.paths : Bucketable(p) THEN {p.segments : p \in e.paths} ELSE {}

\* candidates: the general entries, and those of every prefix of the path.
Candidates(path) ==
    {j \in DOMAIN entries :
        \/ BucketPaths(entries[j]) = {}
        \/ \E s \in BucketPaths(entries[j]) : IsPrefix(s, path)}

Room(j) == entries[j].count # None => matched[j] < entries[j].count

Takers(k) == {j \in Candidates(Keys[k].path) : Matches(entries[j], k) /\ Room(j)}

\* Faulty: only what has a limit is counted.
TallyLimited(j) == IF entries[j].count = None THEN matched[j] ELSE matched[j] + 1

Tally(j) == matched[j] + 1

\* The scan is through.
Match ==
    /\ pc = "scan"
    /\ i > Len(source)
    /\ pc' = "match"
    /\ UNCHANGED <<ignores, filter>>

\* Whether an inline marker takes a finding.
Marked(f) ==
    /\ Keys[f.key].path = Keys[Broken].path
    /\ Suppressed(f.line, Keys[f.key].id)

\* A finding goes to an inline marker, or to the first entry that takes it.
Consider ==
    /\ pc = "match"
    /\ n <= Len(report)
    /\ LET k == report[n].key
       IN CASE Marked(report[n]) -> UNCHANGED <<matched, hides, kept>>
            [] ~Marked(report[n]) /\ Takers(k) # {} ->
                 /\ matched' = [matched EXCEPT ![Min(Takers(k))] = Tally(Min(Takers(k)))]
                 /\ hides' = hides \cup {<<Min(Takers(k)), n>>}
                 /\ UNCHANGED kept
            [] OTHER -> kept' = Append(kept, k) /\ UNCHANGED <<matched, hides>>
    /\ n' = n + 1
    /\ UNCHANGED <<ignores, entries, report, first, unmatched, pc>>

TooFew(j) ==
    matched[j] = 0 \/ (entries[j].count # None /\ matched[j] < entries[j].count)

MarkerErrors == [e \in DOMAIN errors |-> Broken]

\* Malformed markers are reported in their order, and unmatched entries.
Close ==
    /\ pc = "match"
    /\ n = Len(report) + 1
    /\ kept' = kept \o MarkerErrors
    /\ unmatched' = {j \in DOMAIN entries :
                        ReportUnmatched /\ entries[j].report # FALSE /\ TooFew(j)}
    /\ pc' = IF first > Len(entries) THEN "report" ELSE "done"
    /\ UNCHANGED <<ignores, entries, report, first, n, matched, hides>>

\* Faulty: one entry for a finding, however often it is there.
CountOnce(k) == 1

CountOf(k) == Cardinality({p \in DOMAIN kept : kept[p] = k})

\* An exact message, its identifier and its file, as often as it was found.
EntryFor(k) ==
    [messages |-> {Keys[k].message}, raw |-> {}, ids |-> {Keys[k].id} \ {None},
     paths |-> {[glob |-> FALSE, segments |-> Keys[k].path]},
     count |-> CountOf(k),
     \* set by merge_baseline
     report |-> FALSE]

Baseline(keys) == [j \in DOMAIN keys |-> EntryFor(keys[j])]

\* m numbers of S in increasing order.
Increasing(m, S) == {f \in [1 .. m -> S] : \A p, q \in 1 .. m : p < q => f[p] < f[q]}

\* Some of the findings stay, some of the lines lose their markers.
Staying(at) == [p \in DOMAIN at |-> report[at[p]]]
Unmarked(ls) == [l \in DOMAIN source |->
                    IF l \in ls THEN [source[l] EXCEPT !.prefix = "none"] ELSE source[l]]

\* --generate-baseline, in the order of the keys, and a later run that merges what
\* it wrote, of code in which some findings and malformed markers are repaired.
GenerateAndRerun ==
    /\ pc = "report"
    /\ kept # <<>>
    /\ \E keys \in Increasing(Cardinality(ToSet(kept)), ToSet(kept)) :
         entries' = entries \o Baseline(keys)
    /\ first' = Len(entries) + 1
    /\ \E m \in 0 .. Len(report) : \E at \in Increasing(m, DOMAIN report) :
         report' = Staying(at)
    /\ \E ls \in SUBSET ToSet(errors) : Rescan(Unmarked(ls))
    /\ n' = 1
    /\ matched' = [j \in DOMAIN entries' |-> 0]
    /\ hides' = {}
    /\ kept' = <<>>
    /\ unmatched' = {}

Filter == Match \/ Consider \/ Close \/ GenerateAndRerun

Next == (NextScan /\ UNCHANGED filter) \/ Filter

Spec == Init /\ [][Next]_vars
-----------------------------------------------------------------------------
\* What the filter has to look at.
Seen == [p \in DOMAIN report |-> [key |-> report[p].key, marked |-> Marked(report[p])]]

\* A linear scan: what the entries in list leave of the findings up to p, and how
\* often each has been used.
Takes(list, used, k) ==
    {j \in DOMAIN list :
        Matches(list[j], k) /\ (list[j].count = None \/ used[j] < list[j].count)}
Pass(list, left, f) ==
    LET takers == Takes(list, left.used, f.key)
    IN CASE f.marked -> left
         [] ~f.marked /\ takers # {} ->
              [left EXCEPT !.used[Min(takers)] = @ + 1]
         [] OTHER -> [left EXCEPT !.kept = Append(@, f.key)]
Start(list) == [kept |-> <<>>, used |-> [j \in DOMAIN list |-> 0]]
Left(list, found) ==
    LET left[p \in 0 .. Len(found)] ==
          IF p = 0 THEN Start(list) ELSE Pass(list, left[p - 1], found[p])
    IN left
Linear(list) == Left(list, Seen)[Len(report)].kept

Closed == pc \in {"report", "done"}

\* The lookup by path prefix drops what "a full linear scan" over the entries
\* would drop, counts included.
AsLinearScan ==
    Closed => kept = Linear(entries) \o MarkerErrors

\* "so stale suppressions get cleaned up": what is reported as unmatched can go,
\* or have its count lowered to what it matched, and nothing else changes.
Without(j) ==
    IF matched[j] = 0
    THEN RemoveAt(entries, j)
    ELSE [entries EXCEPT ![j].count = matched[j]]
StaleEntriesAreIdle ==
    Closed => \A j \in unmatched :
        Linear(Without(j)) = Linear(entries)

\* An entry of a baseline may match the findings of other keys: a file at the root
\* is a bare name.
Covers(k, l) ==
    /\ Keys[k].message = Keys[l].message
    /\ Keys[k].id \in {None, Keys[l].id}
    /\ PathMatches([glob |-> FALSE, segments |-> Keys[k].path], Keys[l].path)

\* Files are analyzed, and keys sorted, in the order of their paths' text, and a
\* message has an identifier or none: no finding comes before those of a lesser key
\* whose entry would match it.  What a rule reports in another file than the one it
\* looks at may come too early.
InOrder ==
    \A r \in Inputs : \A p, q \in DOMAIN r.findings :
        p < q /\ r.findings[q].key < r.findings[p].key =>
            ~Covers(r.findings[q].key, r.findings[p].key)

\* "snapshot current findings so a legacy codebase passes, then ratchet down over
\* time": with the baseline merged, nothing of what it was made from comes back,
\* whatever part of it has been repaired since and whichever entries take what.
BaselineHides ==
    pc = "done" => \A p \in DOMAIN kept : Keys[kept[p]].id = ParseError
=============================================================================
