---------------------------- MODULE InlineIgnores ----------------------------
(***************************************************************************)
(* inline_ignores (suppress.rs): the scan of a source for ignore comments, *)
(* which yields the lines they apply to and what they ignore there.        *)
(*                                                                         *)
(* A line is what marker() can tell of it: the marker it holds first, how  *)
(* the marker goes on, whether code precedes it, and the tokens that       *)
(* follow, which blanks keep apart.                                        *)
(***************************************************************************)
EXTENDS Integers, SequencesExt

CONSTANTS
    Id          \* identifiers

ASSUME IgnoresAssumption == {",", "(", ")", "other"} \cap Id = {}

Token == Id \cup {",", "(", ")", "other"}

\* A line with no marker has prefix "none".
Marker ==
    [prefix : {"none", "phpstan", "phpxray"}, form : {"", "-line", "-next-line"},
     trailing : BOOLEAN, rest : Seq(Token)]

VARIABLES
    source,     \* the lines
    i,          \* the line that is scanned
    map,        \* target line -> what it ignores: everything, or identifiers
    errors,     \* parse_errors: the lines whose marker is malformed
    pc,         \* "scan", the loop of IgnoreIdParser that runs, or a later phase
    pos,        \* its position
    ids,        \* the identifiers it has collected
    expect,     \* expect_identifier
    depth       \* open parentheses of a comment

parser == <<pos, ids, expect, depth>>
ignores == <<source, i, map, errors, parser>>

\* What is ignored in a line.  Of the identifiers only which they are counts.
Ignored == [all : BOOLEAN, ids : SUBSET Id]
All     == [all |-> TRUE, ids |-> {}]
Ids(s)  == [all |-> FALSE, ids |-> s]

\* Nothing has been scanned yet.
Unscanned(lines) == [l \in 1 .. Len(lines) + 1 |-> Ids({})]

InitScan(lines) ==
    /\ source = lines
    /\ i = 1
    /\ map = Unscanned(lines)
    /\ errors = <<>>
    /\ pc = "scan"
    /\ pos = 1 /\ ids = {} /\ expect = TRUE /\ depth = 0

-----------------------------------------------------------------------------
Line == source[i]
Rest == Line.rest
Eof == pos > Len(Rest)

\* Faulty: the marker read last decides what its line ignores.
MergeLast(line, spec) == [map EXCEPT ![line] = spec]

\* merge: "all" absorbs, identifiers add up.
Merge(line, spec) ==
    [map EXCEPT ![line] = IF @.all \/ spec.all THEN All ELSE Ids(@.ids \cup spec.ids)]

\* A trailing comment applies to its line, one that stands alone to the next.
Target ==
    CASE Line.form = "-line"      -> i
      [] Line.form = "-next-line" -> i + 1
      [] OTHER                    -> IF Line.trailing THEN i ELSE i + 1

\* parse_ids_lenient: the identifiers up to the first thing that is none.
Lenient(rest) ==
    {id \in Id : \E k \in DOMAIN rest :
        rest[k] = id /\ \A j \in 1 .. k : rest[j] \in Id \cup {","}}

AtLine(l) ==
    /\ i' = l
    /\ pc' = "scan"
    /\ pos' = 1 /\ ids' = {} /\ expect' = TRUE /\ depth' = 0

NextLine == AtLine(i + 1) /\ UNCHANGED source

\* A line without a marker, or with one that takes no strict identifiers.
Scan ==
    /\ pc = "scan"
    /\ i <= Len(source)
    /\ Line.prefix # "phpstan" \/ Line.form # ""
    /\ map' = IF Line.prefix = "none" THEN map
              ELSE Merge(Target, IF Line.form # "" \/ Lenient(Rest) = {} THEN All
                                 ELSE Ids(Lenient(Rest)))
    /\ NextLine
    /\ UNCHANGED errors

\* A bare phpstan marker: its identifiers are parsed strictly.
Strict ==
    /\ pc = "scan"
    /\ i <= Len(source)
    /\ Line.prefix = "phpstan" /\ Line.form = ""
    /\ pc' = "ids"
    /\ UNCHANGED <<source, i, map, errors, parser>>

Malformed ==
    /\ errors' = Append(errors, i)
    /\ NextLine
    /\ UNCHANGED map

\* Faulty: a comma at the end is let pass.
CompleteAnyway == ids # {}

\* At the end: an identifier at least, and none missing after a comma.
Complete == ids # {} /\ ~expect

End ==
    /\ pc = "ids"
    /\ Eof
    /\ IF Complete
       THEN map' = Merge(Target, Ids(ids)) /\ NextLine /\ UNCHANGED errors
       ELSE Malformed

Identifier ==
    /\ pc = "ids"
    /\ ~Eof /\ expect
    /\ IF Rest[pos] \in Id
       THEN /\ ids' = ids \cup {Rest[pos]}
            /\ expect' = FALSE
            /\ pos' = pos + 1
            /\ UNCHANGED <<source, i, map, errors, pc, depth>>
       ELSE Malformed

Separator ==
    /\ pc = "ids"
    /\ ~Eof /\ ~expect
    /\ CASE Rest[pos] = "," ->
              /\ expect' = TRUE
              /\ pos' = pos + 1
              /\ UNCHANGED <<source, i, map, errors, pc, ids, depth>>
         [] Rest[pos] = "(" ->
              /\ pc' = "comment"
              /\ UNCHANGED <<source, i, map, errors, parser>>
         [] OTHER -> Malformed

\* Faulty: the first closing parenthesis ends a comment.
ClosesFirst == Rest[pos] = ")"

\* Comments nest.
Closes == Rest[pos] = ")" /\ depth = 1

Comment ==
    /\ pc = "comment"
    /\ IF Eof
       THEN Malformed
       ELSE /\ pos' = pos + 1
            /\ depth' = CASE Rest[pos] = "(" -> depth + 1
                          [] Rest[pos] = ")" -> depth - 1
                          [] OTHER           -> depth
            /\ pc' = IF Closes THEN "ids" ELSE pc
            /\ UNCHANGED <<source, i, map, errors, ids, expect>>

NextScan == Scan \/ Strict \/ End \/ Identifier \/ Separator \/ Comment

\* suppressed_inline.
Suppressed(l, id) == l \in DOMAIN map /\ (map[l].all \/ id \in map[l].ids)

\* Another source is scanned.
Rescan(lines) ==
    /\ source' = lines
    /\ map' = Unscanned(lines)
    /\ errors' = <<>>
    /\ AtLine(1)
-----------------------------------------------------------------------------
Scanned == 1 .. i - 1

\* A marker in words: identifiers and commas take turns, and comments, which
\* may nest, follow an identifier.
Nesting(rest, n) ==
    Cardinality({k \in 1 .. n : rest[k] = "("}) - Cardinality({k \in 1 .. n : rest[k] = ")"})
Outside(rest) == {k \in DOMAIN rest : Nesting(rest, k) = 0 /\ rest[k] # ")"}
Turn(rest, k) == Cardinality({j \in Outside(rest) : j <= k})
WellFormed(rest) ==
    /\ \A k \in DOMAIN rest : Nesting(rest, k) >= 0
    /\ Nesting(rest, Len(rest)) = 0
    /\ Turn(rest, Len(rest)) % 2 = 1
    /\ \A k \in Outside(rest) :
         IF Turn(rest, k) % 2 = 1 THEN rest[k] \in Id ELSE rest[k] = ","
    /\ \A k \in DOMAIN rest :
         rest[k] = "(" /\ Nesting(rest, k) = 1 => k > 1 /\ rest[k - 1] \in Id \cup {")"}
Listed(rest) == {rest[k] : k \in Outside(rest)} \cap Id

IsStrict(l) == source[l].prefix = "phpstan" /\ source[l].form = ""

\* "Malformed @phpstan-ignore reports a parse error": exactly the markers that
\* are no well-formed lists are reported, each once and in order.
ErrorsAreMalformed ==
    /\ ToSet(errors) = {l \in Scanned : IsStrict(l) /\ ~WellFormed(source[l].rest)}
    /\ \A a, b \in DOMAIN errors : a < b => errors[a] < errors[b]

\* The line a marker applies to.
AppliesTo(l) ==
    IF source[l].form = "-line" \/ (source[l].form = "" /\ source[l].trailing)
    THEN l ELSE l + 1

\* What a marker ignores: nothing if it is malformed.
Ignores(l, id) ==
    LET rest == source[l].rest
    IN /\ source[l].prefix # "none"
       /\ \/ source[l].form # ""
          \/ IsStrict(l) /\ WellFormed(rest) /\ id \in Listed(rest)
          \/ ~IsStrict(l) /\ (Lenient(rest) = {} \/ id \in Lenient(rest))

\* A finding is suppressed exactly when a marker that applies to its line
\* ignores it, whatever the other markers of that line are and in whichever
\* order they come; a malformed marker suppresses nothing.
SuppressesMarked ==
    \A l \in DOMAIN map, id \in Id :
        Suppressed(l, id) <=> \E m \in Scanned : AppliesTo(m) = l /\ Ignores(m, id)
=============================================================================
