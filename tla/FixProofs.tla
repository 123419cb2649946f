------------------------------- MODULE FixProofs -------------------------------
(***************************************************************************)
(* Proof of the safety of --fix, for any number of files, repairs, clashes *)
(* and rounds: what a torn file means, what an editor can lose, and what   *)
(* the returned report is about.                                           *)
(***************************************************************************)
EXTENDS Fix, TLAPS

Repairing == {"apply", "write", "fill"}

\* What is still to be repaired was readable, and another round may follow.
Offered ==
    pc \in Repairing => round < MaxRounds /\ \A p \in todo : analyzed[p] \in Text

\* The file about to be emptied is as it was compared, but for races.
Compared ==
    pc = "write" => \A p \in Path : Turn(p) => disk[p] = analyzed[p] \/ p \in raced

\* The pass has seen what the path holds, or history tells why not.
Fresh(p) == analyzed[p] = disk[p] \/ p \in unseen \cup failed

\* What the pass has read is current until the round writes it.
Current ==
    /\ pc = "read" => \A p \in Path \ todo : Fresh(p)
    /\ pc \in Repairing =>
         \A p \in Path \ wrote : Fresh(p) \/ (pc = "fill" /\ Turn(p))
    /\ pc = "done" => \A p \in Path : Fresh(p)

FixInv == TypeOK /\ Offered /\ Compared /\ TornOnlyInFlight /\ Current

-----------------------------------------------------------------------------
\* One file has its turn at a time.
LEMMA OneTurn ==
    ASSUME TypeOK, NEW p \in Path, NEW q \in Path, Turn(p), Turn(q)
    PROVE  p = q
BY FixAssumption DEF TypeOK, Turn

LEMMA RepairedIsText ==
    ASSUME NEW p \in Path, analyzed[p] \in Text
    PROVE  Repaired(p) \in Text
<1>1. Repairs(analyzed, p) \subseteq Repair
  BY FixAssumption DEF Repairs, Text
<1>2. Repaired(p) = [base |-> analyzed[p].base,
                     added |-> analyzed[p].added \cup Repairs(analyzed, p)]
  BY DEF Repaired, Text
<1>3. QED
  BY <1>1, <1>2 DEF Text

\* A whole text is not a torn one, nor are the other marks.
LEMMA MarksDiffer ==
    /\ Torn # Mixed /\ Torn # None /\ Mixed # None
    /\ Torn \notin Text /\ Mixed \notin Text /\ None \notin Text
BY FixAssumption DEF Text

LEMMA InitInv == Init => FixInv
<1> SUFFICES ASSUME Init PROVE FixInv
  OBVIOUS
<1> USE FixAssumption DEF Init
<1>1. TypeOK
  BY DEF TypeOK, Text
<1>2. Offered /\ Compared /\ Current
  BY DEF Offered, Compared, Current, Repairing
<1>3. TornOnlyInFlight
  BY MarksDiffer DEF TornOnlyInFlight, Text
<1>4. QED
  BY <1>1, <1>2, <1>3 DEF FixInv

-----------------------------------------------------------------------------
\* Each step keeps the invariant.
LEMMA EditInv ==
    ASSUME FixInv, NEW p \in Path, Edit(p)
    PROVE  FixInv'
<1> PICK t \in {[base |-> b, added |-> {}] : b \in Base} \cup {None} :
         disk' = [disk EXCEPT ![p] = t]
  BY DEF Edit
<1>1. t \in Text \cup {None} /\ t # Torn
  BY MarksDiffer DEF Text
<1>2. TypeOK'
  BY <1>1 DEF FixInv, TypeOK, Edit, tool
<1>3. Offered'
  BY DEF FixInv, Offered, Edit, tool
<1>4. Compared'
  BY DEF FixInv, TypeOK, Compared, Edit, tool, Turn
<1>5. TornOnlyInFlight'
  BY <1>1 DEF FixInv, TypeOK, TornOnlyInFlight, Edit, tool, Turn
<1>6. Current'
  BY DEF FixInv, TypeOK, Current, Fresh, Edit, tool, Turn
<1>7. QED
  BY <1>2, <1>3, <1>4, <1>5, <1>6 DEF FixInv

LEMMA ReadFileInv ==
    ASSUME FixInv, NEW p \in Path, ReadFile(p)
    PROVE  FixInv'
<1>1. TypeOK'
  BY DEF FixInv, TypeOK, ReadFile
<1>2. Offered' /\ Compared'
  BY DEF Offered, Compared, ReadFile, Repairing
<1>3. TornOnlyInFlight'
  BY DEF FixInv, TornOnlyInFlight, ReadFile
<1>4. Current'
  BY DEF FixInv, TypeOK, Current, Fresh, ReadFile, Repairing
<1>5. QED
  BY <1>1, <1>2, <1>3, <1>4 DEF FixInv

LEMMA AnalyzeInv ==
    ASSUME FixInv, Analyze
    PROVE  FixInv'
<1>1. TypeOK'
  BY DEF FixInv, TypeOK, Analyze, AfterPass
<1>2. Offered'
  BY FixAssumption DEF FixInv, TypeOK, Offered, Analyze, AfterPass, Repairs, Repairing
<1>3. Compared'
  BY DEF Compared, Analyze, AfterPass
<1>4. TornOnlyInFlight'
  BY DEF FixInv, TornOnlyInFlight, Analyze
<1>5. Current'
  BY DEF FixInv, Current, Fresh, Analyze, AfterPass, Repairing
<1>6. QED
  BY <1>1, <1>2, <1>3, <1>4, <1>5 DEF FixInv

LEMMA CompareInv ==
    ASSUME FixInv, NEW p \in Path, Compare(p)
    PROVE  FixInv'
<1>1. CASE pc' = "write" /\ UNCHANGED <<todo, wrote, changed, skipped>> /\ Same(p)
  <2>1. TypeOK'
    BY <1>1 DEF FixInv, TypeOK, Compare
  <2>2. Offered'
    BY <1>1 DEF FixInv, Offered, Compare, Repairing
  <2>3. Compared'
    <3> SUFFICES ASSUME NEW q \in Path, Turn(q)'
                 PROVE  disk'[q] = analyzed'[q]
      BY DEF Compared
    <3>1. q = p
      BY <1>1, OneTurn DEF FixInv, Compare, Turn
    <3>2. QED
      BY <1>1, <3>1 DEF Compare, Same
  <2>4. TornOnlyInFlight'
    BY <1>1 DEF FixInv, TornOnlyInFlight, Compare
  <2>5. Current'
    BY <1>1 DEF FixInv, Current, Fresh, Compare, Repairing
  <2>6. QED
    BY <2>1, <2>2, <2>3, <2>4, <2>5 DEF FixInv
<1>2. CASE Skip(p)
  <2>1. TypeOK'
    BY <1>2 DEF FixInv, TypeOK, Compare, Skip
  <2>2. Offered' /\ Compared'
    BY <1>2 DEF FixInv, Offered, Compared, Compare, Skip, Repairing
  <2>3. TornOnlyInFlight'
    BY <1>2 DEF FixInv, TornOnlyInFlight, Compare, Skip
  <2>4. Current'
    BY <1>2 DEF FixInv, Current, Fresh, Compare, Skip, Repairing
  <2>5. QED
    BY <2>1, <2>2, <2>3, <2>4 DEF FixInv
<1>3. QED
  BY <1>1, <1>2 DEF Compare

LEMMA TruncateInv ==
    ASSUME FixInv, NEW p \in Path, Truncate(p)
    PROVE  FixInv'
<1>1. CASE disk' = [disk EXCEPT ![p] = Torn] /\ pc' = "fill"
           /\ UNCHANGED <<todo, wrote, changed, skipped>>
  <2>1. TypeOK'
    BY <1>1 DEF FixInv, TypeOK, Truncate
  <2>2. Offered' /\ Compared'
    BY <1>1 DEF FixInv, Offered, Compared, Truncate, Repairing
  <2>3. TornOnlyInFlight'
    BY <1>1 DEF FixInv, TypeOK, TornOnlyInFlight, Truncate, Turn
  <2>4. Current'
    BY <1>1 DEF FixInv, TypeOK, Current, Fresh, Truncate, Turn, Repairing
  <2>5. QED
    BY <2>1, <2>2, <2>3, <2>4 DEF FixInv
<1>2. CASE Skip(p) /\ UNCHANGED disk
  <2>1. TypeOK'
    BY <1>2 DEF FixInv, TypeOK, Truncate, Skip
  <2>2. Offered' /\ Compared'
    BY <1>2 DEF FixInv, Offered, Compared, Truncate, Skip, Repairing
  <2>3. TornOnlyInFlight'
    BY <1>2 DEF FixInv, TornOnlyInFlight, Truncate, Skip
  <2>4. Current'
    BY <1>2 DEF FixInv, Current, Fresh, Truncate, Skip, Repairing
  <2>5. QED
    BY <2>1, <2>2, <2>3, <2>4 DEF FixInv
<1>3. QED
  BY <1>1, <1>2 DEF Truncate

LEMMA FillInv ==
    ASSUME FixInv, NEW p \in Path, Fill(p)
    PROVE  FixInv'
<1>1. \A q \in Path : Turn(q) => q = p
  BY OneTurn DEF FixInv, Fill
<1>2. CASE /\ \E t \in After(p) : disk' = [disk EXCEPT ![p] = t]
           /\ todo' = todo \ {p}
           /\ wrote' = wrote \cup {p}
           /\ changed' = changed \cup {p}
           /\ pc' = "apply"
           /\ UNCHANGED <<skipped, failed>>
  <2> PICK t \in After(p) : disk' = [disk EXCEPT ![p] = t]
    BY <1>2
  <2>1. Repaired(p) \in Text
    BY RepairedIsText DEF FixInv, Offered, Fill, Turn, Repairing
  <2>2. t \in Text \cup {None, Mixed, Torn} /\ t # Torn
    BY <2>1, MarksDiffer DEF After, FixInv, TypeOK
  <2>3. TypeOK'
    BY <1>2, <2>2 DEF FixInv, TypeOK, Fill
  <2>4. Offered' /\ Compared'
    BY <1>2 DEF FixInv, Offered, Compared, Fill, Repairing
  <2>5. TornOnlyInFlight'
    BY <1>1, <1>2, <2>2 DEF FixInv, TypeOK, TornOnlyInFlight, Fill
  <2>6. Current'
    BY <1>1, <1>2 DEF FixInv, TypeOK, Current, Fresh, Fill, Repairing
  <2>7. QED
    BY <2>3, <2>4, <2>5, <2>6 DEF FixInv
<1>3. CASE Skip(p) /\ failed' = failed \cup {p} /\ UNCHANGED disk
  <2>1. TypeOK'
    BY <1>3 DEF FixInv, TypeOK, Fill, Skip
  <2>2. Offered' /\ Compared'
    BY <1>3 DEF FixInv, Offered, Compared, Fill, Skip, Repairing
  <2>3. TornOnlyInFlight'
    BY <1>1, <1>3 DEF FixInv, TypeOK, TornOnlyInFlight, Fill, Skip
  <2>4. Current'
    BY <1>1, <1>3 DEF FixInv, TypeOK, Current, Fresh, Fill, Skip, Repairing
  <2>5. QED
    BY <2>1, <2>2, <2>3, <2>4 DEF FixInv
<1>4. QED
  BY <1>2, <1>3 DEF Fill

LEMMA EndRoundInv ==
    ASSUME FixInv, EndRound
    PROVE  FixInv'
<1>1. TypeOK'
  BY FixAssumption DEF FixInv, TypeOK, Offered, EndRound, NextRound, Repairing
<1>2. Offered' /\ Compared'
  BY DEF Offered, Compared, EndRound, Repairing
<1>3. TornOnlyInFlight'
  BY DEF FixInv, TornOnlyInFlight, EndRound
<1>4. Current'
  BY DEF FixInv, Current, Fresh, EndRound, Converged, Repairing
<1>5. QED
  BY <1>1, <1>2, <1>3, <1>4 DEF FixInv

LEMMA KillInv ==
    ASSUME FixInv, Kill
    PROVE  FixInv'
<1>1. TypeOK' /\ Offered' /\ Compared' /\ Current'
  BY DEF FixInv, TypeOK, Offered, Compared, Current, Kill, Repairing
<1>2. TornOnlyInFlight'
  BY DEF FixInv, TornOnlyInFlight, Kill, Turn
<1>3. QED
  BY <1>1, <1>2 DEF FixInv

LEMMA StutterInv ==
    ASSUME FixInv, UNCHANGED vars
    PROVE  FixInv'
BY DEF FixInv, TypeOK, Offered, Compared, TornOnlyInFlight, Current, Fresh, Turn, vars, tool

LEMMA NextInv == FixInv /\ [Next]_vars => FixInv'
BY EditInv, ReadFileInv, AnalyzeInv, CompareInv, TruncateInv, FillInv, EndRoundInv,
   KillInv, StutterInv DEF Next, RunFix

-----------------------------------------------------------------------------
\* The invariant holds throughout.
THEOREM FixInvariant == Spec => []FixInv
<1>1. FixInv /\ [Next]_vars => FixInv'
  BY NextInv
<1>2. QED
  BY InitInv, <1>1, PTL DEF Spec

\* Every variable keeps its type.
THEOREM TypeCorrect == Spec => []TypeOK
<1>1. FixInv => TypeOK
  BY DEF FixInv
<1>2. QED
  BY <1>1, FixInvariant, PTL

\* Whatever interleaves with the writes and wherever the process is killed, a
\* torn file is the one being written or one whose writing failed.
THEOREM TornIsInFlight == Spec => []TornOnlyInFlight
<1>1. FixInv => TornOnlyInFlight
  BY DEF FixInv
<1>2. QED
  BY <1>1, FixInvariant, PTL

\* The report that is returned is about the texts on the disk, but for files
\* saved after they were read and failed writes.
THEOREM ReportStands == Spec => []ReportIsOfRepaired
<1>1. FixInv => ReportIsOfRepaired
  BY DEF FixInv, Current, Fresh, ReportIsOfRepaired
<1>2. QED
  BY <1>1, FixInvariant, PTL

\* A text that an editor saved is destroyed only if it was saved after the
\* comparison.
LEMMA EmptiedWasCompared ==
    ASSUME FixInv, [Next]_vars, NEW p \in Path,
           pc = "write", disk[p] # Torn, disk'[p] = Torn
    PROVE  disk[p] = analyzed[p] \/ p \in raced
<1>1. CASE \E q \in Path : Edit(q)
  BY <1>1, MarksDiffer DEF Edit, FixInv, TypeOK, Text
<1>2. CASE \E q \in Path : Truncate(q)
  BY <1>2 DEF Truncate, FixInv, TypeOK, Compared
<1>3. CASE UNCHANGED disk
  BY <1>3
<1>4. QED
  BY <1>1, <1>2, <1>3 DEF Next, RunFix, ReadFile, Compare, Fill, Analyze, EndRound, Kill, vars

THEOREM RacesAlone == Spec => OnlyRacesLose
<1>1. FixInv /\ [Next]_vars =>
        [\A p \in Path : pc = "write" /\ disk[p] # Torn /\ disk'[p] = Torn
                            => disk[p] = analyzed[p] \/ p \in raced]_vars
  BY EmptiedWasCompared
<1>2. QED
  BY <1>1, FixInvariant, PTL DEF Spec, OnlyRacesLose
=============================================================================
