------------------------------- MODULE Engine -------------------------------
(***************************************************************************)
(* What an analysis engine promises, whichever way it goes about it: every *)
(* input is indexed before a call site is looked at, every call site is    *)
(* counted in before a file is analyzed, and the report is the one that    *)
(* the inputs determine, in their order.                                   *)
(***************************************************************************)
EXTENDS Integers, Sequences, FiniteSetsExt

CONSTANTS
    Name,       \* functions
    Builtin,    \* the curated ones
    Global,     \* Global[k]: what a call of k means if k is not declared
    Type,       \* types of arguments
    Inputs,     \* the projects: [files, stubs]
    None        \* "not there"

\* A file declares functions, calls some with an argument of some type, and is
\* analyzed or only scanned; the stub files are the last ones.
InputFile ==
    [declares : SUBSET Name, calls : [Name -> Type \cup {None}], analyze : BOOLEAN]

EngineAssumption ==
    /\ Builtin \subseteq Name
    /\ Global \in [Name -> Name]
    /\ None \notin Type \cup Nat
    /\ Inputs \subseteq [files : Seq(InputFile), stubs : Nat]
    /\ \A r \in Inputs :
         /\ r.stubs <= Len(r.files)
         /\ \A i \in DOMAIN r.files :
              i > Len(r.files) - r.stubs => ~r.files[i].analyze

\* Positions in increasing order.
Rank(S, i) == Cardinality({j \in S : j <= i})
InOrder(S) == [r \in 1 .. Cardinality(S) |-> CHOOSE i \in S : Rank(S, i) = r]

VARIABLES
    project,    \* the project
    infer,      \* inferUntypedSignatures
    indexed,    \* files indexed so far
    harvested,  \* files whose call sites have been counted in
    report

engine == <<project, infer, indexed, harvested, report>>

\* What parsing yields.
Files == project.files
File == DOMAIN Files
IsStub(i) == i > Len(Files) - project.stubs

Init ==
    /\ project \in Inputs
    /\ infer \in BOOLEAN
    /\ indexed = 0
    /\ harvested = 0
    /\ report = None

-----------------------------------------------------------------------------
Declaring(k) == {i \in File : k \in Files[i].declares}

\* The declaration of k that counts: the last stub's, else the first file's,
\* where scan-only files do not replace a builtin.
Winner(k) ==
    LET stubs  == {i \in Declaring(k) : IsStub(i)}
        others == {i \in Declaring(k) \ stubs : k \in Builtin => Files[i].analyze}
    IN CASE stubs # {}                  -> Max(stubs)
         [] stubs = {} /\ others # {}   -> Min(others)
         [] OTHER                       -> IF k \in Builtin THEN 0 ELSE None

\* The function that a call of k means.
Callee(k) == IF Winner(k) # None THEN k ELSE Global[k]

\* The types k is called with in a file, and what each file adds to those before.
CalledWith(i, k) == {Files[i].calls[j] : j \in {l \in Name : Callee(l) = k}} \ {None}
Evidence(k) ==
    [i \in File |-> CalledWith(i, k) \ UNION {CalledWith(j, k) : j \in 1 .. i - 1}]

\* What an analysis can tell of a function: its declaration and, unless it is
\* a builtin, the types it is called with.
Known(k) == [winner |-> Winner(k),
             params |-> IF infer /\ Winner(k) \notin {0, None} THEN Evidence(k) ELSE <<>>]

\* The findings in a file are about what it calls.
FindingsIn(i) ==
    [file |-> i,
     about |-> [k \in {Callee(l) : l \in {m \in Name : Files[i].calls[m] # None}} |-> Known(k)]]

Analyzed == {i \in File : Files[i].analyze}
Expected ==
    [findings |-> [p \in DOMAIN InOrder(Analyzed) |-> FindingsIn(InOrder(Analyzed)[p])],
     analyzed |-> Cardinality(Analyzed),
     scanned |-> Cardinality({i \in File : ~Files[i].analyze /\ ~IsStub(i)})]

-----------------------------------------------------------------------------
Index ==
    /\ harvested = 0 /\ report = None
    /\ indexed' \in indexed + 1 .. Len(Files)
    /\ UNCHANGED <<project, infer, harvested, report>>

Harvest ==
    /\ infer /\ report = None
    /\ indexed = Len(Files)
    /\ harvested' \in harvested + 1 .. Len(Files)
    /\ UNCHANGED <<project, infer, indexed, report>>

Report ==
    /\ report = None
    /\ indexed = Len(Files)
    /\ infer => harvested = Len(Files)
    /\ report' = Expected
    /\ UNCHANGED <<project, infer, indexed, harvested>>

Next == Index \/ Harvest \/ Report

Spec == Init /\ [][Next]_engine
=============================================================================
