------------------------------ MODULE Analysis ------------------------------
(***************************************************************************)
(* The two whole-project symbol tables of the analyzer, php_index's        *)
(* ProjectIndex (which names exist) and php_reflect's ReflectionIndex      *)
(* (signatures, members, hierarchy and bodies); and the analysis of one    *)
(* file (analyze_one_file) as a reader of them.  Both tables are rebuilt   *)
(* by every pass from per-file artifacts, merged in path order, configured *)
(* stubs last.                                                             *)
(*                                                                         *)
(* A file's text is a Content; what parsing and reflecting it yields is    *)
(* given by the constant functions below, because the passes tell files    *)
(* apart only through those.  A tree is a function from paths to a file    *)
(* record [source, analyze] or None, a path's number being its place in    *)
(* the BTreeMap order of the paths.                                        *)
(*                                                                         *)
(* What the 29 rule files report is abstracted to everything they could    *)
(* depend on: the file's own text and the answer of each lookup made.      *)
(* Which lookups are made depends on the answers so far: a class leads to  *)
(* its parents and to the types its members name, a body to whatever       *)
(* walking it looks up.                                                    *)
(***************************************************************************)
EXTENDS Naturals

CONSTANTS
    Path,       \* root-relative paths, numbered in their sort order
    Symbol,     \* normalized keys of classes, functions and constants
    Content,    \* file texts
    Empty,      \* the text of an unreadable file
    Surface,    \* span-free reflections of a class or a function
    ArgType,    \* types of arguments seen at call sites
    Input,      \* AnalysisInputs: level, PHP version, rule options, aliases ...
    None        \* "not there"

CONSTANTS
    Reflects,   \* Reflects[c][k]: the reflection c declares for k, or None
    Consts,     \* Consts[c]: the global constants c declares
    Reads,      \* Reads[c]: the lookups that walking the code of c makes first
    BodyReads,  \* BodyReads[c]: the lookups made by walking a body declared in c
    Args,       \* Args[c][k]: the argument type of c's calls of k, or None
    Reaches,    \* Reaches[s]: the symbols a reflection names (parents, types)
    Imports,    \* Imports[s]: source classes of its "phpstan-import-type" tags
    Mentions,   \* Mentions[s]: the unqualified type names it mentions
    Untyped,    \* the reflections with an undeclared parameter type
    Builtin,    \* Builtin[i][k]: the curated reflection of k, or None
    Alias,      \* Alias[i]: the facade names laravelAliases registers
    TypeAlias,  \* TypeAlias[i]: the names of the configured typeAliases
    Infers      \* Infers[i]: whether inferUntypedSignatures is on

\* A file as the indexes hold it, and the projects they are built from.
File == [source : Content, analyze : BOOLEAN]
Tree == [Path -> File \cup {None}]

\* What an index can be asked: the surface of a symbol, the body of a
\* symbol, or a scan over the whole index.
Query == ({"surface", "body"} \X Symbol) \cup {<<"global", None>>}

ASSUME IndexAssumption ==
    /\ Path \subseteq Nat
    /\ Empty \in Content
    /\ None \notin Content \cup Surface \cup ArgType \cup Symbol \cup Input
    /\ None \notin Path \cup File \cup [Symbol -> SUBSET ArgType]
    /\ Reflects \in [Content -> [Symbol -> Surface \cup {None}]]
    /\ Consts \in [Content -> SUBSET Symbol]
    /\ Reads \in [Content -> SUBSET Query]
    /\ BodyReads \in [Content -> SUBSET Query]
    /\ Args \in [Content -> [Symbol -> ArgType \cup {None}]]
    /\ Reaches \in [Surface -> SUBSET Symbol]
    /\ Imports \in [Surface -> SUBSET Symbol]
    /\ Mentions \in [Surface -> SUBSET Symbol]
    /\ Untyped \subseteq Surface
    /\ Builtin \in [Input -> [Symbol -> Surface \cup {None}]]
    /\ Alias \in [Input -> SUBSET Symbol]
    /\ TypeAlias \in [Input -> SUBSET Symbol]
    /\ Infers \in [Input -> BOOLEAN]

-----------------------------------------------------------------------------
\* The normalized keys of the classes and functions a file declares.
DeclaredKeys(c) == {k \in Symbol : Reflects[c][k] # None}

\* Every name of the file's symbol table, constants included.
IndexNames(c) == DeclaredKeys(c) \cup Consts[c]

\* Two texts with the same symbol table.
SameFileIndex(c, d) ==
    /\ DeclaredKeys(c) = DeclaredKeys(d)
    /\ Consts[c] = Consts[d]

\* The indexed files that declare k, and the first of a set of files.
Declarers(tree, k) ==
    {p \in Path : tree[p] # None /\ k \in DeclaredKeys(tree[p].source)}

NameDeclarers(tree, k) ==
    {p \in Path : tree[p] # None /\ k \in IndexNames(tree[p].source)}

First(S) == CHOOSE p \in S : \A q \in S : p <= q

-----------------------------------------------------------------------------
\* The files whose declaration of k ReflectionIndex accepts while it holds no
\* source declaration yet: a scan-only file never replaces a builtin.
Accepted(tree, i, k) ==
    {p \in Declarers(tree, k) : Builtin[i][k] = None \/ tree[p].analyze}

\* The reflection that wins: a stub file overrides, then the first accepted
\* declaration, then the curated builtin.
Declared(tree, i, stub, k) ==
    IF Reflects[stub][k] # None
    THEN Reflects[stub][k]
    ELSE IF Accepted(tree, i, k) # {}
    THEN Reflects[tree[First(Accepted(tree, i, k))].source][k]
    ELSE Builtin[i][k]

\* The entry ProjectIndex holds for k.  A builtin keeps its entry whatever is
\* merged over it; a facade alias never replaces a declaration.
ProjectEntry(tree, i, stub, k) ==
    IF Builtin[i][k] # None
    THEN [origin |-> "builtin", shape |-> Builtin[i][k]]
    ELSE IF NameDeclarers(tree, k) # {}
    THEN [origin |-> "source",
          shape |-> Reflects[tree[First(NameDeclarers(tree, k))].source][k]]
    ELSE IF k \in IndexNames(stub)
    THEN [origin |-> "source", shape |-> Reflects[stub][k]]
    ELSE [origin |-> IF k \in Alias[i] THEN "alias" ELSE "none", shape |-> None]

-----------------------------------------------------------------------------
\* resolve_type_imports and apply_global_type_aliases: the reflections an
\* accepted one is rewritten with, and the configured aliases expanded in it
\* because no class of that name is indexed.
Imported(tree, i, stub, k) ==
    LET s == Declared(tree, i, stub, k)
    IN [j \in IF s = None THEN {} ELSE Imports[s] |-> Declared(tree, i, stub, j)]

Expanded(tree, i, stub, k) ==
    LET s == Declared(tree, i, stub, k)
    IN IF s = None
       THEN {}
       ELSE {x \in Mentions[s] \cap TypeAlias[i] :
               Declared(tree, i, stub, x) = None}

\* Whole-project inference: what the call sites of every file, stubs included,
\* say of each untyped parameter.  Off, it infers nothing.
Inferred(tree, i, stub) ==
    [k \in Symbol |->
       IF Infers[i] /\ Declared(tree, i, stub, k) \in Untyped
       THEN {t \in ArgType :
               \/ \E p \in Path : tree[p] # None /\ Args[tree[p].source][k] = t
               \/ Args[stub][k] = t}
       ELSE {}]

-----------------------------------------------------------------------------
\* What the lookups of a symbol answer once the indexes are finalized and the
\* inferred signatures inf are folded in.
SurfaceOf(tree, i, stub, inf, k) ==
    [entry    |-> ProjectEntry(tree, i, stub, k),
     declared |-> Declared(tree, i, stub, k),
     imported |-> Imported(tree, i, stub, k),
     expanded |-> Expanded(tree, i, stub, k),
     inferred |-> inf[k]]

\* A body is answered with the file that holds it (its path is where a
\* callback's findings are reported) and its text; stub bodies override.
BodyOf(tree, i, stub, k) ==
    LET A == Accepted(tree, i, k)
    IN [path |-> IF A = {} THEN None ELSE First(A),
        file |-> IF A = {} THEN None ELSE tree[First(A)],
        stub |-> IF Reflects[stub][k] = None THEN None ELSE stub]

\* The pair of indexes, as the answer to every query.
View(tree, i, stub, inf) ==
    [q \in Query |->
       CASE q[1] = "surface" -> SurfaceOf(tree, i, stub, inf, q[2])
         [] q[1] = "body"    -> BodyOf(tree, i, stub, q[2])
         [] OTHER -> [k \in Symbol |-> SurfaceOf(tree, i, stub, inf, k)]]

-----------------------------------------------------------------------------

\* The symbols named by the answer to a surface query.
NamedBy(a) ==
    LET Of(s) == IF s = None THEN {} ELSE Reaches[s]
    IN Of(a.declared) \cup Of(a.entry.shape)
         \cup UNION {Of(a.imported[j]) : j \in DOMAIN a.imported}

\* The lookups that the answer a to query q makes the analysis do next.
Follow(q, a) ==
    CASE q[1] = "surface" -> {"surface"} \X NamedBy(a)
      [] q[1] = "body" -> (IF a.file = None THEN {} ELSE BodyReads[a.file.source])
                            \cup (IF a.stub = None THEN {} ELSE BodyReads[a.stub])
      [] OTHER -> {}

\* Each query paired with the queries its answer leads to.
Leads(view) == {<<q, Follow(q, view[q])>> : q \in Query}

\* The indexes of a pass as the analysis of a file reads them.
Indexed(tree, i, stub, inf) ==
    LET view == View(tree, i, stub, inf)
    IN [answer |-> view, leads |-> Leads(view)]

\* A set of queries that contains all its members lead to.
Closed(Q, leads) == \A l \in leads : l[1] \in Q => l[2] \subseteq Q

\* The queries an analysis makes: the least closed set around the first ones.
Consulted(seeds, idx) ==
    LET reachable == UNION {l[2] : l \in idx.leads}
        closed == {R \in SUBSET reachable : Closed(seeds \cup R, idx.leads)}
    IN seeds \cup {q \in reachable : \A R \in closed : q \in seeds \cup R}

\* Everything the findings of a file with text c can depend on.
Findings(c, idx) ==
    [own |-> c, seen |-> [q \in Consulted(Reads[c], idx) |-> idx.answer[q]]]

\* Faulty: the whole-index scans are not noted.
RecordedDepsNoScan(c, idx) == Consulted(Reads[c], idx) \ {<<"global", None>>}

\* RecordedDeps: every lookup notes itself at the index's choke point.
RecordedDeps(c, idx) == Consulted(Reads[c], idx)

\* Faulty: keeps the file's own path.
EmittedIntoOwn(p, c, idx) ==
    {idx.answer[q].path : q \in {r \in Consulted(Reads[c], idx) :
                                   /\ r[1] = "body"
                                   /\ idx.answer[r].path # None
                                   /\ idx.answer[r].file.analyze}}

\* The other analyzed files that findings can be located in: those whose
\* bodies were walked (callback context).
EmittedInto(p, c, idx) ==
    {idx.answer[q].path : q \in {r \in Consulted(Reads[c], idx) :
                                   /\ r[1] = "body"
                                   /\ idx.answer[r].path \notin {p, None}
                                   /\ idx.answer[r].file.analyze}}

-----------------------------------------------------------------------------
\* The batch engine: index everything, infer, analyze each analyzed file.  The
\* report lists findings in path order, so it is a function of the path.
Batch(tree, i, stub) ==
    LET idx == Indexed(tree, i, stub, Inferred(tree, i, stub))
    IN [p \in Path |-> IF tree[p] # None /\ tree[p].analyze
                       THEN Findings(tree[p].source, idx)
                       ELSE None]
=============================================================================
