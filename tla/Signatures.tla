----------------------------- MODULE Signatures -----------------------------
(***************************************************************************)
(* infer_and_apply (signatures.rs): the types that untyped functions are   *)
(* given, parameters from what is passed at the call sites, returns from   *)
(* the bodies, in rounds; and an execution of the project, whose values    *)
(* these types have to cover.                                              *)
(*                                                                         *)
(* A function has one parameter and no declared types, and its body does   *)
(* not fall off its end.  A type is the set of its atoms; the set that     *)
(* holds Mixed stands for mixed.                                           *)
(***************************************************************************)
EXTENDS Integers, Sequences

CONSTANTS
    Function,
    Atom,           \* values, and the types they have
    Base,           \* Base[a]: the type a literal generalizes to
    Null, Mixed,
    Projects,       \* projects: [body, main]
    Rounds,         \* SIGNATURE_INFERENCE_ROUNDS
    MaxDepth        \* bound: the calls on the stack

\* How a call is written: f($x) or $o->f($x); with a spread or a named
\* argument; C::f($x); $f($x), whose callee is not resolved.
How == {"plain", "spread", "static", "dynamic"}

\* An expression is a value, the parameter, or a call with one of these.
Simple == [k : {"value"}, a : Atom] \cup [k : {"param"}]
Expr   == Simple \cup [k : {"call"}, f : Function, how : How, arg : Simple]

\* return e; if (..) return e; if ($x === null) return e; $x = e;
Stmt == [s : {"return", "if", "ifnull", "assign"}, e : Expr]

ASSUME SignaturesAssumption ==
    /\ Base \in [Atom -> Atom]
    /\ Null \in Atom /\ Base[Null] = Null /\ Mixed \notin Atom
    /\ \A p \in Projects :
         /\ p.body \in [Function -> Seq(Stmt)]
         /\ \A f \in Function : p.body[f] # <<>> /\ p.body[f][Len(p.body[f])].s = "return"
         /\ p.main \subseteq Function \X Atom \X How
    /\ Rounds \in Nat \ {0} /\ MaxDepth \in Nat \ {0}

Type == SUBSET (Atom \cup {Mixed})
Unknown == {Mixed}

VARIABLES
    project,
    params,     \* the parameters' types in the index
    rets,       \* the returns' types in the index
    prev,       \* the returns of the last round
    round,      \* rounds so far
    pc,         \* "harvest", "rounds", "run"
    stack,      \* the calls of the execution, the last one on top
    value       \* what the call on top returns, or <<>>

index == <<params, rets, prev, round>>
vars  == <<project, index, pc, stack, value>>

Init ==
    /\ project \in Projects
    /\ params = [f \in Function |-> Unknown]
    /\ rets = [f \in Function |-> Unknown]
    /\ prev = [f \in Function |-> Unknown]
    /\ round = 0
    /\ pc = "harvest"
    /\ stack = <<>>
    /\ value = <<>>

Body(f) == project.body[f]

-----------------------------------------------------------------------------
\* Faulty: what is not known is left out.
UnionKnown(types) == UNION types \ {Mixed}

\* A union with mixed in it is mixed: it is recorded as little as mixed alone.
Union(types) == IF Mixed \in UNION types THEN Unknown ELSE UNION types

Widened(t) == {IF a = Mixed THEN a ELSE Base[a] : a \in t}

\* Not mixed, and not nothing at all: otherwise the slot stays as it is.
Useful(t) == t # {} /\ Mixed \notin t

Admits(t, a) == a \in t \/ Base[a] \in t \/ Mixed \in t

\* null_truth: whether a test for null may hold.
CanBeNull(t) == Null \in t \/ Mixed \in t

\* collect_returns with the parameter bound to x: what is returned, behind a
\* test for null only where it may hold.
Collected(f, x) ==
    {Body(f)[n].e : n \in {m \in DOMAIN Body(f) :
                              \/ Body(f)[m].s \in {"return", "if"}
                              \/ Body(f)[m].s = "ifnull" /\ CanBeNull(x)}}

\* An expression at the depth where nothing is refined any more.
InferDeep(e, x) ==
    CASE e.k = "value" -> {e.a}
      [] e.k = "param" -> x
      [] OTHER         -> IF e.how = "dynamic" THEN Unknown ELSE rets[e.f]

\* refine_return: a return that may be null is derived again for this call.
Refined(f, x) ==
    LET narrow == Union({InferDeep(e, x) : e \in Collected(f, x)})
    IN IF /\ Null \in rets[f] /\ rets[f] # {Null}
          /\ narrow # {}
          /\ \A a \in narrow \ {Mixed} : Admits(rets[f], a)
       THEN narrow ELSE rets[f]

\* The type of an expression of a body whose parameter has type x.  Nothing is
\* refined by an argument that is not paired with the parameter.
InferIn(e, x) ==
    IF e.k = "call" /\ e.how \in {"plain", "static"}
    THEN Refined(e.f, InferDeep(e.arg, x)) ELSE InferDeep(e, x)

\* What the parameter is known to be where statement n begins: mixed, or what
\* was assigned last.
Before(f, n) ==
    LET sets == {m \in 1 .. n - 1 : Body(f)[m].s = "assign"}
        last == CHOOSE m \in sets : \A k \in sets : k <= m
        e    == Body(f)[last].e
    IN IF sets = {} \/ e.k # "value" THEN Unknown ELSE {e.a}

\* harvest_file: calls of functions and, on a receiver of a known class, of
\* methods; record_args: without the calls that have a spread or named argument.
Recorded(how) == how = "plain"

\* The statements of g that call f.
Calls(g, f) == {n \in DOMAIN Body(g) : Body(g)[n].e.k = "call" /\ Body(g)[n].e.f = f}

\* What is passed to f, from the bodies and from the top level.
PassedIn(g, f) ==
    {IF Body(g)[n].e.arg.k = "value" THEN {Body(g)[n].e.arg.a}
     ELSE IF Body(g)[n].s = "ifnull" THEN {Null} ELSE Before(g, n) :
        n \in {m \in Calls(g, f) : Recorded(Body(g)[m].e.how)}}

Passed(f) ==
    {{c[2]} : c \in {d \in project.main : d[1] = f /\ Recorded(d[3])}}
    \cup UNION {PassedIn(g, f) : g \in Function}

\* Phase A: params_from_evidence, apply_inferred.
Harvest ==
    /\ pc = "harvest"
    /\ params' = [f \in Function |->
          LET t == Union({Widened(p) : p \in Passed(f)})
          IN IF Useful(t) THEN t ELSE Unknown]
    /\ pc' = "rounds"
    /\ UNCHANGED <<project, rets, prev, round, stack, value>>

\* infer_returns_from_bodies: all functions, against the index as it is.
Returns ==
    [f \in Function |->
        LET t == Union({InferIn(e, params[f]) : e \in Collected(f, params[f])})
        IN IF Useful(t) THEN t ELSE Unknown]

\* apply_inferred: only what is known is written.
Applied(returns) ==
    [f \in Function |-> IF returns[f] = Unknown THEN rets[f] ELSE returns[f]]

Settled(returns) == returns = prev

\* Phase B: one round.
Round ==
    /\ pc = "rounds"
    /\ round < Rounds
    /\ IF Settled(Returns)
       THEN pc' = "run" /\ UNCHANGED <<rets, prev, round>>
       ELSE /\ rets' = Applied(Returns)
            /\ prev' = Returns
            /\ round' = round + 1
            /\ UNCHANGED pc
    /\ UNCHANGED <<project, params, stack, value>>

OutOfRounds ==
    /\ pc = "rounds"
    /\ round = Rounds
    /\ pc' = "run"
    /\ UNCHANGED <<project, index, stack, value>>

-----------------------------------------------------------------------------
\* The execution: a call of the top level.
Start ==
    /\ pc = "run"
    /\ stack = <<>> /\ value = <<>>
    /\ \E c \in project.main : stack' = <<[f |-> c[1], x |-> c[2], at |-> 1]>>
    /\ UNCHANGED <<project, index, pc, value>>

Top  == stack[Len(stack)]
Here == Body(Top.f)[Top.at]
WithTop(frame) == [stack EXCEPT ![Len(stack)] = frame]

Simply(e) == IF e.k = "param" THEN Top.x ELSE e.a

Running == pc = "run" /\ stack # <<>> /\ value = <<>>

\* The statement is passed over.
Skip ==
    /\ Running
    /\ \/ Here.s = "if"
       \/ Here.s = "ifnull" /\ Top.x # Null
    /\ stack' = WithTop([Top EXCEPT !.at = @ + 1])
    /\ UNCHANGED <<project, index, pc, value>>

Taken == Running /\ (Here.s = "ifnull" => Top.x = Null)

\* The value e has: the statement returns or assigns it.
Yields(frame, rest, v) ==
    IF Body(frame.f)[frame.at].s = "assign"
    THEN /\ stack' = Append(rest, [frame EXCEPT !.x = v, !.at = @ + 1])
         /\ value' = <<>>
    ELSE /\ stack' = Append(rest, frame)
         /\ value' = <<v>>

Below == SubSeq(stack, 1, Len(stack) - 1)

Evaluate ==
    /\ Taken
    /\ Here.e.k # "call"
    /\ Yields(Top, Below, Simply(Here.e))
    /\ UNCHANGED <<project, index, pc>>

Call ==
    /\ Taken
    /\ Here.e.k = "call"
    /\ Len(stack) < MaxDepth
    /\ stack' = Append(stack, [f |-> Here.e.f, x |-> Simply(Here.e.arg), at |-> 1])
    /\ UNCHANGED <<project, index, pc, value>>

\* The call on top is through, and the one below has the value.
Return ==
    /\ value # <<>>
    /\ IF Len(stack) = 1
       THEN stack' = <<>> /\ value' = <<>>
       ELSE Yields(stack[Len(stack) - 1], SubSeq(stack, 1, Len(stack) - 2), value[1])
    /\ UNCHANGED <<project, index, pc>>

Next ==
    \/ Harvest \/ Round \/ OutOfRounds
    \/ Start \/ Skip \/ Evaluate \/ Call \/ Return
Spec == Init /\ [][Next]_vars
-----------------------------------------------------------------------------
ReturnsCovered == value # <<>> => Admits(rets[Top.f], value[1])
ParamsCovered ==
    stack # <<>> /\ Top.at = 1 /\ value = <<>> => Admits(params[Top.f], Top.x)

\* "an unanalyzable return path or an unknown argument poisons the union": what
\* a call returns has the type that the function was given, and what it is
\* passed that of the parameter, however many calls the value came through and
\* whichever round found out about each of them.  A function that is called
\* both in ways that are recorded and in ways that are not violates it.
Covered == ReturnsCovered /\ ParamsCovered

\* The ways in which f is called.
Ways(f) ==
    {c[3] : c \in {d \in project.main : d[1] = f}}
    \cup {Body(g)[n].e.how : <<g, n>> \in UNION {{h} \X Calls(h, f) : h \in Function}}

\* Some of the calls of f are evidence for its parameter, others are none.
PartlySeen(f) == {Recorded(how) : how \in Ways(f)} = BOOLEAN

\* The parameter is assigned to, and read after that: the type it was given
\* still stands for it.
Reassigned(f) ==
    \E n \in DOMAIN Body(f), m \in DOMAIN Body(f) :
        /\ m < n /\ Body(f)[m].s = "assign"
        /\ \/ Body(f)[n].s = "ifnull"
           \/ Body(f)[n].e.k = "param"
           \/ Body(f)[n].e.k = "call" /\ Body(f)[n].e.arg.k = "param"

\* Where the calls of each function are all recorded or none of them is, and no
\* function reads a parameter that it has assigned to, what is passed and what
\* is returned has the type that was inferred, however many calls it came
\* through and whichever round found out about each of them.
SeenIsCovered ==
    (\A f \in Function : ~PartlySeen(f) /\ ~Reassigned(f)) => Covered
=============================================================================
