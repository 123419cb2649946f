------------------------------ MODULE FlowLoops ------------------------------
(***************************************************************************)
(* How flow.rs types the variables of a loop: record_loop, record_foreach  *)
(* and record_if analyze the body again and again, each round from the     *)
(* types that the rounds before have left, narrowed by the conditions, a   *)
(* bounded number of times.  The actions run the loop, and what it meets   *)
(* is compared with the types that the rules are given.                    *)
(***************************************************************************)
EXTENDS Narrowing

CONSTANTS
    None,
    Limit,          \* LOOP_FIXPOINT_LIMIT
    ArmCap,         \* LOOP_UNION_ARM_CAP
    Loops           \* the loops: [kind, cond, before, body, each, value]

ASSUME FlowAssumption ==
    /\ None \notin Var
    /\ Limit \in Nat \ {0} /\ ArmCap \in Nat \ {0}

(***************************************************************************)
(* A statement of the body, [cond, to, from, arms, exit], is an if: where  *)
(* cond holds, to is assigned what another variable holds (from # None) or *)
(* a value of arms, and then the body goes on, or it is left by continue,  *)
(* break or return.  before gives the types before the loop; a foreach     *)
(* binds each to one of value.                                             *)
(***************************************************************************)

VARIABLES
    loop,       \* the loop
    types,      \* what the analyzer makes of it: [at, after, settled]
    held,       \* what the variables hold
    pc          \* where the loop is: <<place, statement>>

vars == <<loop, types, held, pc>>

-----------------------------------------------------------------------------
\* THE ANALYZER

\* widen_loop_type.
Widened(t) ==
    LET general == Absorb({Generalize(a) : a \in t})
    IN IF Cardinality(t) <= ArmCap THEN t
       ELSE IF Cardinality(general) <= ArmCap THEN general ELSE {"mixed"}

Assigned(l) == {l.body[i].to : i \in DOMAIN l.body} \ {None}

\* widen_loop_assignments: one literal becomes its base.
Generalized(l) ==
    [v \in Var |-> IF v \in Assigned(l) /\ Cardinality(l.before[v]) = 1
                   THEN {Generalize(a) : a \in l.before[v]} ELSE l.before[v]]

\* What a round starts from: a foreach binds its value, a while knows what its
\* condition says of the types before the loop.
Entry(l, env) ==
    CASE l.kind = "foreach" -> [env EXCEPT ![l.each] = l.value]
      [] l.kind = "while"   -> Apply(Facts(l.cond, TRUE, l.before), env)
      [] OTHER              -> env

AssignType(env, s) ==
    CASE s.to = None   -> env
      [] s.from # None -> [env EXCEPT ![s.to] = env[s.from]]
      [] OTHER         -> [env EXCEPT ![s.to] = Absorb(s.arms)]

\* Where the condition does not hold.
Else(env, s) == Under(env, s.cond, FALSE)

\* record_if: a branch that always leaves does not flow on.
AfterStatement(env, s) ==
    LET then == AssignType(Under(env, s.cond, TRUE), s)
    IN IF s.cond.op = "always" THEN then
       ELSE IF s.exit # None THEN Else(env, s)
       ELSE Merged({then, Else(env, s)})

\* The types recorded at every statement, and after the last.
Recorded(l, env) ==
    LET at[i \in 1 .. Len(l.body) + 1] ==
            IF i = 1 THEN Entry(l, env) ELSE AfterStatement(at[i - 1], l.body[i - 1])
    IN at

\* widen_loop_state.
AfterRound(l, env) == [v \in Var |-> Widened(Recorded(l, env)[Len(l.body) + 1][v])]

\* Faulty: the state before the loop is forgotten.
NextCurrentLast(l, base, after) == after

\* What the next round starts from: a body that may be skipped keeps the state
\* before the loop.
NextCurrent(l, base, after) == IF l.kind = "do" THEN after ELSE Merged({base, after})

\* record_loop, record_foreach: rounds until nothing changes or Limit is reached.
Analyzed(l) ==
    LET base == Generalized(l)
        Step(r) ==
            LET next == NextCurrent(l, base, AfterRound(l, r.after))
            IN IF r.settled THEN r
               ELSE [at |-> Recorded(l, r.after), after |-> next, settled |-> next = r.after]
    IN FoldLeft(LAMBDA r, i : Step(r),
                [at |-> <<>>, after |-> base, settled |-> FALSE],
                [i \in 1 .. Limit |-> i])

-----------------------------------------------------------------------------
\* THE LOOP

Init ==
    /\ loop \in Loops
    /\ types = Analyzed(loop)
    /\ held \in {h \in [Var -> Value] : Covers(loop.before, h)}
    /\ pc = IF loop.kind = "do" THEN <<"test", 1>> ELSE <<"head", 0>>

Body == loop.body
After == <<"after", 0>>
Onward(i) == IF i = Len(Body) THEN <<"end", 0>> ELSE <<"test", i + 1>>

\* The head of a while or a foreach: another round, if the condition holds.
Enter ==
    /\ pc = <<"head", 0>>
    /\ TRUE \in Outcomes(loop.cond, held)
    /\ IF loop.kind = "foreach"
       THEN \E x \in {y \in Value : Covering(y) \cap loop.value # {}} :
              held' = [held EXCEPT ![loop.each] = x]
       ELSE UNCHANGED held
    /\ pc' = <<"test", 1>>
    /\ UNCHANGED <<loop, types>>

\* The condition of a statement.
Test ==
    /\ pc[1] = "test"
    /\ \E holds \in Outcomes(Body[pc[2]].cond, held) :
         pc' = IF holds THEN <<"then", pc[2]>> ELSE Onward(pc[2])
    /\ UNCHANGED <<loop, types, held>>

\* The statement.
Then ==
    /\ pc[1] = "then"
    /\ LET s == Body[pc[2]]
       IN /\ IF s.to = None THEN UNCHANGED held
             ELSE \E x \in IF s.from # None THEN {held[s.from]}
                           ELSE {y \in Value : Covering(y) \cap s.arms # {}} :
                    held' = [held EXCEPT ![s.to] = x]
          /\ pc' = CASE s.exit = "continue" -> <<"end", 0>>
                     [] s.exit = "break"    -> After
                     [] s.exit = "return"   -> <<"gone", 0>>
                     [] OTHER               -> Onward(pc[2])
    /\ UNCHANGED <<loop, types>>

\* The end of the body, to the head or, in a do, once more or on.
Repeat ==
    /\ pc = <<"end", 0>>
    /\ IF loop.kind = "do"
       THEN \E holds \in Outcomes(loop.cond, held) : pc' = IF holds THEN <<"test", 1>> ELSE After
       ELSE pc' = <<"head", 0>>
    /\ UNCHANGED <<loop, types, held>>

Leave ==
    /\ pc = <<"head", 0>>
    /\ FALSE \in Outcomes(loop.cond, held)
    /\ pc' = After
    /\ UNCHANGED <<loop, types, held>>

Next == Enter \/ Test \/ Then \/ Repeat \/ Leave

Spec == Init /\ [][Next]_vars

-----------------------------------------------------------------------------
BodyCovered ==
    /\ pc[1] = "test" => OperandsCovered(Body[pc[2]].cond, types.at[pc[2]], held)
    /\ pc[1] = "then" => Covers(Under(types.at[pc[2]], Body[pc[2]].cond, TRUE), held)

AfterCovered == pc = After => Covers(types.after, held)

\* "Sound either way -- both cur and t hold in the branch": the types the rules
\* see at every statement of the body, at every operand of its condition and
\* under it cover what any round finds there, whatever was assigned before, and
\* those after the loop what it leaves, whichever round is the last.
Covered == BodyCovered /\ AfterCovered
=============================================================================
