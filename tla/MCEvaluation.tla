---------------------------- MODULE MCEvaluation -----------------------------
EXTENDS Evaluation, CircuitSets

\* Two inputs and two gates of the kinds the evaluation treats differently:
\* an operator with a terminal state and one without, a constant, a gate whose
\* arity is wrong.  The first gate may be shared by both outputs or be out of
\* their reach.
SmallCircuits ==
    OrderedCircuits(2, 2, {<<"NOT", 1>>, <<"NAND", 2>>, <<"XOR", 2>>,
                           <<"CONST_TRUE", 0>>, <<"AND", 1>>}, {<<4>>, <<4, 3>>})
    \cup OrderedCircuits(3, 1, {<<"MUX", 3>>, <<"OR", 3>>, <<"NXOR", 3>>}, {<<4>>})

\* Deeper circuits for assignments that may also fix inner gates.
DeepCircuits == OrderedCircuits(1, 3, {<<"NOT", 1>>, <<"NOR", 2>>}, {<<4, 3>>})

\* Each operator with as many operands as there are inputs.
WideCircuits ==
    {[gates |-> [k \in 1 .. n |-> InputInfo] \o <<GateInfo(t, [k \in 1 .. n |-> k])>>,
      outputs |-> <<n + 1>>] : t \in OperatorTypes, n \in 0 .. 4}

AllCircuits == SmallCircuits \cup DeepCircuits \cup WideCircuits

Assignments(c) ==
    {a \in [GateIds(c) -> GateStates] :
        \A g \in GateIds(c) : Type(c, g) # "INPUT" /\ c \notin DeepCircuits => a[g] = StUndef}
==============================================================================
