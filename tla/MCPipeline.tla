------------------------------ MODULE MCPipeline -----------------------------
EXTENDS Pipeline, CircuitSets

TasksOf(strategies, circuits) == [circuit : circuits, strategy : strategies]

------------------------------------------------------------------------------
(* Each transformer by itself; DuplicateGatesCleaner_, which "requires      *)
(* RedundantGatesCleaner to be applied right before", behind that one.      *)

\* Two inputs and two gates, or one and three, in any order of ids: unused gates
\* and inputs, gates used twice, an operand whose id is behind its user's and
\* which the renumbering brings before another one.
LittleUnused == CircuitsOf(2, 2, {<<"NOR", 2>>, <<"MUX", 3>>}, {<<3, 4>>, <<4, 2, 4>>})

Unused == CircuitsOf(1, 3, {<<"NOT", 1>>, <<"AND", 2>>}, {<<2>>}) \cup LittleUnused

\* Duplicates of duplicates, duplicates whose users have smaller ids than
\* their operands, equal operands in an order that matters (MUX).
Duplicates ==
    CircuitsOf(1, 3, {<<"NOT", 1>>, <<"AND", 2>>}, {<<4, 3>>})
    \cup CircuitsOf(2, 2, {<<"OR", 2>>, <<"MUX", 3>>}, {<<3, 4>>})
    \cup OrderedCircuits(2, 3, {<<"NXOR", 2>>}, {<<5, 4>>})

\* Chains of up to four NOT gates in any order of ids, shared, cut by an AND,
\* and with several users.
Chains ==
    OrderedCircuits(1, 4, {<<"NOT", 1>>, <<"AND", 2>>}, {<<5, 4>>})
    \cup CircuitsOf(1, 3, {<<"NOT", 1>>, <<"XOR", 2>>}, {<<3>>})
    \cup OrderedCircuits(1, 3, {<<"NOT", 1>>, <<"MUX", 3>>}, {<<4>>})

\* Two inputs, a negation of each, a gate that opposite operands determine, and
\* a gate over up to four of these.
Wide ==
    {[gates |-> <<InputInfo, InputInfo, GateInfo("NOT", <<1>>), GateInfo("NOT", <<2>>),
                  GateInfo(types[1], <<1, 3>>), GateInfo(types[2], ops)>>,
      outputs |-> <<6>>] :
        types \in {<<"NAND", "XOR">>, <<"XOR", "NXOR">>, <<"AND", "NXOR">>},
        ops \in [1 .. 4 -> 1 .. 5]}

\* Inverters and gates of up to four operands over few gates: duplicates,
\* opposite operands and both of them in one gate, gates whose operands are
\* linked to another gate, to a new negation or to a constant.
EqualOperands ==
    OrderedCircuits(1, 3, {<<"NOT", 1>>, <<"NXOR", 2>>, <<"NAND", 2>>}, {<<4, 3>>})
    \cup OrderedCircuits(1, 3, {<<"NOT", 1>>, <<"XOR", 3>>}, {<<4>>})
    \cup OrderedCircuits(2, 2, {<<t, 2>> : t \in FoldTypes} \cup {<<"NOT", 1>>, <<"IFF", 1>>},
                         {<<4>>})
    \cup OrderedCircuits(1, 2, {<<"NOR", 3>>, <<"OR", 2>>, <<"MUX", 3>>}, {<<3, 2>>})
    \cup Wide

\* A constant, an input, and gates that may become constant, an alias or a
\* negation, with one or two outputs among them; every arity an operator
\* accepts up to three.
Over(ni, ng, types, outputs) ==
    OrderedCircuits(ni, ng, {<<"CONST_TRUE", 0>>, <<"CONST_FALSE", 0>>} \cup types, outputs)

Constants ==
    Over(1, 3, {<<"NAND", 2>>, <<"XOR", 2>>}, {<<4, 3>>})
    \cup OrderedCircuits(1, 3, {<<"CONST_TRUE", 0>>, <<"NOT", 1>>, <<"MUX", 3>>}, {<<4, 3>>})
    \cup Over(1, 2, {<<t, 2>> : t \in FoldTypes} \cup {<<"NOT", 1>>, <<"IFF", 1>>, <<"MUX", 3>>},
              {<<3>>, <<3, 2, 3>>})
    \cup Over(1, 2, {<<"NXOR", 3>>, <<"NOR", 3>>}, {<<3>>})
    \* Without an input, where an output may be constant or not reached.
    \cup Over(0, 3, {<<"NOT", 1>>, <<"XOR", 2>>}, {<<3, 2>>, <<>>})

SingleTasks ==
    TasksOf({<<"RGC">>}, Unused) \cup TasksOf({<<"RGC_true">>}, LittleUnused)
    \cup TasksOf({DuplicateGatesCleaner}, Duplicates)
    \cup TasksOf({<<"RNC">>}, Chains)
    \cup TasksOf({<<"DOC">>}, EqualOperands)
    \cup TasksOf({<<"CGR">>}, Constants)

------------------------------------------------------------------------------
(* The strategies.                                                          *)

\* One input or none of use, constants, and two or three gates: outputs may be
\* constant, equal to an input or to each other, and need no input at all.
SmallCircuits ==
    OrderedCircuits(1, 3, {<<"NOT", 1>>, <<"NAND", 2>>, <<"CONST_TRUE", 0>>}, {<<4, 3>>})
    \cup OrderedCircuits(2, 2, {<<"NXOR", 2>>, <<"OR", 2>>, <<"CONST_FALSE", 0>>}, {<<3, 4>>, <<4>>})
    \cup OrderedCircuits(1, 2, {<<"NOR", 3>>, <<"XOR", 3>>, <<"AND", 2>>, <<"IFF", 1>>}, {<<3, 2>>})

\* All strategies but the application's, one after the other.
AllOthers == Nest(1, DuplicateGatesCleaner \o ReduceNotComposition \o ConstantGateReducer)

\* A constant in use, and a chain of NOT gates over it that is not.
UnusedChain ==
    [gates |-> <<InputInfo, GateInfo("CONST_TRUE", <<>>), GateInfo("AND", <<1, 2>>),
                 GateInfo("NOT", <<2>>), GateInfo("NOT", <<4>>)>>,
     outputs |-> <<3>>]

StrategyTasks ==
    TasksOf({DuplicateOperandsCleaner, AllOthers}, SmallCircuits)
    \cup TasksOf({ConstantGateReducer, DuplicateOperandsCleaner}, {UnusedChain})

AllTasks == SingleTasks \cup StrategyTasks

AppTasks == TasksOf({DuplicateOperandsCleaner}, SmallCircuits)

\* One input, three gates of one operand, two of which may be duplicates, and
\* two users of any two of these: a duplicate may be renumbered past the other
\* operand of its user.
TwoUserTasks ==
    TasksOf({DuplicateGatesCleaner},
            {[gates |-> <<InputInfo>> \o inner \o users, outputs |-> <<5, 6>>] :
                inner \in [1 .. 3 -> OperatorGates({<<"NOT", 1>>, <<"IFF", 1>>}, {1})],
                users \in [1 .. 2 -> OperatorGates({<<"AND", 2>>}, 1 .. 4)]})
==============================================================================
