----------------------- MODULE MCSubcircuitMinimization -----------------------
EXTENDS SubcircuitMinimization, SmallDatabases

Three(gates, outs) ==
    [gates   |-> <<InputInfo, InputInfo, InputInfo>> \o
                 [g \in DOMAIN gates |-> GateInfo(gates[g][1], gates[g][2])],
     outputs |-> outs]

\* Circuits for CycleDB and GrowthDB in which a parent of a color is computed
\* from a gate of the color: there the entry of the first closes a cycle, and
\* that of the second is smaller than the color but its gates come on top of
\* those that the parent needs.
CycleCircuits ==
    {Three(<<<<"NOT", <<2>>>>, <<"NOR", <<1, 4>>>>, <<"XOR", <<3, 5>>>>, <<"OR", <<2, 6>>>>,
             <<"NOT", <<7>>>>, <<"NOR", <<1, 8>>>>, <<"AND", <<7, 9>>>>>>, <<10, 5>>)}

GrowthCircuits ==
    {Three(<<<<"AND", <<1, 2>>>>, <<"XOR", <<1, 4>>>>, <<"OR", <<3, 5>>>>, <<"NXOR", <<2, 6>>>>,
             <<"NXOR", <<1, 7>>>>, <<"NXOR", <<5, 8>>>>>>, <<9, 8, 7>>)}

\* Four different outputs and, behind them, a copy of an input (8), its negation
\* and a constant (10).
Primitives ==
    {Three(<<<<"AND", <<1, 2>>>>, <<"OR", <<3, 4>>>>, <<"XOR", <<3, 4>>>>, <<"NAND", <<3, 4>>>>,
             <<"XOR", <<4, 6>>>>, <<"NXOR", <<4, 6>>>>, <<"XOR", <<3, 8>>>>, <<"AND", <<5, 9>>>>>>, outs) :
        outs \in {<<11, 4, 5, 6, 7>>, <<8, 10, 11>>, <<10, 9>>, <<7, 8, 9, 11>>}}

AigPrimitives ==
    {Three(<<<<"NOT", <<1>>>>, <<"AND", <<2, 4>>>>, <<"AND", <<3, 4>>>>, <<"AND", <<5, 6>>>>>>, <<7>>)}
    \cup {Three(<<<<"NOT", <<1>>>>, <<"AND", <<2, 4>>>>, <<"NOT", <<5>>>>, <<"AND", <<1, 6>>>>,
             <<"AND", <<3, 7>>>>, <<"NOT", <<7>>>>>>, outs) : outs \in {<<8, 9>>, <<7, 8>>, <<8>>}}

\* Gates that are refused by the colorings and by the scan, and a color of two
\* operators and three negations, for which there is an entry of three operators.
Particular ==
    {Three(<<<<"NOT", <<1>>>>, <<"NOT", <<2>>>>, <<"NOT", <<3>>>>,
             <<"AND", <<4, 5>>>>, <<"AND", <<6, 7>>>>>>, <<8>>)}
    \cup {Three(<<<<"AND", <<1, 2>>>>, <<"IFF", <<4>>>>, <<"NAND", <<3, 5>>>>>>, <<6>>),
          Three(<<<<"MUX", <<1, 2, 3>>>>>>, <<4>>)}

\* The others differ in the order of the inputs only.
FirstTwoFirst(circuits) == {c \in circuits : c.gates[4].operands \in {<<1, 2>>, <<1>>}}

BenchCircuits ==
    FirstTwoFirst(TidyCircuits(3, 4, {}, {"AND", "XOR"}, {<<7>>}))
    \cup FirstTwoFirst(TidyCircuits(3, 3, {"NOT"}, {"OR", "AND"}, {<<6, 5, 4>>, <<6, 4>>}))
    \cup Primitives \cup Particular \cup GrowthCircuits

AigCircuits ==
    FirstTwoFirst(TidyCircuits(3, 4, {"NOT"}, {"AND"}, {<<7, 6>>}))
    \cup AigPrimitives \cup Particular

TasksOf(b, circuits) == [circuit : circuits, basis : {b}]

SmallTasks  == TasksOf("BENCH", BenchCircuits) \cup TasksOf("AIG", AigCircuits)
CycleTasks  == TasksOf("BENCH", CycleCircuits)
GrowthTasks == TasksOf("BENCH", GrowthCircuits)

OneCycleDB(b)  == CycleDB
OneGrowthDB(b) == GrowthDB
==============================================================================
