----------------------------- MODULE MCApplication ---------------------------
EXTENDS Application, SmallDatabases

\* The files of circuits with inputs 1..ni.
FileOf(ni, gates, outs) ==
    LET c == [gates   |-> [k \in 1 .. ni |-> InputInfo] \o
                          [g \in DOMAIN gates |-> GateInfo(gates[g][1], gates[g][2])],
              outputs |-> outs]
    IN  writeBenchFile(c, NaturalNames(c))

Alone(f)   == [p \in {"x"} |-> f]
Twice(f)   == [p \in {"x", "y"} |-> f]
Both(f, g) == [p \in {"x", "y"} |-> IF p = "x" THEN f ELSE g]

\* Three AND gates of which one is enough to spare, and one that the database
\* has nothing for.
Improvable == FileOf(3, <<<<"NOT", <<1>>>>, <<"AND", <<2, 4>>>>, <<"AND", <<3, 4>>>>,
                          <<"AND", <<5, 6>>>>>>, <<7>>)

\* Two subcircuits that are replaced by the same entry over other parents, the
\* second in an iteration after the first or in the same.
TwoReplaced == FileOf(4, <<<<"AND", <<1, 2>>>>, <<"AND", <<1, 3>>>>, <<"OR", <<5, 6>>>>,
                           <<"AND", <<2, 4>>>>, <<"AND", <<1, 4>>>>, <<"OR", <<8, 9>>>>>>, <<7, 10>>)

\* Every circuit of three gates of some kinds, not yet simplified.
Unsimplified(ni, kinds, outs) ==
    {writeBenchFile(c, NaturalNames(c)) : c \in OrderedCircuits(ni, 3, kinds, outs)}

\* Replacements that make the circuit grow (see MCSubcircuitMinimization).
Growing == FileOf(3, <<<<"AND", <<1, 2>>>>, <<"XOR", <<1, 4>>>>, <<"OR", <<3, 5>>>>,
                       <<"NXOR", <<2, 6>>>>, <<"NXOR", <<1, 7>>>>, <<"NXOR", <<5, 8>>>>>>, <<9, 8, 7>>)

\* Gates of three operands, of the other basis or none, outputs without inputs,
\* constants, and text that means no circuit.
OneGate(type, operands) == FileOf(3, <<<<type, operands>>>>, <<4>>)

Particular ==
    {OneGate(t, <<1, 2, 3>>) : t \in {"AND", "XOR", "MUX"}}
    \cup {OneGate(t, <<1, 2>>) : t \in {"AND", "OR", "NXOR"}}
    \cup {OneGate("IFF", <<2>>), OneGate("NXOR", <<1, 1>>), OneGate("CONST_FALSE", <<>>),
          FileOf(1, <<>>, <<1>>), <<>>, <<Unreadable>>,
          <<OutputLine(<<"a", 0>>), GateLine(<<"a", 0>>, "NOT", <<<<"b", 0>>>>)>>}

Fine == OneGate("AND", <<1, 2>>)

BenchTasks ==
    {Alone(TwoReplaced), Alone(Growing)} \cup {Both(Fine, f) : f \in Particular}
    \cup {Alone(f) : f \in Unsimplified(2, {<<"NOT", 1>>, <<"OR", 2>>, <<"NXOR", 2>>}, {<<5, 3>>})}

AigTasks ==
    {Twice(Improvable)} \cup {Both(Fine, f) : f \in Particular}
    \cup {Alone(f) : f \in Unsimplified(2, {<<"NOT", 1>>, <<"AND", 2>>}, {<<5, 4>>})}

SmallTasks == [basis : {"BENCH"}, files : BenchTasks] \cup [basis : {"AIG"}, files : AigTasks]

\* An output that is always true.
ConstantTasks ==
    {[basis |-> "AIG", files |-> Alone(FileOf(2, <<<<"NOT", <<1>>>>, <<"AND", <<1, 3>>>>,
                                                   <<"NOT", <<4>>>>, <<"AND", <<1, 2>>>>>>, <<5, 6>>))]}

LinesDB(b) == IF b = "AIG" THEN AigLines ELSE BenchLines \cup GrowthDB
==============================================================================
