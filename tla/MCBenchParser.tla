---------------------------- MODULE MCBenchParser ----------------------------
EXTENDS BenchParser, SequencesExt

Name(k) == <<"gate", k>>
a == Name(1)
b == Name(2)
c == Name(3)
d == Name(4)

\* Every order of these lines.
InAnyOrder(setsOfLines) == UNION {SetToSeqs(set) : set \in setsOfLines}

\* An input, an output, and what defines two more names: all kinds of lines,
\* names that are not defined, defined twice or from themselves, an input
\* that is a gate too, an output that is an input, the empty name.
LinesForC ==
    {GateLine(c, "NOT", <<a>>), GateLine(c, "BUFF", <<a>>), GateLine(c, "CONST", <<Zero>>),
     GateLine(c, "CONST", <<a>>), GateLine(c, "CONST_TRUE", <<>>), GateLine(c, "vdd", <<>>),
     GateLine(c, "BUF", <<a>>), GateLine(c, "OR", <<a, b>>), InputLine(c), Comment, Unreadable}

LinesForD ==
    {GateLine(d, "NAND", <<a, c>>), GateLine(d, "MUX", <<c, a, a>>), GateLine(d, "XOR", <<c, d>>),
     GateLine(c, "NXOR", <<a, b>>), OutputLine(a)}

Small == {{InputLine(a), OutputLine(d), lineC, lineD} : lineC \in LinesForC, lineD \in LinesForD}

Large ==
    {{InputLine(a), InputLine(b), GateLine(c, "NOT", <<a>>), GateLine(d, "MUX", <<b, c, a>>),
      OutputLine(d), OutputLine(c)},
     {InputLine(a), GateLine(c, "NOT", <<a>>), GateLine(c, "IFF", <<a>>),
      GateLine(d, "NOR", <<a, c>>), OutputLine(d)},
     {InputLine(a), GateLine(a, "NXOR", <<b, c>>), InputLine(b), InputLine(c), OutputLine(a)}}

SmallFiles == InAnyOrder(Small \cup Large)

NextSmallFiles ==
    {<<OutputLine(d), GateLine(d, "NAND", <<a, c>>), InputLine(a), GateLine(c, "OR", <<a, b>>)>>,
     <<GateLine(c, "NXOR", <<a, b>>), OutputLine(d), InputLine(a), Comment>>}
==============================================================================
