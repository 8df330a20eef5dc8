-------------------------- MODULE MCColoring -----------------------------
EXTENDS Coloring, CircuitSets

\* As the cleaners that run before leave a circuit (FitsColoring of Pipeline).
Clean(circuits) == {c \in circuits : HasPlainNegations(c)}

\* Four gates over three inputs make up all the patterns of colors; NOT gates
\* and gates with an operand twice are in the way, a MUX is refused.  Half of
\* what the first gate may be over is enough: inputs differ in nothing but ids.
SmallCircuits ==
    {c \in Clean(OrderedCircuits(3, 4, {<<"AND", 2>>}, {<<7>>})) :
        Operands(c, 4) \in {<<1, 2>>, <<2, 3>>, <<2, 2>>}}
    \cup Clean(OrderedCircuits(2, 4, {<<"NOT", 1>>, <<"OR", 2>>}, {<<6>>}))
    \cup OrderedCircuits(3, 1, {<<"MUX", 3>>}, {<<4>>})
==============================================================================
