------------------------- MODULE MCDepthFirstSearch --------------------------
EXTENDS DepthFirstSearch, CircuitSets

\* One input, three gates of one or two operands in any order of ids, one or
\* two outputs: shared operands, gates used twice by one user, gates that no
\* output needs, several sources.
SmallCircuits ==
    CircuitsOf(1, 3, {<<"NOT", 1>>, <<"AND", 2>>}, {<<2>>, <<4, 3>>})
==============================================================================
