---------------------------- MODULE TwoColoring ------------------------------
(****************************************************************************)
(* The subcircuits of two inputs                                            *)
(* (src/src/simplification/utils/two_coloring.hpp).  A color is a pair of   *)
(* gates, its parents, and the gates computed from them; every gate has one *)
(* color or none.  Gates are painted one at a time, operands first.         *)
(****************************************************************************)
EXTENDS TopSort
LOCAL INSTANCE Integers
LOCAL INSTANCE Sequences
LOCAL INSTANCE SequencesExt

NoColor == 0      \* stands for SIZE_MAX

\* A color of two or three parents, kept ascending.
NewColor(parents) == [parents |-> parents, gates |-> <<>>]

(* parentsToColor: the color with these parents.                            *)
ColorOf(colors, parents) ==
    SelectInSeq(colors, LAMBDA color : color.parents = parents)

(* addColor, unless the map has the parents already.                        *)
AddColor(colors, parents) ==
    IF ColorOf(colors, parents) = NoColor THEN Append(colors, NewColor(parents)) ELSE colors

AddGate(colors, color, g) ==
    [colors EXCEPT ![color].gates = Append(@, g)]

HasParent(color, g) == Contains(color.parents, g)

------------------------------------------------------------------------------
(* A coloring under construction.                                           *)
NoTwoColoring(c) == [colors |-> <<>>, gateColor |-> [g \in GateIds(c) |-> NoColor]]

paintGate(two, g, color) ==
    [colors    |-> AddGate(two.colors, color, g),
     gateColor |-> [two.gateColor EXCEPT ![g] = color]]

IsUnary(c, g) == Len(Operands(c, g)) = 1

(* The operand behind a chain of unary gates.                               *)
Child(c, g) ==
    LET child[h \in GateIds(c)] == IF IsUnary(c, h) THEN child[Operands(c, h)[1]] ELSE h
    IN  child[g]

(* One gate of the constructor's loop.                                      *)
PaintUnary(c, two, g) ==
    LET color == two.gateColor[Operands(c, g)[1]]
    IN  IF color = NoColor THEN two ELSE paintGate(two, g, color)

PaintBinary(c, two, g) ==
    LET child_1 == Child(c, Operands(c, g)[1])
        child_2 == Child(c, Operands(c, g)[2])
        color_1 == two.gateColor[child_1]
        color_2 == two.gateColor[child_2]
        isParentOfColor(child, color) == color # NoColor /\ HasParent(two.colors[color], child)
        children == Sorted(<<child_1, child_2>>)
        colors   == AddColor(two.colors, children)
    IN  CASE child_1 = child_2 /\ color_1 = NoColor ->
                two
          [] \/ color_1 # NoColor /\ color_1 = color_2      \* also for equal children
             \/ isParentOfColor(child_2, color_1) ->
                paintGate(two, g, color_1)
          [] /\ child_1 # child_2 /\ color_1 # color_2
             /\ ~isParentOfColor(child_2, color_1)
             /\ isParentOfColor(child_1, color_2) ->
                paintGate(two, g, color_2)
          [] OTHER ->
                paintGate([two EXCEPT !.colors = colors], g, ColorOf(colors, children))

PaintTwo(c, two, g) ==
    CASE Operands(c, g) = <<>> -> two
      [] IsUnary(c, g)         -> PaintUnary(c, two, g)
      [] OTHER                 -> PaintBinary(c, two, g)

(* The coloring of the whole circuit.                                       *)
TwoColoringOf(c) ==
    FoldLeft(LAMBDA two, g : PaintTwo(c, two, g), NoTwoColoring(c), ReversedSort(c))
==============================================================================
