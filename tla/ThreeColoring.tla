--------------------------- MODULE ThreeColoring -----------------------------
(****************************************************************************)
(* The subcircuits of three inputs                                          *)
(* (src/src/simplification/utils/three_coloring.hpp): a gate whose two      *)
(* parents by TwoColoring have parents or colors in common is painted in    *)
(* one or two colors of three parents.  A color is known by its parents, so *)
(* that gateColors holds parents instead of numbers.                        *)
(****************************************************************************)
EXTENDS TwoColoring
LOCAL INSTANCE Integers
LOCAL INSTANCE Sequences
LOCAL INSTANCE SequencesExt

NoGate == 0     \* stands for SIZE_MAX

NoThreeColoring(c) ==
    [colors        |-> <<>>,
     gateColors    |-> [g \in GateIds(c) |-> <<>>],
     negationUsers |-> [g \in GateIds(c) |-> NoGate]]

(* paintGate, and addColor before it where the color is new.                *)
PaintIn(parents, tc, g) ==
    LET colors == AddColor(tc.colors, parents)
    IN  [tc EXCEPT !.colors = AddGate(colors, ColorOf(colors, parents), g),
                   !.gateColors[g] = Append(@, parents)]

PaintInAll(targets, tc, g) ==
    FoldLeft(LAMBDA t, parents : PaintIn(parents, t, g), tc, targets)

\* Mutant of PaintUnaryThree: negations are not remembered.
PaintUnaryOnly(c, tc, g) == PaintInAll(tc.gateColors[Operands(c, g)[1]], tc, g)

(* Unary gates have the colors of their operand; the last NOT of an operand *)
(* is remembered.                                                           *)
PaintUnaryThree(c, tc, g) ==
    LET operand == Operands(c, g)[1]
        painted == PaintInAll(tc.gateColors[operand], tc, g)
    IN  IF Type(c, g) = "NOT" THEN [painted EXCEPT !.negationUsers[operand] = g]
                              ELSE painted

\* One color of a sequence, as a sequence that is empty for none.
LastOf(s)  == IF s = <<>> THEN <<>> ELSE <<Last(s)>>
FirstOf(s) == IF s = <<>> THEN <<>> ELSE <<Head(s)>>
Has(parents, g) == Contains(parents, g)

(* The colors of a binary gate with the parents child_1 and child_2.        *)
Targets(tw, tc, child_1, child_2) ==
    LET colors_1 == tc.gateColors[child_1]
        colors_2 == tc.gateColors[child_2]
        two_1    == tw.gateColor[child_1]
        two_2    == tw.gateColor[child_2]
        parents(color) == tw.colors[color].parents
        \* Pairs of colors of the children, as the nested loops find them.
        common == FlattenSeq([i \in DOMAIN colors_1 |->
                      SelectSeq(colors_2, LAMBDA second : second = colors_1[i])])
        type_13 == LastOf(FlattenSeq([i \in DOMAIN colors_1 |->
                      SelectSeq(colors_2, LAMBDA second :
                                    second # colors_1[i] /\ Has(second, child_1))]))
        type_31 == LastOf(SelectSeq(colors_1, LAMBDA first : Has(first, child_2)))
        \* A color of one child with both parents of the other child.
        Both(colors, color) ==
            FirstOf(SelectSeq(colors, LAMBDA col : \A i \in 1 .. 2 : Has(col, parents(color)[i])))
        type_23 == IF two_1 = NoColor THEN <<>> ELSE Both(colors_2, two_1)
        type_32 == IF two_2 = NoColor THEN <<>> ELSE Both(colors_1, two_2)
        \* The parents of one child and the other child.
        Join(color, child) == Sorted(Append(parents(color), child))
        OrElse(found, otherwise) == IF found # <<>> THEN found ELSE otherwise
    IN  CASE Len(common) = 2 -> common
          [] Len(common) = 1 -> common \o OrElse(type_13, type_31)
          [] Len(common) \notin {1, 2} /\ type_13 # <<>> ->
                type_13 \o IF two_1 = NoColor THEN <<>>
                           ELSE OrElse(type_23, <<Join(two_1, child_2)>>)
          [] Len(common) \notin {1, 2} /\ type_13 = <<>> /\ type_31 # <<>> ->
                type_31 \o IF two_2 = NoColor THEN <<>>
                           ELSE OrElse(type_32, <<Join(two_2, child_1)>>)
          [] OTHER ->
                IF type_32 \o type_23 # <<>> THEN FirstOf(type_32 \o type_23)
                ELSE IF two_2 = NoColor THEN <<Join(two_1, child_2)>>
                ELSE IF two_1 = NoColor THEN <<Join(two_2, child_1)>>
                ELSE LET p == parents(two_1)
                         q == parents(two_2)
                     IN  IF Has(q, p[1]) THEN <<Sorted(<<p[2]>> \o q)>>
                         ELSE IF Has(q, p[2]) THEN <<Sorted(<<p[1]>> \o q)>>
                         ELSE <<Join(two_1, child_2), Join(two_2, child_1)>>

(* A gate without a two-color, or whose parents have none, is not painted.  *)
PaintBinaryThree(tw, tc, g) ==
    IF tw.gateColor[g] = NoColor THEN tc
    ELSE LET p == tw.colors[tw.gateColor[g]].parents
         IN  IF tw.gateColor[p[1]] = NoColor /\ tw.gateColor[p[2]] = NoColor THEN tc
             ELSE PaintInAll(Targets(tw, tc, p[1], p[2]), tc, g)

\* Mutant of PaintThree: a unary gate falls through to the binary ones.
PaintThreeThrough(c, tw, tc, g) ==
    CASE Operands(c, g) = <<>> -> tc
      [] IsUnary(c, g)         -> PaintBinaryThree(tw, PaintUnaryThree(c, tc, g), g)
      [] OTHER                 -> PaintBinaryThree(tw, tc, g)

PaintThree(c, tw, tc, g) ==
    CASE Operands(c, g) = <<>> -> tc
      [] IsUnary(c, g)         -> PaintUnaryThree(c, tc, g)
      [] OTHER                 -> PaintBinaryThree(tw, tc, g)

ThreeColoringOf(c) ==
    LET tw == TwoColoringOf(c)
    IN  FoldLeft(LAMBDA tc, g : PaintThree(c, tw, tc, g), NoThreeColoring(c),
                 ReversedSort(c))

------------------------------------------------------------------------------
(* The subcircuit of a color as subcircuit minimization collects it: the    *)
(* negations of the parents, the gates of the two-colors over two of them,  *)
(* and the gates of the color.                                              *)
Pairs(p) == <<<<p[1], p[2]>>, <<p[1], p[3]>>, <<p[2], p[3]>>>>

GatesByColor(tw, tc, color) ==
    LET p == color.parents
        negations == SelectSeq([i \in 1 .. 3 |-> tc.negationUsers[p[i]]], LAMBDA g : g # NoGate)
        pairGates(pair) == IF ColorOf(tw.colors, pair) = NoColor THEN <<>>
                           ELSE tw.colors[ColorOf(tw.colors, pair)].gates
    IN  negations \o FlattenSeq([i \in 1 .. 3 |-> pairGates(Pairs(p)[i])]) \o color.gates
==============================================================================
