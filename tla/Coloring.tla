------------------------------ MODULE Coloring -------------------------------
(****************************************************************************)
(* The constructors of TwoColoring and ThreeColoring: two passes over the   *)
(* gates, operands first, that paint one gate at a time                     *)
(* (src/src/simplification/utils/two_coloring.hpp, three_coloring.hpp).     *)
(* What they have painted in the end, TwoColoringOf and ThreeColoringOf, is *)
(* what SubcircuitMinimization works on.                                    *)
(****************************************************************************)
EXTENDS ThreeColoring, Integers, Sequences, SequencesExt

CONSTANT Circuits     \* the circuits painted

VARIABLES
    circuit,
    pc,         \* "two", "three", "done", or "aborted"
    todo,       \* gates still to visit, the next one first
    two,        \* the two-coloring
    three       \* colors, gateColors and negationUsers

vars == <<circuit, pc, todo, two, three>>

Init ==
    /\ circuit \in Circuits
    /\ pc = "two"
    /\ todo = ReversedSort(circuit)
    /\ two = NoTwoColoring(circuit)
    /\ three = NoThreeColoring(circuit)

PaintNextTwo ==
    /\ pc = "two" /\ todo # <<>>
    /\ Len(Operands(circuit, Head(todo))) <= 2
    /\ two' = PaintTwo(circuit, two, Head(todo))
    /\ todo' = Tail(todo)
    /\ UNCHANGED <<circuit, pc, three>>

(* "got circuit which gate has more than two operands".                     *)
Abort ==
    /\ pc = "two" /\ todo # <<>>
    /\ Len(Operands(circuit, Head(todo))) > 2
    /\ pc' = "aborted"
    /\ UNCHANGED <<circuit, todo, two, three>>

TwoDone ==
    /\ pc = "two" /\ todo = <<>>
    /\ pc' = "three"
    /\ todo' = ReversedSort(circuit)
    /\ UNCHANGED <<circuit, two, three>>

PaintNextThree ==
    /\ pc = "three" /\ todo # <<>>
    /\ three' = PaintThree(circuit, two, three, Head(todo))
    /\ todo' = Tail(todo)
    /\ UNCHANGED <<circuit, pc, two>>

ThreeDone ==
    /\ pc = "three" /\ todo = <<>>
    /\ pc' = "done"
    /\ UNCHANGED <<circuit, todo, two, three>>

Next == PaintNextTwo \/ Abort \/ TwoDone \/ PaintNextThree \/ ThreeDone

Spec == Init /\ [][Next]_vars /\ WF_vars(Next)

------------------------------------------------------------------------------
(* "contains up to 2 colors for each gate", and no color twice.             *)
UpToTwoColors ==
    \A g \in GateIds(circuit) :
        Len(three.gateColors[g]) <= 2 /\ IsInjective(three.gateColors[g])

(* The subcircuit of a color is a circuit over exactly its parents: "in     *)
(* topological order", every gate once, behind its operands and needing all *)
(* three parents, the parents themselves not among them.  Otherwise a truth *)
(* table is read before it is computed, or is one of fewer inputs.          *)
SubcircuitsAreClosed ==
    pc = "done" =>
        \A i \in DOMAIN three.colors :
            LET p     == ToSet(three.colors[i].parents)
                gates == GatesByColor(two, three, three.colors[i])
            IN  /\ IsInjective(gates)
                /\ ToSet(gates) \cap p = {}
                /\ \A k \in DOMAIN gates :
                      OperandSet(circuit, gates[k]) \subseteq
                          p \cup {gates[j] : j \in 1 .. k - 1}
                /\ \A g \in ToSet(three.colors[i].gates) : p \subseteq Cone(circuit, {g})
==============================================================================
