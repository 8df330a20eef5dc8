---------------------------- MODULE CircuitSets ------------------------------
(****************************************************************************)
(* Finite sets of circuits for the model-checking modules: every circuit    *)
(* with a given number of inputs and of operator gates over a given set of  *)
(* gate shapes.                                                             *)
(****************************************************************************)
EXTENDS Circuits
LOCAL INSTANCE Integers
LOCAL INSTANCE Sequences
LOCAL INSTANCE FiniteSets
LOCAL INSTANCE SequencesExt

(* The gates of a type over operands drawn from ids: for a symmetric type   *)
(* the operands are sorted, as the constructor of GateInfo leaves them.     *)
GatesOver(type, arity, ids) ==
    {[type |-> type, operands |-> ops] :
        ops \in {o \in [1 .. arity -> ids] :
                    SymmetricOperatorQ(type) =>
                        \A i, j \in 1 .. arity : i < j => o[i] <= o[j]}}

(* shapes is a set of pairs <<type, arity>>.                                *)
OperatorGates(shapes, ids) ==
    UNION {GatesOver(s[1], s[2], ids) : s \in shapes}

InputInfo == [type |-> "INPUT", operands |-> <<>>]

(* Circuits with inputs 1..ni and ng operator gates behind them, in any     *)
(* order that is free of cycles: a user may have a smaller id than its      *)
(* operands, as in a .bench file that mentions a gate before defining it.   *)
CircuitsOf(ni, ng, shapes, outputs) ==
    {c \in [gates : {[g \in 1 .. ni |-> InputInfo] \o [g \in 1 .. ng |-> ops[g]] :
                        ops \in [1 .. ng -> OperatorGates(shapes, 1 .. ni + ng)]},
            outputs : outputs] : IsAcyclic(c)}

(* The same with every operator gate behind its operands.                   *)
OrderedCircuits(ni, ng, shapes, outputs) ==
    [gates : FoldLeft(LAMBDA circuits, g : {Append(gates, gate) :
                          gates \in circuits, gate \in OperatorGates(shapes, 1 .. g - 1)},
                      {[g \in 1 .. ni |-> InputInfo]},
                      [k \in 1 .. ng |-> ni + k]),
     outputs : outputs]

(* Circuits as the cleaners leave them, of unary and binary gates: no gate  *)
(* over the same operand twice, no two equal gates, no negation of a        *)
(* negation, and no gate that the outputs do not need.                      *)
GatesBehind(unary, binary, n) ==
    {[type |-> t, operands |-> <<i>>] : t \in unary, i \in 1 .. n}
    \cup UNION {{[type |-> t, operands |-> <<i, j>>] : t \in binary, i \in 1 .. j - 1} : j \in 1 .. n}

IsTidy(c) ==
    /\ \A g \in GateIds(c), h \in GateIds(c) :
          g < h => Type(c, g) = "INPUT" \/ c.gates[g] # c.gates[h]
    /\ \A g \in GateIds(c) : Type(c, g) = "NOT" => Type(c, Operands(c, g)[1]) # "NOT"
    /\ \A g \in GateIds(c) :
          \/ Type(c, g) = "INPUT" \/ g \in OutputSet(c)
          \/ \E u \in g + 1 .. Len(c.gates) : Contains(Operands(c, u), g)

TidyCircuits(ni, ng, unary, binary, outputs) ==
    {c \in [gates : FoldLeft(LAMBDA circuits, g : {Append(gates, gate) :
                                gates \in circuits, gate \in GatesBehind(unary, binary, g - 1)},
                            {[g \in 1 .. ni |-> InputInfo]},
                            [k \in 1 .. ng |-> ni + k]),
            outputs : outputs] : IsTidy(c)}
==============================================================================
