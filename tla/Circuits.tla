------------------------------ MODULE Circuits -------------------------------
(****************************************************************************)
(* Boolean circuits as the program stores them: a vector of gates, each     *)
(* with a type and operands (src/src/structures/circuit/gate_info.hpp), and *)
(* a vector of output gates (dag.hpp).  A circuit is a record               *)
(*     [gates |-> sequence of GateInfo, outputs |-> sequence of gate ids];  *)
(* gate id i of the code is i + 1 here, a position in `gates`.              *)
(****************************************************************************)
EXTENDS Operators, FiniteSets
LOCAL INSTANCE Integers
LOCAL INSTANCE Sequences

(* std::sort, of numbers: the place of an element is behind those that are  *)
(* less.                                                                    *)
Precedes(s, i, j) == s[i] < s[j] \/ (s[i] = s[j] /\ i < j)

Sorted(s) ==
    LET place == [i \in DOMAIN s |-> Cardinality({j \in DOMAIN s : Precedes(s, j, i)}) + 1]
    IN  [p \in DOMAIN s |-> s[CHOOSE i \in DOMAIN s : place[i] = p]]

(* A loop over s that appends the elements at the places `kept`.            *)
Selected(s, kept) ==
    LET selected[k \in 0 .. Len(s)] ==
            IF k = 0 THEN <<>>
            ELSE IF k \in kept THEN Append(selected[k - 1], s[k]) ELSE selected[k - 1]
    IN  selected[Len(s)]

(* The GateInfo constructors sort the operands of every symmetric gate.     *)
GateInfo(type, operands) ==
    [type     |-> type,
     operands |-> IF SymmetricOperatorQ(type) THEN Sorted(operands)
                                              ELSE operands]

(* A default-constructed GateInfo, as in GateInfoContainer(n).              *)
NoGateInfo == [type |-> "UNDEFINED", operands |-> <<>>]

GateIds(c)     == 1 .. Len(c.gates)
Type(c, g)     == c.gates[g].type
Operands(c, g) == c.gates[g].operands
OperandSet(c, g) == {Operands(c, g)[i] : i \in DOMAIN Operands(c, g)}
InputGates(c)  == {g \in GateIds(c) : Type(c, g) = "INPUT"}
OutputSet(c)   == {c.outputs[k] : k \in DOMAIN c.outputs}

(* calculateGateUsers_: the users of g.  (The code has them in a vector, by *)
(* ascending id and as often as they use g, which makes no difference.)     *)
GateUsers(c, g) == {u \in GateIds(c) : g \in OperandSet(c, u)}

HasUsers(c, g) == \E u \in GateIds(c) : g \in OperandSet(c, u)

------------------------------------------------------------------------------
(* Reachability along operands: the gates that the gates of S are computed  *)
(* from, S included.                                                        *)
Cone(c, S) ==
    LET step[k \in 0 .. Len(c.gates)] ==
            IF k = 0 THEN S
            ELSE LET reached == step[k - 1]
                 IN  reached \cup UNION {OperandSet(c, g) : g \in reached}
    IN  step[Len(c.gates)]

(* A numbering of the gates that grows from operands to users shows that    *)
(* the circuit has no cycle; the size of a gate's cone is one if any is.    *)
IsRanking(c, rank) ==
    /\ \A g \in GateIds(c) : rank[g] \in Nat
    /\ \A g \in GateIds(c) : \A o \in OperandSet(c, g) : rank[o] < rank[g]

ConeSizes(c) == [g \in GateIds(c) |-> Cardinality(Cone(c, {g}))]
IsAcyclic(c) == IsRanking(c, ConeSizes(c))

(* What every handler expects of the circuit it is given: operands and      *)
(* outputs are gates of the circuit and arcs form no cycle (dag.hpp,        *)
(* icircuit.hpp), inputs have no operands, and gates that are evaluated the *)
(* arity that their evaluation asserts.                                     *)
GateInfos(n) == [type : GateTypes, operands : Seq(1 .. n)]

IdsInRange(c) ==
    /\ c.gates \in Seq(GateInfos(Len(c.gates)))
    /\ c.outputs \in Seq(GateIds(c))

WellFormed(c) ==
    /\ IdsInRange(c)
    /\ IsAcyclic(c)
    /\ \A g \in InputGates(c) : Operands(c, g) = <<>>
    /\ \A g \in Cone(c, OutputSet(c)) :
          ArityOk(Type(c, g), Len(Operands(c, g)))

(* What ThreeColoring takes for granted, remembering one NOT gate for each  *)
(* operand and looking past one: a gate has one negation, and no gate uses  *)
(* the negation of a negation.                                              *)
IsNegation(c, g) == Type(c, g) = "NOT"

HasPlainNegations(c) ==
    /\ \A g, h \in GateIds(c) :
          IsNegation(c, g) /\ IsNegation(c, h) /\ Operands(c, g) = Operands(c, h) => g = h
    /\ \A g \in GateIds(c) : \A o \in OperandSet(c, g) :
          IsNegation(c, o) => ~IsNegation(c, Operands(c, o)[1])

------------------------------------------------------------------------------
(* The state that an input assignment gives to a gate or implies for it.    *)
StatesOf(c, input_asmt) ==
    LET state[g \in GateIds(c)] ==
            IF Type(c, g) = "INPUT" \/ input_asmt[g] # StUndef
            THEN input_asmt[g]
            ELSE Operator(Type(c, g),
                          [i \in DOMAIN Operands(c, g) |-> state[Operands(c, g)[i]]])
    IN  state

(* The circuit in which a gate whose state is given has no operands.        *)
CutAtGiven(c, input_asmt) ==
    [gates |-> [g \in GateIds(c) |->
        IF Type(c, g) = "INPUT" \/ input_asmt[g] # StUndef THEN NoGateInfo ELSE c.gates[g]]]

(* What evaluateCircuit returns for an input assignment: the states of the  *)
(* gates reachable from the outputs without passing a gate whose state is   *)
(* given, UNDEFINED for the rest.  The stack machine that computes it is    *)
(* module Evaluation.                                                       *)
EvaluateCircuit(c, input_asmt) ==
    LET live  == Cone(CutAtGiven(c, input_asmt), OutputSet(c))
        state == StatesOf(c, input_asmt)
    IN  [g \in GateIds(c) |-> IF g \in live THEN state[g] ELSE StUndef]

NoAssignment(c) == [g \in GateIds(c) |-> StUndef]

OutputStates(c, input_asmt) ==
    LET asmt == EvaluateCircuit(c, input_asmt)
    IN  [k \in DOMAIN c.outputs |-> asmt[c.outputs[k]]]

------------------------------------------------------------------------------
(* Gates are known to the user by name: `names` is the encoder, the names   *)
(* in the order of the gate ids.                                            *)
(* Stands for the distinct names a circuit comes with.                      *)
NaturalNames(c) == [g \in GateIds(c) |-> <<"gate", g>>]

(* The encoder and the circuit agree on the ids: one name for each gate and *)
(* no name for two.                                                         *)
NamesGates(c, names) ==
    /\ Len(names) = Len(c.gates)
    /\ \A g, h \in GateIds(c) : names[g] = names[h] => g = h

InputNames(c, names) == {names[g] : g \in InputGates(c)}

Assignment(c, names, values) ==
    [g \in GateIds(c) |->
        IF Type(c, g) = "INPUT" THEN values[names[g]] ELSE StUndef]

(* The second circuit computes the function of the first: the same outputs  *)
(* in the same order for every assignment to the inputs, known by name.     *)
SameFunction(c1, names1, c2, names2) ==
    /\ InputNames(c2, names2) \subseteq InputNames(c1, names1)
    /\ \A values \in [InputNames(c1, names1) -> {StFalse, StTrue}] :
          OutputStates(c1, Assignment(c1, names1, values)) =
          OutputStates(c2, Assignment(c2, names2, values))
==============================================================================
