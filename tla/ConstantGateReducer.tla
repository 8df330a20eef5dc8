------------------------- MODULE ConstantGateReducer -------------------------
(****************************************************************************)
(* ConstantGateReducer_: evaluates the circuit with no input assigned,      *)
(* replaces the gates whose state that determines by constants and drops    *)
(* them from the operands of the others                                     *)
(* (src/src/simplification/constant_gate_reducer.hpp).                      *)
(****************************************************************************)
EXTENDS GateEncoder, TopSort, Integers, Sequences

CONSTANTS
    Circuits,         \* the circuits transformed
    UniqueIds         \* what getUniqueId_ can draw

VARIABLES
    circuit, names,         \* what transform is given
    pc,                     \* "ready", "gate", "output", "done", "aborted"
    new_gate_name_prefix,
    todo,                   \* gates still to visit, the next one first
    encoder,                \* changed in place and returned
    gate_info,
    old_to_new_gateId,      \* NoGate stands for SIZE_MAX
    result_assignment,
    new_output_gates

vars == <<circuit, names, pc, new_gate_name_prefix, todo, encoder, gate_info,
          old_to_new_gateId, result_assignment, new_output_gates>>

NoGate == 0

\* A const map of the code; every other type has no entry.
xor_inverse_map == [XOR |-> "NXOR", NXOR |-> "XOR"]

Start ==
    /\ pc = "ready" /\ pc' = "gate"
    /\ new_gate_name_prefix' = UniquePrefix(UniqueIds, names)
    /\ \E gate_sorting \in {DFSTopSort(circuit)} : todo' = Backwards(gate_sorting)
    /\ encoder' = names
    /\ gate_info' = [g \in GateIds(circuit) |-> NoGateInfo]
    /\ old_to_new_gateId' = [g \in GateIds(circuit) |-> NoGate]
    /\ result_assignment' = EvaluateCircuit(circuit, NoAssignment(circuit))
    /\ new_output_gates' = <<>>
    /\ UNCHANGED <<circuit, names>>

Init ==
    /\ circuit \in Circuits /\ names = NaturalNames(circuit)
    /\ pc = "ready"
    /\ new_gate_name_prefix = ""
    /\ todo = <<>>
    /\ encoder = NoEncoder
    /\ gate_info = <<>>
    /\ old_to_new_gateId = <<>>
    /\ result_assignment = <<>>
    /\ new_output_gates = <<>>

gate_id == Head(todo)

getLink_(g) == IF old_to_new_gateId[g] # NoGate THEN old_to_new_gateId[g] ELSE g

Links == [i \in DOMAIN Operands(circuit, gate_id) |-> getLink_(Operands(circuit, gate_id)[i])]

\* Only a gate that is itself undefined, or a constant, is rebuilt.
IsRebuilt(g) ==
    result_assignment[g] = StUndef \/ Type(circuit, g) \in {"CONST_TRUE", "CONST_FALSE"}

(* Of a symmetric gate the operands of unknown state stay; the operands of  *)
(* a MUX all do.                                                            *)
operands ==
    IF SymmetricOperatorQ(Type(circuit, gate_id))
    THEN Selected(Links, {i \in DOMAIN Links : result_assignment[Links[i]] = StUndef})
    ELSE Links

(* XOR(TRUE, y, z) = NXOR(y, z).                                            *)
gate_type ==
    IF /\ Type(circuit, gate_id) \in DOMAIN xor_inverse_map
       /\ Cardinality({i \in DOMAIN Links : result_assignment[Links[i]] = StTrue}) % 2 = 1
    THEN xor_inverse_map[Type(circuit, gate_id)]
    ELSE Type(circuit, gate_id)

Visit(g) == pc = "gate" /\ todo # <<>> /\ g = gate_id /\ todo' = Tail(todo)

LinksTo(gate) == old_to_new_gateId' = [old_to_new_gateId EXCEPT ![gate_id] = gate]

Rebuilt == [gate_info EXCEPT ![gate_id] = GateInfo(gate_type, operands)]

(* Users of a gate left with one operand will refer to that operand.        *)
LinkToOperand ==
    /\ Visit(gate_id) /\ IsRebuilt(gate_id)
    /\ Len(operands) = 1 /\ gate_type \in {"AND", "OR", "XOR", "IFF"}
    /\ gate_info' = Rebuilt
    /\ LinksTo(operands[1])
    /\ UNCHANGED <<circuit, names, pc, new_gate_name_prefix, encoder,
                   result_assignment, new_output_gates>>

\* Mutant of NewName: numbered by the size of the circuit as it came.
SameName == NewGateName(new_gate_name_prefix, Len(circuit.gates) + 1)

NewName == NewGateName(new_gate_name_prefix, Len(gate_info) + 1)

(* Or to its negation, a new gate.                                          *)
LinkToNegation ==
    /\ Visit(gate_id) /\ IsRebuilt(gate_id)
    /\ Len(operands) = 1 /\ gate_type \in {"NAND", "NOR", "NXOR"}
    /\ encoder' = EncodeGate(encoder, NewName)
    /\ gate_info' = Append(Rebuilt, GateInfo("NOT", <<operands[1]>>))
    /\ result_assignment' = Append(result_assignment, StUndef)
    /\ old_to_new_gateId' =
          Append([old_to_new_gateId EXCEPT ![gate_id] = IdOf(encoder, NewName)],
                 IdOf(encoder, NewName))
    /\ UNCHANGED <<circuit, names, pc, new_gate_name_prefix, new_output_gates>>

(* A MUX whose selector is known is its chosen operand.                     *)
LinkMux ==
    /\ Visit(gate_id) /\ IsRebuilt(gate_id) /\ gate_type = "MUX"
    /\ gate_info' = Rebuilt
    /\ LinksTo(CASE result_assignment[Links[1]] = StTrue  -> Links[3]
                 [] result_assignment[Links[1]] = StFalse -> Links[2]
                 [] OTHER                                 -> gate_id)
    /\ UNCHANGED <<circuit, names, pc, new_gate_name_prefix, encoder,
                   result_assignment, new_output_gates>>

KeepGate ==
    /\ Visit(gate_id) /\ IsRebuilt(gate_id) /\ gate_type # "MUX"
    /\ ~ /\ Len(operands) = 1
         /\ gate_type \in {"AND", "OR", "XOR", "IFF", "NAND", "NOR", "NXOR"}
    /\ gate_info' = Rebuilt
    /\ LinksTo(gate_id)
    /\ UNCHANGED <<circuit, names, pc, new_gate_name_prefix, encoder,
                   result_assignment, new_output_gates>>

(* A gate of known state becomes a constant; it gets no link.               *)
ReplaceByConstant ==
    /\ Visit(gate_id) /\ ~IsRebuilt(gate_id)
    /\ gate_info' = [gate_info EXCEPT ![gate_id] =
          GateInfo(IF result_assignment[gate_id] = StTrue THEN "CONST_TRUE" ELSE "CONST_FALSE", <<>>)]
    /\ UNCHANGED <<circuit, names, pc, new_gate_name_prefix, encoder,
                   old_to_new_gateId, result_assignment, new_output_gates>>

GatesDone ==
    /\ pc = "gate" /\ todo = <<>>
    /\ pc' = "output"
    /\ todo' = circuit.outputs
    /\ UNCHANGED <<circuit, names, new_gate_name_prefix, encoder, gate_info,
                   old_to_new_gateId, result_assignment, new_output_gates>>

------------------------------------------------------------------------------
(* Outputs.                                                                 *)

AtOutput == pc = "output" /\ todo # <<>>
output_gate == Head(todo)

MoveOutput ==
    /\ AtOutput /\ result_assignment[output_gate] = StUndef
    /\ new_output_gates' = Append(new_output_gates, old_to_new_gateId[output_gate])
    /\ todo' = Tail(todo)
    /\ UNCHANGED <<circuit, names, pc, new_gate_name_prefix, encoder, gate_info,
                   old_to_new_gateId, result_assignment>>

Inputs == {g \in DOMAIN gate_info : gate_info[g].type = "INPUT"}
FirstInput == CHOOSE g \in Inputs : \A h \in Inputs : g <= h

(* createMiniCircuit_: OR(x, NOT(x)) or AND(x, NOT(x)) over the first input *)
(* stands for an output of known state.                                     *)
BuildGadget ==
    /\ AtOutput /\ result_assignment[output_gate] # StUndef
    /\ Inputs # {}
    /\ LET left   == FirstInput
           right  == Len(gate_info) + 1
           output == Len(gate_info) + 2
           type   == IF result_assignment[output_gate] = StTrue THEN "OR" ELSE "AND"
       IN  /\ encoder' = EncodeGate(EncodeGate(encoder, NewGateName(new_gate_name_prefix, right)),
                                    NewGateName(new_gate_name_prefix, output))
           /\ gate_info' = gate_info \o <<GateInfo("NOT", <<left>>), GateInfo(type, <<left, right>>)>>
           /\ new_output_gates' = Append(new_output_gates, output)
    /\ todo' = Tail(todo)
    /\ UNCHANGED <<circuit, names, pc, new_gate_name_prefix, old_to_new_gateId, result_assignment>>

(* assert(gate_id_input != SIZE_MAX).                                       *)
Abort ==
    /\ AtOutput /\ result_assignment[output_gate] # StUndef
    /\ Inputs = {}
    /\ pc' = "aborted"
    /\ UNCHANGED <<circuit, names, new_gate_name_prefix, todo, encoder, gate_info,
                   old_to_new_gateId, result_assignment, new_output_gates>>

Return ==
    /\ pc = "output" /\ todo = <<>>
    /\ pc' = "done"
    /\ UNCHANGED <<circuit, names, new_gate_name_prefix, todo, encoder, gate_info,
                   old_to_new_gateId, result_assignment, new_output_gates>>

Next ==
    \/ Start \/ LinkToOperand \/ LinkToNegation \/ LinkMux \/ KeepGate
    \/ ReplaceByConstant \/ GatesDone
    \/ MoveOutput \/ BuildGadget \/ Abort \/ Return

\* transform runs in one thread.
Spec == Init /\ [][Next]_vars /\ WF_vars(Next)

------------------------------------------------------------------------------
Result == [gates |-> gate_info, outputs |-> new_output_gates]

TypeOK ==
    /\ pc \in {"ready", "gate", "output", "done", "aborted"}
    /\ todo \in Seq(GateIds(circuit))
    /\ \A g \in DOMAIN gate_info : gate_info[g].type \in GateTypes
    /\ old_to_new_gateId \in Seq(0 .. Len(gate_info))
    /\ result_assignment \in Seq(GateStates)
    /\ new_output_gates \in Seq(DOMAIN gate_info)

(* The assertions on new_gate_id, gate_info and circuit_size: gates that    *)
(* are added get the next id of the encoder and of gate_info alike, while   *)
(* the gates of the source still wait to be visited.                        *)
IdsStayAligned == NamesGates(Result, encoder)

(* getLink_ follows one link: a gate that users are referred to is never    *)
(* itself moved or replaced by a constant, unless it already was when the   *)
(* link was made (a constant keeps its place).                              *)
LinksAreFinal ==
    \A g \in DOMAIN old_to_new_gateId :
        old_to_new_gateId[g] # NoGate =>
            LET target == old_to_new_gateId[g]
            IN  /\ getLink_(target) = target
                /\ gate_info[target].type # "UNDEFINED"

(* "these gates will be without users": no gate an output needs has an      *)
(* operand of known state, save a MUX, whose operands cannot be deleted.    *)
ConstantsUnused ==
    pc = "done" =>
        \A c \in {Result} : \A g \in Cone(c, OutputSet(c)) :
            Type(c, g) # "MUX" =>
                \A o \in OperandSet(c, g) :
                    Type(c, o) \notin {"CONST_TRUE", "CONST_FALSE"}
==============================================================================
