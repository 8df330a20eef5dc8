------------------------ MODULE DuplicateGatesCleaner ------------------------
(****************************************************************************)
(* DuplicateGatesCleaner_: merges gates with the same operator and the same *)
(* operands (src/src/simplification/duplicate_gates_cleaner.hpp).  Gates    *)
(* are visited operands first; a gate is known by an auxiliary name made of *)
(* its type and of the new ids of its operands, in the order in which the   *)
(* source stores them.                                                      *)
(****************************************************************************)
EXTENDS GateEncoder, TopSort, Integers, Sequences

CONSTANT Circuits     \* the circuits transformed

VARIABLES
    circuit, names,         \* what transform is given
    pc,                     \* "ready", "name", "build", "outputs", "done"
    todo,                   \* gates still to visit, the next one first
    safe_mask,              \* the gates that are no duplicates
    aux_names,              \* auxiliary_names_encoder
    old_to_new_gateId,      \* NoGate where the map has no entry yet
    new_encoder,
    gate_info,
    new_output_gates,
    new_names               \* the encoder returned

vars == <<circuit, names, pc, todo, safe_mask, aux_names, old_to_new_gateId,
          new_encoder, gate_info, new_output_gates, new_names>>

NoGate == 0

Start ==
    /\ pc = "ready" /\ pc' = "name"
    /\ \E gate_sorting \in {DFSTopSort(circuit)} : todo' = Backwards(gate_sorting)
    /\ safe_mask' = GateIds(circuit)
    /\ aux_names' = NoEncoder
    /\ old_to_new_gateId' = [g \in GateIds(circuit) |-> NoGate]
    /\ new_encoder' = NoEncoder
    /\ gate_info' = <<>>
    /\ new_output_gates' = <<>>
    /\ new_names' = NoEncoder
    /\ UNCHANGED <<circuit, names>>

Init ==
    /\ circuit \in Circuits /\ names = NaturalNames(circuit)
    /\ pc = "ready"
    /\ todo = <<>>
    /\ safe_mask = {}
    /\ aux_names = NoEncoder
    /\ old_to_new_gateId = [g \in GateIds(circuit) |-> NoGate]
    /\ new_encoder = NoEncoder
    /\ gate_info = <<>>
    /\ new_output_gates = <<>>
    /\ new_names = NoEncoder

NewOperands(g) ==
    [i \in DOMAIN Operands(circuit, g) |-> old_to_new_gateId[Operands(circuit, g)[i]]]

(* Inputs are told apart by their ids, so that they never are duplicates.   *)
get_gate_auxiliary_name_(g) ==
    IF Type(circuit, g) = "INPUT"
    THEN <<Type(circuit, g), <<g>> \o NewOperands(g)>>
    ELSE <<Type(circuit, g), NewOperands(g)>>

gateId == Head(todo)
encoded_name == get_gate_auxiliary_name_(gateId)

Visited == todo' = Tail(todo)

(* Users of a duplicate are to refer to the gate that has its name.         *)
NameDuplicate ==
    /\ pc = "name" /\ todo # <<>>
    /\ KeyExists(aux_names, encoded_name)
    /\ safe_mask' = safe_mask \ {gateId}
    /\ old_to_new_gateId' = [old_to_new_gateId EXCEPT ![gateId] = IdOf(aux_names, encoded_name)]
    /\ Visited
    /\ UNCHANGED <<circuit, names, pc, aux_names, new_encoder, gate_info,
                   new_output_gates, new_names>>

NameNew ==
    /\ pc = "name" /\ todo # <<>>
    /\ ~KeyExists(aux_names, encoded_name)
    /\ new_encoder' = EncodeGate(new_encoder, gateId)
    /\ aux_names' = EncodeGate(aux_names, encoded_name)
    /\ old_to_new_gateId' = [old_to_new_gateId EXCEPT ![gateId] = IdOf(aux_names, encoded_name)]
    /\ Visited
    /\ UNCHANGED <<circuit, names, pc, safe_mask, gate_info, new_output_gates, new_names>>

(* The second loop takes the gates by ascending id.                         *)
AllocateGates ==
    /\ pc = "name" /\ todo = <<>>
    /\ gate_info' = [i \in DOMAIN aux_names |-> NoGateInfo]
    /\ todo' = [g \in GateIds(circuit) |-> g]
    /\ pc' = "build"
    /\ UNCHANGED <<circuit, names, safe_mask, aux_names, old_to_new_gateId,
                   new_encoder, new_output_gates, new_names>>

BuildGate ==
    /\ pc = "build" /\ todo # <<>>
    /\ gate_info' = IF gateId \in safe_mask
                    THEN [gate_info EXCEPT ![old_to_new_gateId[gateId]] =
                             GateInfo(Type(circuit, gateId), NewOperands(gateId))]
                    ELSE gate_info
    /\ Visited
    /\ UNCHANGED <<circuit, names, pc, safe_mask, aux_names, old_to_new_gateId,
                   new_encoder, new_output_gates, new_names>>

RebuildOutputs ==
    /\ pc = "build" /\ todo = <<>>
    /\ new_output_gates' =
          [k \in DOMAIN circuit.outputs |-> old_to_new_gateId[circuit.outputs[k]]]
    /\ pc' = "outputs"
    /\ UNCHANGED <<circuit, names, todo, safe_mask, aux_names, old_to_new_gateId,
                   new_encoder, gate_info, new_names>>

Return ==
    /\ pc = "outputs"
    /\ new_names' = MergeGateEncoders(names, new_encoder)
    /\ pc' = "done"
    /\ UNCHANGED <<circuit, names, todo, safe_mask, aux_names, old_to_new_gateId,
                   new_encoder, gate_info, new_output_gates>>

Next == Start \/ NameDuplicate \/ NameNew \/ AllocateGates \/ BuildGate
        \/ RebuildOutputs \/ Return

\* transform runs in one thread.
Spec == Init /\ [][Next]_vars /\ WF_vars(Next)

------------------------------------------------------------------------------
Result == [gates |-> gate_info, outputs |-> new_output_gates]

TypeOK ==
    /\ pc \in {"ready", "name", "build", "outputs", "done"}
    /\ todo \in Seq(GateIds(circuit))
    /\ safe_mask \subseteq GateIds(circuit)
    /\ old_to_new_gateId \in [GateIds(circuit) -> 0 .. Len(circuit.gates)]
    /\ new_encoder \in Seq(GateIds(circuit))
    /\ \A i \in DOMAIN gate_info : gate_info[i].type \in GateTypes
    /\ new_output_gates \in Seq(DOMAIN gate_info)
    /\ new_names \in Seq({names[g] : g \in GateIds(circuit)})

(* Two encoders number the new gates, one by auxiliary name and one by old  *)
(* gate: new_encoder gives each gate that stays the id under which its      *)
(* auxiliary name is known, or the names returned would be another gate's.  *)
EncodersAgree ==
    /\ Len(new_encoder) = Len(aux_names)
    /\ \A i \in DOMAIN new_encoder : old_to_new_gateId[new_encoder[i]] = i

(* "Duplicates are gates with the same operands and operator"               *)
(* (duplicate_gates_cleaner.hpp:23), "cleans circuit from duplicate gates": *)
(* the result has no two gates of one type over the same operands.          *)
NoDuplicatesLeft ==
    pc = "done" =>
        \A g, h \in GateIds(Result) :
            gate_info[g] = gate_info[h] /\ Type(Result, g) # "INPUT" => g = h
==============================================================================
