------------------------ MODULE RedundantGatesCleaner ------------------------
(****************************************************************************)
(* RedundantGatesCleaner_: removes the gates no output needs and renumbers  *)
(* the rest (src/src/simplification/redundant_gates_cleaner.hpp).           *)
(* `mask_use_output` is the mask of performDepthFirstSearch started at the  *)
(* outputs; that it is the cone of the outputs is MaskIsCone of             *)
(* DepthFirstSearch.                                                        *)
(****************************************************************************)
EXTENDS GateEncoder, Circuits, Integers, Sequences

CONSTANTS
    Circuits,         \* the circuits transformed
    preserveInputs    \* the template parameter, a Boolean

VARIABLES
    circuit, names,       \* what transform is given
    pc,                   \* "ready", "encode", "rebuild", "outputs", "done"
    gateId,               \* counter of the loop over gates
    encoder_old_to_new,
    gate_info,
    new_output_gates,
    new_names             \* the encoder returned

vars == <<circuit, names, pc, gateId, encoder_old_to_new, gate_info,
          new_output_gates, new_names>>

\* Mutant: only the outputs and their operands.
mask_one_level ==
    OutputSet(circuit) \cup UNION {OperandSet(circuit, g) : g \in OutputSet(circuit)}

mask_use_output == Cone(circuit, OutputSet(circuit))

Start ==
    /\ pc = "ready" /\ pc' = "encode"
    /\ gateId' = 1
    /\ encoder_old_to_new' = NoEncoder
    /\ gate_info' = <<>>
    /\ new_output_gates' = <<>>
    /\ new_names' = NoEncoder
    /\ UNCHANGED <<circuit, names>>

Init ==
    /\ circuit \in Circuits /\ names = NaturalNames(circuit)
    /\ pc = "ready"
    /\ gateId = 1
    /\ encoder_old_to_new = NoEncoder
    /\ gate_info = <<>>
    /\ new_output_gates = <<>>
    /\ new_names = NoEncoder

\* Mutant of IsKept: inputs always stay.
IsKeptOrInput(g) == g \in mask_use_output \/ Type(circuit, g) = "INPUT"

IsKept(g) ==
    g \in mask_use_output \/ (preserveInputs /\ Type(circuit, g) = "INPUT")

\* Mutant of EncodeKept: the loop only goes on after a gate that stays.
EncodeKeptOnly ==
    /\ pc = "encode" /\ gateId \in GateIds(circuit)
    /\ IsKept(gateId)
    /\ encoder_old_to_new' = EncodeGate(encoder_old_to_new, gateId)
    /\ gateId' = gateId + 1
    /\ UNCHANGED <<circuit, names, pc, gate_info, new_output_gates, new_names>>

(* First loop: give the gates that stay their new ids.                      *)
EncodeKept ==
    /\ pc = "encode" /\ gateId \in GateIds(circuit)
    /\ encoder_old_to_new' = IF IsKept(gateId)
                             THEN EncodeGate(encoder_old_to_new, gateId)
                             ELSE encoder_old_to_new
    /\ gateId' = gateId + 1
    /\ UNCHANGED <<circuit, names, pc, gate_info, new_output_gates, new_names>>

AllocateGates ==
    /\ pc = "encode" /\ gateId \notin GateIds(circuit)
    /\ gate_info' = [i \in DOMAIN encoder_old_to_new |-> NoGateInfo]
    /\ gateId' = 1
    /\ pc' = "rebuild"
    /\ UNCHANGED <<circuit, names, encoder_old_to_new, new_output_gates, new_names>>

(* Second loop.  encodeGate would silently give a new id to an operand that *)
(* the first loop has not kept.                                             *)
RebuildGate ==
    /\ pc = "rebuild" /\ gateId \in GateIds(circuit)
    /\ KeyExists(encoder_old_to_new, gateId)
    /\ encoder_old_to_new' =
          EncodeGates(encoder_old_to_new, Operands(circuit, gateId))
    /\ gate_info' = [gate_info EXCEPT ![IdOf(encoder_old_to_new, gateId)] =
          GateInfo(Type(circuit, gateId),
                   [i \in DOMAIN Operands(circuit, gateId) |->
                       IdOf(encoder_old_to_new', Operands(circuit, gateId)[i])])]
    /\ gateId' = gateId + 1
    /\ UNCHANGED <<circuit, names, pc, new_output_gates, new_names>>

SkipRemoved ==
    /\ pc = "rebuild" /\ gateId \in GateIds(circuit)
    /\ ~KeyExists(encoder_old_to_new, gateId)
    /\ gateId' = gateId + 1
    /\ UNCHANGED <<circuit, names, pc, encoder_old_to_new, gate_info,
                   new_output_gates, new_names>>

\* Mutant of RebuildOutputs: the outputs keep their old ids.
KeepOutputs ==
    /\ pc = "rebuild" /\ gateId \notin GateIds(circuit)
    /\ new_output_gates' = circuit.outputs
    /\ pc' = "outputs"
    /\ UNCHANGED <<circuit, names, gateId, encoder_old_to_new, gate_info, new_names>>

RebuildOutputs ==
    /\ pc = "rebuild" /\ gateId \notin GateIds(circuit)
    /\ encoder_old_to_new' = EncodeGates(encoder_old_to_new, circuit.outputs)
    /\ new_output_gates' =
          [k \in DOMAIN circuit.outputs |-> IdOf(encoder_old_to_new', circuit.outputs[k])]
    /\ pc' = "outputs"
    /\ UNCHANGED <<circuit, names, gateId, gate_info, new_names>>

Return ==
    /\ pc = "outputs"
    /\ new_names' = MergeGateEncoders(names, encoder_old_to_new)
    /\ pc' = "done"
    /\ UNCHANGED <<circuit, names, gateId, encoder_old_to_new, gate_info,
                   new_output_gates>>

Next == Start \/ EncodeKept \/ AllocateGates \/ RebuildGate \/ SkipRemoved
        \/ RebuildOutputs \/ Return

\* transform runs in one thread.
Spec == Init /\ [][Next]_vars /\ WF_vars(Next)

------------------------------------------------------------------------------
Result == [gates |-> gate_info, outputs |-> new_output_gates]

TypeOK ==
    /\ pc \in {"ready", "encode", "rebuild", "outputs", "done"}
    /\ gateId \in 1 .. Len(circuit.gates) + 1
    /\ encoder_old_to_new \in Seq(GateIds(circuit))
    /\ \A i \in DOMAIN gate_info : gate_info[i].type \in GateTypes
    /\ new_output_gates \in Seq(DOMAIN gate_info)
    /\ new_names \in Seq({names[g] : g \in GateIds(circuit)})

(* "cleans circuit from all gates that are not reachable from outputs": no  *)
(* such gate is left, except the inputs that preserveInputs asks for, and   *)
(* then all of them are there.                                              *)
NothingRedundant ==
    pc = "done" =>
        /\ \A g \in GateIds(Result) :
              \/ g \in Cone(Result, OutputSet(Result))
              \/ preserveInputs /\ Type(Result, g) = "INPUT"
        /\ preserveInputs => InputNames(Result, new_names) = InputNames(circuit, names)

(* After the first loop encodeGate is only used to look ids up: the kept    *)
(* gates are closed under operands, so that gate_info, which was given its  *)
(* size, has a place for every id.                                          *)
EncoderIsComplete == [][pc \notin {"ready", "encode"} => UNCHANGED encoder_old_to_new]_vars
==============================================================================
