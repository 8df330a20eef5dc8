------------------------ MODULE ReduceNotComposition -------------------------
(****************************************************************************)
(* ReduceNotComposition_: lets users of a chain of NOT gates refer past the *)
(* pairs that cancel (src/src/simplification/reduce_not_composition.hpp).   *)
(* Gates, outputs and names stay; only operands change.  The walk along a   *)
(* chain, get_operand, is a loop of the machine.                            *)
(****************************************************************************)
EXTENDS TopSort, Integers, Sequences, SequencesExt

CONSTANT Circuits     \* the circuits transformed

VARIABLES
    circuit, names,   \* what transform is given
    pc,               \* "ready", "gate", "walk", "done"
    todo,             \* gates still to rebuild, the next one first
    new_operands_,
    chain_gate,       \* gateId of get_operand: a NOT gate of the chain walked
    flag,             \* get_operand: an odd number of further NOT gates passed
    gate_info

vars == <<circuit, names, pc, todo, new_operands_, chain_gate, flag, gate_info>>

NoGate == 0

Start ==
    /\ pc = "ready" /\ pc' = "gate"
    /\ todo' = DFSTopSort(circuit)
    /\ new_operands_' = <<>>
    /\ chain_gate' = NoGate
    /\ flag' = FALSE
    /\ gate_info' = [g \in GateIds(circuit) |-> NoGateInfo]
    /\ UNCHANGED <<circuit, names>>

Init ==
    /\ circuit \in Circuits /\ names = NaturalNames(circuit)
    /\ pc = "ready"
    /\ todo = <<>>
    /\ new_operands_ = <<>>
    /\ chain_gate = NoGate
    /\ flag = FALSE
    /\ gate_info = <<>>

gateId  == Head(todo)
operand == Operands(circuit, gateId)[Len(new_operands_) + 1]
HasOperandLeft == Len(new_operands_) < Len(Operands(circuit, gateId))
IsNot(g) == Type(circuit, g) = "NOT"

KeepOperand ==
    /\ pc = "gate" /\ todo # <<>> /\ HasOperandLeft /\ ~IsNot(operand)
    /\ new_operands_' = Append(new_operands_, operand)
    /\ UNCHANGED <<circuit, names, pc, todo, chain_gate, flag, gate_info>>

(* get_operand is called for an operand that is a NOT.                      *)
EnterChain ==
    /\ pc = "gate" /\ todo # <<>> /\ HasOperandLeft /\ IsNot(operand)
    /\ chain_gate' = operand
    /\ flag' = FALSE
    /\ pc' = "walk"
    /\ UNCHANGED <<circuit, names, todo, new_operands_, gate_info>>

(* A NOT gate that no output needs may have lost its operand before.        *)
HasOperand(g) == Operands(circuit, g) # <<>>
check_gate    == Operands(circuit, chain_gate)[1]

PassNot ==
    /\ pc = "walk" /\ HasOperand(chain_gate) /\ IsNot(check_gate)
    /\ flag' = ~flag
    /\ chain_gate' = check_gate
    /\ UNCHANGED <<circuit, names, pc, todo, new_operands_, gate_info>>

LeaveChain ==
    /\ pc = "walk" /\ HasOperand(chain_gate) /\ ~IsNot(check_gate)
    /\ new_operands_' = Append(new_operands_, IF flag THEN check_gate ELSE chain_gate)
    /\ pc' = "gate"
    /\ UNCHANGED <<circuit, names, todo, chain_gate, flag, gate_info>>

(* getGateOperands(gateId).at(0) throws, and nothing catches it.            *)
Throw ==
    /\ pc = "walk" /\ ~HasOperand(chain_gate)
    /\ pc' = "aborted"
    /\ UNCHANGED <<circuit, names, todo, new_operands_, chain_gate, flag, gate_info>>

RebuildGate ==
    /\ pc = "gate" /\ todo # <<>> /\ ~HasOperandLeft
    /\ gate_info' = [gate_info EXCEPT ![gateId] =
                        GateInfo(Type(circuit, gateId), new_operands_)]
    /\ new_operands_' = <<>>
    /\ todo' = Tail(todo)
    /\ UNCHANGED <<circuit, names, pc, chain_gate, flag>>

Return ==
    /\ pc = "gate" /\ todo = <<>>
    /\ pc' = "done"
    /\ UNCHANGED <<circuit, names, todo, new_operands_, chain_gate, flag, gate_info>>

Next == Start \/ KeepOperand \/ EnterChain \/ PassNot \/ LeaveChain \/ Throw
        \/ RebuildGate \/ Return

\* transform runs in one thread.
Spec == Init /\ [][Next]_vars /\ WF_vars(Next)

------------------------------------------------------------------------------
Result == [gates |-> gate_info, outputs |-> circuit.outputs]

TypeOK ==
    /\ pc \in {"ready", "gate", "walk", "done", "aborted"}
    /\ todo \in Seq(GateIds(circuit))
    /\ new_operands_ \in Seq(GateIds(circuit))
    /\ chain_gate \in 0 .. Len(circuit.gates)
    /\ flag \in BOOLEAN
    /\ pc # "ready" => DOMAIN gate_info = GateIds(circuit)
    /\ \A g \in DOMAIN gate_info : gate_info[g].type \in GateTypes

(* "the output will be either gate's ID whose type is not NOT, or gate's ID *)
(* whose type is NOT, but its operand is definitely not NOT": the operands  *)
(* of rebuilt gates and the operand list being built are as the comment     *)
(* says, for the types of the source and of the result alike.               *)
IsReduced(o) == ~IsNot(o) \/ ~IsNot(Operands(circuit, o)[1])

ChainsAreReduced ==
    /\ \A i \in DOMAIN new_operands_ : IsReduced(new_operands_[i])
    /\ \A g \in DOMAIN gate_info :
          \A i \in DOMAIN gate_info[g].operands : IsReduced(gate_info[g].operands[i])
    /\ pc = "done" =>
          \A g \in GateIds(circuit) :
              Type(circuit, g) = "NOT" => Type(Result, g) = "NOT"
==============================================================================
