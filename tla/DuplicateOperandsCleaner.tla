---------------------- MODULE DuplicateOperandsCleaner -----------------------
(****************************************************************************)
(* DuplicateOperandsCleaner_: reduces gates that have an operand twice or   *)
(* an operand and its negation                                              *)
(* (src/src/simplification/duplicate_operands_cleaner.hpp).                 *)
(* The map from operands to counts that the code builds has only ones in it *)
(* for the types it reduces, so that a set of operands stands for it.       *)
(****************************************************************************)
EXTENDS GateEncoder, TopSort, Integers, Sequences, FiniteSets, SequencesExt

CONSTANTS
    Circuits,         \* the circuits transformed
    UniqueIds         \* what getUniqueId_ can draw

VARIABLES
    circuit, names,         \* what transform is given
    pc,                     \* "ready", "gate", "done"
    new_gate_name_prefix,
    todo,                   \* gates still to visit, the next one first
    encoder,                \* changed in place and returned
    gate_info,
    old_to_new_gateId,      \* NoGate stands for SIZE_MAX
    id_const_true, id_const_false,
    new_output_gates

vars == <<circuit, names, pc, new_gate_name_prefix, todo, encoder, gate_info,
          old_to_new_gateId, id_const_true, id_const_false, new_output_gates>>

NoGate == 0

\* The names of the auxiliary constants end in words, those of the other new
\* gates in their ids, which are positive.
ConstTrueName  == NewGateName(UniquePrefix(UniqueIds, names), 0)
ConstFalseName == NewGateName(UniquePrefix(UniqueIds, names), -1)

(* The auxiliary constants come first behind the gates of the circuit.      *)
Start ==
    /\ pc = "ready" /\ pc' = "gate"
    /\ new_gate_name_prefix' = UniquePrefix(UniqueIds, names)
    /\ \E gate_sorting \in {DFSTopSort(circuit)} : todo' = Backwards(gate_sorting)
    /\ encoder' = EncodeGate(EncodeGate(names, ConstTrueName), ConstFalseName)
    /\ id_const_true' = IdOf(names, ConstTrueName)
    /\ id_const_false' = IdOf(EncodeGate(names, ConstTrueName), ConstFalseName)
    /\ gate_info' = [g \in GateIds(circuit) |-> NoGateInfo]
                    \o <<GateInfo("CONST_TRUE", <<>>), GateInfo("CONST_FALSE", <<>>)>>
    /\ old_to_new_gateId' = [g \in GateIds(circuit) |-> NoGate]
                            \o <<id_const_true', id_const_false'>>
    /\ new_output_gates' = <<>>
    /\ UNCHANGED <<circuit, names>>

Init ==
    /\ circuit \in Circuits /\ names = NaturalNames(circuit)
    /\ pc = "ready"
    /\ new_gate_name_prefix = ""
    /\ todo = <<>>
    /\ encoder = NoEncoder
    /\ gate_info = <<>>
    /\ old_to_new_gateId = <<>>
    /\ id_const_true = NoGate
    /\ id_const_false = NoGate
    /\ new_output_gates = <<>>

gate_id   == Head(todo)
gate_type == Type(circuit, gate_id)
IsXor     == gate_type \in {"XOR", "NXOR"}

getLink_(g) == IF old_to_new_gateId[g] # NoGate THEN old_to_new_gateId[g] ELSE g

\* Mutant of Links: links are not followed.
PlainOperands == Operands(circuit, gate_id)

Links == [i \in DOMAIN Operands(circuit, gate_id) |-> getLink_(Operands(circuit, gate_id)[i])]

\* Mutant of transformOperands_: XOR is treated like AND.
OperandsOnce == ToSet(Links)

(* transformOperands_: duplicates go, modulo two in XOR and NXOR.           *)
transformOperands_ ==
    LET links == Links
    IN  {o \in ToSet(links) :
            IsXor => Cardinality({i \in DOMAIN links : links[i] = o}) % 2 = 1}

IsNotOf(n, o) == gate_info[n].type = "NOT" /\ gate_info[n].operands[1] = o

Ascending(S) == SetToSortSeq(S, <)

\* Mutant of areThereOppositeOperands_: only neighbours are compared.
AreThereOppositeNeighbours ==
    LET s == Ascending(transformOperands_)
    IN  \E i \in 1 .. Len(s) - 1 : IsNotOf(s[i + 1], s[i])

areThereOppositeOperands_ ==
    \E n, o \in transformOperands_ : IsNotOf(n, o)

(* rebuildXORAndNXOR_: opposite operands go in pairs, by ascending id of    *)
(* the NOT gate; an odd number of pairs leaves a CONST_TRUE.                *)
rebuildXORAndNXOR_ ==
    LET all  == transformOperands_
        nots == Ascending({n \in all : gate_info[n].type = "NOT"})
        pair == [k \in DOMAIN nots |-> {nots[k], gate_info[nots[k]].operands[1]}]
        after[k \in 0 .. Len(nots)] ==
            IF k = 0 THEN all
            ELSE IF pair[k] \subseteq after[k - 1] THEN after[k - 1] \ pair[k] ELSE after[k - 1]
        left  == after[Len(nots)]
        pairs == (Cardinality(all) - Cardinality(left)) \div 2
    IN  Ascending(left) \o IF pairs % 2 = 1 THEN <<id_const_true>> ELSE <<>>

(* The operands of the gate that is built.                                  *)
operands ==
    IF gate_type \notin FoldTypes THEN Links
    ELSE IF IsXor /\ areThereOppositeOperands_ THEN rebuildXORAndNXOR_
    ELSE Ascending(transformOperands_)

Visit == pc = "gate" /\ todo # <<>> /\ todo' = Tail(todo)

LinksTo(gate) == old_to_new_gateId' = [old_to_new_gateId EXCEPT ![gate_id] = gate]

Rebuilt == [gate_info EXCEPT ![gate_id] = GateInfo(gate_type, operands)]

IsUnary == gate_type \in FoldTypes /\ Len(operands) = 1

(* Users of a gate over one repeated operand will refer to that operand ... *)
LinkToOperand ==
    /\ Visit /\ IsUnary /\ gate_type \in {"AND", "OR", "XOR"}
    /\ gate_info' = Rebuilt
    /\ LinksTo(operands[1])
    /\ UNCHANGED <<circuit, names, pc, new_gate_name_prefix, encoder,
                   id_const_true, id_const_false, new_output_gates>>

NewName == NewGateName(new_gate_name_prefix, Len(gate_info) + 1)

(* ... or to its negation, a new gate.                                      *)
LinkToNegation ==
    /\ Visit /\ IsUnary /\ gate_type \in {"NAND", "NOR", "NXOR"}
    /\ encoder' = EncodeGate(encoder, NewName)
    /\ gate_info' = Append(Rebuilt, GateInfo("NOT", <<operands[1]>>))
    /\ old_to_new_gateId' =
          Append([old_to_new_gateId EXCEPT ![gate_id] = IdOf(encoder, NewName)],
                 IdOf(encoder, NewName))
    /\ UNCHANGED <<circuit, names, pc, new_gate_name_prefix,
                   id_const_true, id_const_false, new_output_gates>>

(* A gate that opposite operands determine, or whose operands all cancel.   *)
IsConstant ==
    /\ gate_type \in FoldTypes
    /\ IF IsXor THEN operands = <<>> ELSE areThereOppositeOperands_

LinkToConstant ==
    /\ Visit /\ IsConstant
    /\ gate_info' = Rebuilt
    /\ LinksTo(IF gate_type \in {"AND", "NOR", "XOR"} THEN id_const_false ELSE id_const_true)
    /\ UNCHANGED <<circuit, names, pc, new_gate_name_prefix, encoder,
                   id_const_true, id_const_false, new_output_gates>>

KeepGate ==
    /\ Visit /\ ~IsUnary /\ ~IsConstant
    /\ gate_info' = Rebuilt
    /\ LinksTo(gate_id)
    /\ UNCHANGED <<circuit, names, pc, new_gate_name_prefix, encoder,
                   id_const_true, id_const_false, new_output_gates>>

Return ==
    /\ pc = "gate" /\ todo = <<>>
    /\ new_output_gates' =
          [k \in DOMAIN circuit.outputs |-> old_to_new_gateId[circuit.outputs[k]]]
    /\ pc' = "done"
    /\ UNCHANGED <<circuit, names, new_gate_name_prefix, todo, encoder, gate_info,
                   old_to_new_gateId, id_const_true, id_const_false>>

Next == Start \/ LinkToOperand \/ LinkToNegation \/ LinkToConstant \/ KeepGate \/ Return

\* transform runs in one thread.
Spec == Init /\ [][Next]_vars /\ WF_vars(Next)

------------------------------------------------------------------------------
Result == [gates |-> gate_info, outputs |-> new_output_gates]

TypeOK ==
    /\ pc \in {"ready", "gate", "done"}
    /\ todo \in Seq(GateIds(circuit))
    /\ \A g \in DOMAIN gate_info : gate_info[g].type \in GateTypes
    /\ old_to_new_gateId \in Seq(0 .. Len(gate_info))
    /\ pc # "ready" => {id_const_true, id_const_false} \subseteq DOMAIN gate_info
    /\ new_output_gates \in Seq(DOMAIN gate_info)

(* The assertions on new_gate_id, gate_info and circuit_size: gates that    *)
(* are added get the next id of the encoder, of gate_info and of            *)
(* old_to_new_gateId alike, while gates of the source still wait.           *)
IdsStayAligned ==
    /\ NamesGates(Result, encoder)
    /\ Len(old_to_new_gateId) = Len(gate_info)

(* getLink_ follows one link: a gate that users are referred to is built    *)
(* and is itself never moved.                                               *)
LinksAreFinal ==
    \A g \in DOMAIN old_to_new_gateId :
        old_to_new_gateId[g] # NoGate =>
            /\ getLink_(old_to_new_gateId[g]) = old_to_new_gateId[g]
            /\ gate_info[old_to_new_gateId[g]].type # "UNDEFINED"

(* A gate that an output needs is left with neither an operand twice nor an *)
(* operand and its negation, even though links and new negations change     *)
(* operands on the way; only the auxiliary constants can be left so, for    *)
(* ConstantGateReducer.                                                     *)
OperandsReduced ==
    pc = "done" =>
        \A c \in {Result} : \A g \in Cone(c, OutputSet(c)) :
            Type(c, g) \in FoldTypes =>
                LET rest == {i \in DOMAIN Operands(c, g) :
                                Operands(c, g)[i] \notin {id_const_true, id_const_false}}
                IN  \A i, j \in rest :
                       /\ Operands(c, g)[i] = Operands(c, g)[j] => i = j
                       /\ ~IsNotOf(Operands(c, g)[i], Operands(c, g)[j])
==============================================================================
