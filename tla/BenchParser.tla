----------------------------- MODULE BenchParser -----------------------------
(****************************************************************************)
(* BenchToCircuit: a .bench file is read line by line, names get their ids  *)
(* in the order in which they are met, as target or as operand, and a       *)
(* circuit is made of what has been collected                               *)
(* (src/src/parser/ibench_parser.hpp, src/src/parser/bench_to_circuit.hpp). *)
(****************************************************************************)
EXTENDS GateEncoder, BenchFormat, Integers, Sequences

CONSTANTS
    Files,      \* the files to be read
    NextFiles   \* those that a parser reads after it has been cleared

ASSUME FilesAssumption == NextFiles \subseteq Files /\ \A f \in Files : IsFile(f)

VARIABLES
    file,               \* the file that is read, for the properties only
    lines,              \* what has not been read of it
    encoder,
    gate_info_vector,
    output_gate_ids,
    circuit,            \* what instantiate has returned
    pc                  \* "parse", "done", "aborted"

collected == <<encoder, gate_info_vector, output_gate_ids>>
vars      == <<file, lines, collected, circuit, pc>>

NoCircuit == [gates |-> <<>>, outputs |-> <<>>]

Open(f) ==
    /\ file = f /\ lines = f
    /\ encoder = NoEncoder /\ gate_info_vector = <<>> /\ output_gate_ids = <<>>
    /\ circuit = NoCircuit
    /\ pc = "parse"

Init == \E f \in Files : Open(f)

------------------------------------------------------------------------------
AtLine(kind) == pc = "parse" /\ lines # <<>> /\ Head(lines).kind = kind
line         == Head(lines)
NextLine     == lines' = Tail(lines) /\ UNCHANGED <<file, circuit, pc>>

\* Mutant of addGate: an earlier definition is kept.
KeepFirst(infos, id, info) ==
    [g \in 1 .. (IF id > Len(infos) THEN id ELSE Len(infos)) |->
        IF g \in DOMAIN infos /\ infos[g] # NoGateInfo THEN infos[g]
        ELSE IF g = id THEN info ELSE NoGateInfo]

(* _addGate: the vector grows so far that it has the id.                    *)
addGate(infos, id, info) ==
    [g \in 1 .. (IF id > Len(infos) THEN id ELSE Len(infos)) |->
        IF g = id THEN info
        ELSE IF g \in DOMAIN infos THEN infos[g] ELSE NoGateInfo]

SkipLine ==
    /\ AtLine("comment")
    /\ NextLine
    /\ UNCHANGED collected

ParseInput ==
    /\ AtLine("INPUT")
    /\ encoder' = EncodeGate(encoder, line.name)
    /\ gate_info_vector' =
          addGate(gate_info_vector, IdOf(encoder, line.name), GateInfo("INPUT", <<>>))
    /\ NextLine
    /\ UNCHANGED output_gate_ids

ParseOutput ==
    /\ AtLine("OUTPUT")
    /\ encoder' = EncodeGate(encoder, line.name)
    /\ output_gate_ids' = Append(output_gate_ids, IdOf(encoder, line.name))
    /\ NextLine
    /\ UNCHANGED gate_info_vector

(* specialOperatorCallback_: CONST(0), CONST(1) and vdd.                    *)
ParseSpecial ==
    /\ AtLine("gate") /\ IsSpecial(line) /\ IsReadable(line)
    /\ encoder' = EncodeGate(encoder, line.name)
    /\ gate_info_vector' =
          addGate(gate_info_vector, IdOf(encoder, line.name), GateInfo(SpecialType(line), <<>>))
    /\ NextLine
    /\ UNCHANGED output_gate_ids

(* The target gets its id before the operands.                              *)
ParseGate ==
    /\ AtLine("gate") /\ ~IsSpecial(line) /\ IsReadable(line)
    /\ encoder' = EncodeGates(EncodeGate(encoder, line.name), line.operands)
    /\ gate_info_vector' =
          addGate(gate_info_vector, IdOf(encoder, line.name),
                  GateInfo(stringToGateType(line.op),
                           [i \in DOMAIN line.operands |-> IdOf(encoder', line.operands[i])]))
    /\ NextLine
    /\ UNCHANGED output_gate_ids

(* "Can't parse line", "Unsupported special operator", or at of the table   *)
(* of gate types.                                                           *)
Abort ==
    /\ pc = "parse" /\ lines # <<>> /\ ~IsReadable(line)
    /\ pc' = "aborted"
    /\ UNCHANGED <<file, lines, collected, circuit>>

------------------------------------------------------------------------------
\* Mutant of OperandsInRange: the operands are not looked at.
Unchecked == TRUE

(* calculateGateUsers_ of DAG looks every operand up with at, but the       *)
(* outputs are copied as they are.                                          *)
OperandsInRange ==
    \A g \in DOMAIN gate_info_vector :
        \A i \in DOMAIN gate_info_vector[g].operands :
            gate_info_vector[g].operands[i] \in DOMAIN gate_info_vector

Instantiate ==
    /\ pc = "parse" /\ lines = <<>> /\ OperandsInRange
    /\ circuit' = [gates |-> gate_info_vector, outputs |-> output_gate_ids]
    /\ pc' = "done"
    /\ UNCHANGED <<file, lines, collected>>

Throw ==
    /\ pc = "parse" /\ lines = <<>> /\ ~OperandsInRange
    /\ pc' = "aborted"
    /\ UNCHANGED <<file, lines, collected, circuit>>

(* clear, and another file.                                                 *)
Clear ==
    /\ pc = "done"
    /\ \E f \in NextFiles :
          /\ file' = f /\ lines' = f
          /\ encoder' = NoEncoder /\ gate_info_vector' = <<>> /\ output_gate_ids' = <<>>
          /\ circuit' = NoCircuit
          /\ pc' = "parse"

ParseLine == SkipLine \/ ParseInput \/ ParseOutput \/ ParseSpecial \/ ParseGate \/ Abort

Next == ParseLine \/ Instantiate \/ Throw \/ Clear

\* One thread reads the stream; nobody has to clear a parser.
Spec == Init /\ [][Next]_vars /\ WF_vars(ParseLine \/ Instantiate \/ Throw)

------------------------------------------------------------------------------
(* Whatever the order of its lines, a file that means a circuit is read as  *)
(* that circuit: well formed, with a name for each gate, the inputs that    *)
(* the file declares, and the same function.  In particular names are       *)
(* mentioned before they are defined, only the last definition counts, and  *)
(* the check of operands in the end never refuses such a file.              *)
ReadsMeaning ==
    IsLegal(file) =>
        /\ pc # "aborted"
        /\ pc = "done" =>
              /\ WellFormed(circuit)
              /\ NamesGates(circuit, encoder)
              /\ InputNames(circuit, encoder) = InputNames(Meaning(file), MeaningNames(file))
              /\ SameFunction(Meaning(file), MeaningNames(file), circuit, encoder)

(* A file that uses a name it does not define may pass; what can be wrong   *)
(* with the circuit then is one of two things, and nothing else takes the   *)
(* place of the missing gate: the name is that of a gate of type UNDEFINED, *)
(* which evaluation and the writer refuse, or its id is beyond the gates;   *)
(* then it is an output, never an operand.  ("at here is used to implicitly *)
(* check that any operand is contained in this graph", dag.hpp:180.)        *)
MissingStaysMissing ==
    pc = "done" =>
        /\ \A g \in DOMAIN encoder :
              encoder[g] \in DefinedNames(file) <=>
                  g \in GateIds(circuit) /\ Type(circuit, g) # "UNDEFINED"
        /\ \A g \in GateIds(circuit) : OperandSet(circuit, g) \subseteq GateIds(circuit)

(* A circuit that has been read and is written again means the same, so     *)
(* that results can be read; but constants are written in a form that is    *)
(* read as a gate with an operand of empty name.                            *)
RoundTrip ==
    pc = "done" /\ IsLegal(file)
    /\ {Type(circuit, g) : g \in GateIds(circuit)} \cap {"CONST_TRUE", "CONST_FALSE"} = {} =>
        /\ IsLegal(writeBenchFile(circuit, encoder))
        /\ SameMeaning(file, writeBenchFile(circuit, encoder))
==============================================================================
