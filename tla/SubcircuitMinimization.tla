----------------------- MODULE SubcircuitMinimization ------------------------
(****************************************************************************)
(* ThreeInputsSubcircuitMinimization and its BENCH variant: every color of  *)
(* ThreeColoring is a subcircuit of three inputs that is replaced by a      *)
(* smaller one of the database, if there is one                             *)
(* (src/src/simplification/three_inputs_optimization_bench.hpp and          *)
(* three_inputs_optimization.hpp).  The two classes differ in the gate      *)
(* types they accept, in what they count as size, and in the statistics of  *)
(* the AIG class, by which it skips an iteration that follows one without   *)
(* effect.                                                                  *)
(*                                                                          *)
(* The colorings and the users of a gate are those of the circuit given,    *)
(* although gate_info changes under them.                                   *)
(****************************************************************************)
EXTENDS GateEncoder, CircuitDB, ThreeColoring, Integers, Sequences, FiniteSets, SequencesExt

CONSTANTS
    Tasks,      \* records of a circuit and a basis
    DB(_)       \* the database for a basis, a set of entries

Bases == {"BENCH", "AIG"}

ASSUME TasksAssumption == \A task \in Tasks : task.basis \in Bases
ASSUME DBAssumption == \A b \in Bases : \A e \in DB(b) : IsCorrect(e)

VARIABLES
    circuit, names,         \* what transform is given
    basis,                  \* which of the two classes transforms it
    pc,                     \* "ready", "color", "scan", "done", "aborted"
    iter_number,            \* CircuitStatsSingleton, of the AIG class only
    last_iter_simplified,   \* last_iter_gates_simplification is not 0
    colors,                 \* ThreeColoring, each color with its gatesByColor
    color_id,
    gate_info,
    encoder,                \* changed in place and returned
    is_removed, is_modified,
    \* The color being looked at: its gates still to scan, the tables of its
    \* parents and of the gates scanned, and what the scan has collected.
    todo, tables, outputs, all_outputs, primitive_gates

given   == <<circuit, names, basis>>
rewrite == <<gate_info, encoder, is_removed, is_modified>>
scan    == <<todo, tables, outputs, all_outputs, primitive_gates>>
vars    == <<given, pc, iter_number, last_iter_simplified, colors, color_id, rewrite, scan>>

Init ==
    /\ \E task \in Tasks : circuit = task.circuit /\ basis = task.basis
    /\ names = NaturalNames(circuit)
    /\ pc = "ready"
    /\ iter_number \in 0 .. (IF basis = "AIG" THEN 1 ELSE 0)
    /\ last_iter_simplified \in {FALSE, iter_number = 1}
    /\ colors = <<>> /\ color_id = 1
    /\ gate_info = <<>> /\ encoder = NoEncoder
    /\ is_removed = {} /\ is_modified = {}
    /\ todo = <<>> /\ tables = <<>> /\ outputs = <<>>
    /\ all_outputs = {} /\ primitive_gates = {}

IsRepeated == iter_number # 0 /\ ~last_iter_simplified

(* The constructors of the colorings refuse gates of three operands.        *)
Fits(c) == \A g \in GateIds(c) : Len(Operands(c, g)) <= 2

Start ==
    /\ pc = "ready" /\ Fits(circuit)
    /\ gate_info' = circuit.gates
    /\ encoder' = names
    /\ color_id' = 1 /\ is_removed' = {} /\ is_modified' = {}
    /\ IF basis = "AIG" /\ IsRepeated
       THEN pc' = "done" /\ UNCHANGED <<iter_number, last_iter_simplified, colors>>
       ELSE /\ pc' = "color"
            /\ iter_number' = IF basis = "AIG" THEN iter_number + 1 ELSE iter_number
            /\ last_iter_simplified' = (last_iter_simplified /\ basis # "AIG")
            /\ \E two \in {TwoColoringOf(circuit)}, three \in {ThreeColoringOf(circuit)} :
                  colors' = [i \in DOMAIN three.colors |->
                                [parents |-> three.colors[i].parents,
                                 gates   |-> GatesByColor(two, three, three.colors[i])]]
    /\ UNCHANGED <<given, scan>>

Refuse ==
    /\ pc = "ready" /\ ~Fits(circuit)
    /\ pc' = "aborted"
    /\ UNCHANGED <<given, iter_number, last_iter_simplified, colors, color_id, rewrite, scan>>

------------------------------------------------------------------------------
color        == colors[color_id]
gatesByColor == ToSet(color.gates)

NextColor == pc' = "color" /\ color_id' = color_id + 1

(* A parent is gone, or a gate is not any more what the coloring saw.       *)
IsStale == \/ ToSet(color.parents) \cap is_removed # {}
           \/ gatesByColor \cap (is_removed \cup is_modified) # {}

SkipColor ==
    /\ pc = "color" /\ color_id \in DOMAIN colors /\ IsStale
    /\ NextColor
    /\ UNCHANGED <<given, iter_number, last_iter_simplified, colors, rewrite, scan>>

StartScan ==
    /\ pc = "color" /\ color_id \in DOMAIN colors /\ ~IsStale
    /\ pc' = "scan"
    /\ todo' = color.gates
    /\ tables' = [p \in ToSet(color.parents) |-> Input(CHOOSE k \in 1 .. 3 : color.parents[k] = p)]
    /\ outputs' = <<>> /\ all_outputs' = {} /\ primitive_gates' = {}
    /\ UNCHANGED <<given, iter_number, last_iter_simplified, colors, color_id, rewrite>>

(* The gate scanned.                                                        *)
gateId   == Head(todo)
oper     == Type(circuit, gateId)
operands == Operands(circuit, gateId)

\* Mutant of pattern: the first operand is read twice.
pattern_first == Table(oper, tables[operands[1]], tables[operands[1]])

pattern  == Table(oper, tables[operands[1]], tables[operands[Len(operands)]])

\* Mutant of AcceptedTypes: one type is forgotten.
AcceptedWithoutNxor == IF basis = "AIG" THEN {"AND", "NOT"} ELSE TableOperators \ {"NXOR"}

AcceptedTypes == IF basis = "AIG" THEN {"AND", "NOT"} ELSE TableOperators

(* update_primitive_gate: what stands for a gate with the table of a        *)
(* constant, of a parent or of its negation.                                *)
IsPrimitive(table) == table \in {{}, Rows} \cup UNION {{Input(k), Negated(Input(k))} : k \in 1 .. 3}

\* Mutant of PrimitiveGate: the negation of a parent is taken for the parent.
PrimitiveCopy(table, parents) ==
    CASE table = {}   -> GateInfo("XOR", <<parents[1], parents[1]>>)
      [] table = Rows -> GateInfo("NXOR", <<parents[1], parents[1]>>)
      [] OTHER ->
            LET k == CHOOSE k \in 1 .. 3 : table \in {Input(k), Negated(Input(k))}
            IN  GateInfo("AND", <<parents[k], parents[k]>>)

PrimitiveGate(table, parents) ==
    LET twice(type, p) == GateInfo(type, <<p, p>>)
    IN  CASE table = {}   -> twice("XOR", parents[1])
          [] table = Rows -> twice("NXOR", parents[1])
          [] OTHER ->
                LET k == CHOOSE k \in 1 .. 3 : table \in {Input(k), Negated(Input(k))}
                IN  IF table = Input(k) THEN twice("AND", parents[k])
                                        ELSE GateInfo("NOT", <<parents[k]>>)

IsNegationOf(g, o) == Type(circuit, g) = "NOT" /\ Operands(circuit, g)[1] = o

\* The gate is such a negation already.
IsNegatedParent(g, table) ==
    \E k \in 1 .. 3 : table = Negated(Input(k)) /\ IsNegationOf(g, color.parents[k])

(* A real output: its value is needed outside of the subcircuit.            *)
IsOutput(g) ==
    \/ g \in OutputSet(circuit)
    \/ ~(GateUsers(circuit, g) \subseteq ToSet(color.parents) \cup gatesByColor)

(* last_iter_gates_simplification is increased.                             *)
CountIf(changed) ==
    last_iter_simplified' = (last_iter_simplified \/ (basis = "AIG" /\ changed))

Modify(g, info) ==
    /\ gate_info' = [gate_info EXCEPT ![g] = info]
    /\ is_modified' = is_modified \cup {g}
    /\ CountIf(TRUE)

KeepGates == UNCHANGED <<gate_info, is_modified, last_iter_simplified>>

(* One gate of the loop over gatesByColor.  Only outputs that are neither   *)
(* primitive nor equal or opposite to an earlier output are counted; the    *)
(* others become copies or negations at once.                               *)
ScanGate ==
    /\ pc = "scan" /\ todo # <<>> /\ oper \in AcceptedTypes
    /\ todo' = Tail(todo)
    /\ tables' = [g \in DOMAIN tables \cup {gateId} |-> IF g = gateId THEN pattern ELSE tables[g]]
    /\ primitive_gates' = IF IsPrimitive(pattern) /\ ~IsNegatedParent(gateId, pattern)
                          THEN primitive_gates \cup {gateId} ELSE primitive_gates
    /\ all_outputs' = IF IsOutput(gateId) THEN all_outputs \cup {gateId} ELSE all_outputs
    /\ LET Twin(table) == {o \in ToSet(outputs) : tables[o] = table}
           equal    == Twin(pattern)
           opposite == Twin(Negated(pattern))
       IN  \/ /\ ~IsOutput(gateId) \/ (IsPrimitive(pattern) /\ IsNegatedParent(gateId, pattern))
              /\ KeepGates /\ UNCHANGED outputs
           \/ /\ IsOutput(gateId) /\ IsPrimitive(pattern) /\ ~IsNegatedParent(gateId, pattern)
              /\ Modify(gateId, PrimitiveGate(pattern, color.parents)) /\ UNCHANGED outputs
           \/ /\ IsOutput(gateId) /\ ~IsPrimitive(pattern)
              /\ \/ \E o \in equal :
                       Modify(gateId, GateInfo("AND", <<o, o>>)) /\ UNCHANGED outputs
                 \/ \E o \in opposite :
                       /\ IF IsNegationOf(gateId, o) THEN KeepGates
                                                     ELSE Modify(gateId, GateInfo("NOT", <<o>>))
                       /\ UNCHANGED outputs
                 \/ /\ equal \cup opposite = {}
                    /\ outputs' = Append(outputs, gateId)
                    /\ KeepGates
    /\ UNCHANGED <<given, pc, iter_number, colors, color_id, encoder, is_removed>>

(* "Incorrect operation!"                                                   *)
AbortScan ==
    /\ pc = "scan" /\ todo # <<>> /\ oper \notin AcceptedTypes
    /\ pc' = "aborted"
    /\ UNCHANGED <<given, iter_number, last_iter_simplified, colors, color_id, rewrite, scan>>

------------------------------------------------------------------------------
(* The key of the outputs under an assignment of the inputs to the parents, *)
(* and the first assignment for which the database has the key.             *)
KeyUnder(p) == {Renamed(tables[o], p) : o \in ToSet(outputs)}

true_ind == SelectInSeq(Permutations3, LAMBDA p : KeyUnder(p) \in Keys(DB(basis)))

InDB == Len(outputs) <= 3 /\ true_ind # 0

ImprovePrimitives ==
    /\ pc = "scan" /\ todo = <<>> /\ ~InDB
    /\ gate_info' = [g \in DOMAIN gate_info |->
                        IF g \in primitive_gates THEN PrimitiveGate(tables[g], color.parents)
                                                 ELSE gate_info[g]]
    /\ is_modified' = is_modified \cup primitive_gates
    /\ CountIf(primitive_gates # {})
    /\ NextColor
    /\ UNCHANGED <<given, iter_number, colors, encoder, is_removed, scan>>

permutation == Permutations3[true_ind]
entry       == Find(DB(basis), KeyUnder(permutation))

\* Mutant of OperNumberOf: every gate is counted.
GateNumberOf(gates) == Len(gates)

(* OPER_number or AND_number of the subcircuit.                             *)
OperNumberOf(gates) ==
    Len(SelectSeq(gates, LAMBDA g : IF basis = "AIG" THEN Type(circuit, g) = "AND"
                                                     ELSE Len(Operands(circuit, g)) = 2))

IsSmaller == OperNumber(entry) < OperNumberOf(color.gates)

KeepColor ==
    /\ pc = "scan" /\ todo = <<>> /\ InDB /\ ~IsSmaller
    /\ NextColor
    /\ UNCHANGED <<given, iter_number, last_iter_simplified, colors, rewrite, scan>>

(* Which gates of the circuit stand for an output of the entry.             *)
OutputsAt(index) ==
    {o \in ToSet(outputs) : entry.outputs[Renamed(tables[o], permutation)] = index}

\* Mutant of ParentAt: the assignment the other way round.
ParentInverted(k) == color.parents[permutation[k]]

(* The parent that stands for an input of the entry.                        *)
ParentAt(k) == color.parents[CHOOSE j \in 1 .. 3 : permutation[j] = k]

(* New names, and for each entry index the gate that stands for it:         *)
(* parents, outputs, or gates added behind the others.                      *)
NewGatePattern(enc, i) ==
    NewGateName("new_gate_pattern_", <<KeyUnder(permutation), color_id, Len(colors), i, Len(enc)>>)

EntryGates ==
    FoldLeft(LAMBDA b, i :
                IF OutputsAt(i + 3) # {}
                THEN [b EXCEPT !.gate = Append(@, CHOOSE o \in OutputsAt(i + 3) : TRUE)]
                ELSE [enc  |-> EncodeGate(b.enc, NewGatePattern(b.enc, i)),
                      gate |-> Append(b.gate, IdOf(b.enc, NewGatePattern(b.enc, i)))],
             [enc  |-> encoder,
              gate |-> [k \in 1 .. 3 |-> ParentAt(k)]],
             [i \in DOMAIN entry.gates |-> i])

(* The gates of the entry, over the gates that stand for its indices.       *)
Insert(bijection) ==
    LET added == Cardinality({i \in DOMAIN entry.gates : OutputsAt(i + 3) = {}})
        NewInfo(i) == GateInfo(entry.gates[i].type,
                               [k \in DOMAIN entry.gates[i].operands |->
                                   bijection[entry.gates[i].operands[k]]])
    IN  [g \in 1 .. Len(gate_info) + added |->
            IF \E i \in DOMAIN entry.gates : bijection[i + 3] = g
            THEN NewInfo(CHOOSE i \in DOMAIN entry.gates : bijection[i + 3] = g)
            ELSE gate_info[g]]

\* Mutant of Replace: the change does not count.
ReplaceUncounted ==
    /\ pc = "scan" /\ todo = <<>> /\ InDB /\ IsSmaller
    /\ is_removed' = (is_removed \cup gatesByColor) \ all_outputs
    /\ is_modified' = is_modified \cup all_outputs
    /\ \E b \in {EntryGates} :
          /\ encoder' = b.enc
          /\ gate_info' = Insert(b.gate)
    /\ NextColor
    /\ UNCHANGED <<given, iter_number, last_iter_simplified, colors, scan>>

Replace ==
    /\ pc = "scan" /\ todo = <<>> /\ InDB /\ IsSmaller
    /\ is_removed' = (is_removed \cup gatesByColor) \ all_outputs
    /\ is_modified' = is_modified \cup all_outputs
    /\ CountIf(TRUE)
    /\ \E b \in {EntryGates} :
          /\ encoder' = b.enc
          /\ gate_info' = Insert(b.gate)
    /\ NextColor
    /\ UNCHANGED <<given, iter_number, colors, scan>>

Return ==
    /\ pc = "color" /\ color_id \notin DOMAIN colors
    /\ pc' = "done"
    /\ UNCHANGED <<given, iter_number, last_iter_simplified, colors, color_id, rewrite, scan>>

Next ==
    \/ Start \/ Refuse \/ SkipColor \/ StartScan \/ ScanGate \/ AbortScan
    \/ ImprovePrimitives \/ KeepColor \/ Replace \/ Return

\* One thread works through the colors.
Spec == Init /\ [][Next]_vars /\ WF_vars(Next)

------------------------------------------------------------------------------
Result == [gates |-> gate_info, outputs |-> circuit.outputs]

(* transform returns a circuit that computes the same function and an       *)
(* encoder that names every gate of it, the added ones included.            *)
T == INSTANCE Transformer WITH
        source <- circuit, source_names <- names,
        result <- IF pc = "done" THEN Result ELSE [gates |-> <<>>, outputs |-> <<>>],
        result_names <- IF pc = "done" THEN encoder ELSE <<>>, done <- (pc = "done")

ImplementsTransformer == T!Safety

(* Replacing one subcircuit leaves every gate of the circuit with its       *)
(* function, also the removed ones that an operand of a later color may     *)
(* still be computed from: whenever a color is done with, the gates as they *)
(* are now compute what they computed when they were colored.               *)
AllGates(gates, ids) == [gates |-> gates, outputs |-> [g \in ids |-> g]]

GatesKeepFunction ==
    pc = "color" =>
        \A values \in [InputNames(circuit, names) -> {StFalse, StTrue}] :
            OutputStates(AllGates(gate_info, GateIds(circuit)),
                         Assignment(AllGates(gate_info, {}), encoder, values)) =
            OutputStates(AllGates(circuit.gates, GateIds(circuit)),
                         Assignment(circuit, names, values))

(* The truth tables that have been read off a subcircuit are right in the   *)
(* circuit given: whatever the inputs are, the gate has the state that its  *)
(* table has in the row of its parents' states.                             *)
TablesAreRight ==
    pc = "scan" /\ todo = <<>> =>
        \A values \in [InputNames(circuit, names) -> {StFalse, StTrue}] :
            LET state == EvaluateCircuit(AllGates(circuit.gates, GateIds(circuit)),
                                         Assignment(circuit, names, values))
                row   == CHOOSE r \in Rows : \A k \in 1 .. 3 :
                            r \in Input(k) <=> state[color.parents[k]] = StTrue
            IN  \A g \in DOMAIN tables : (state[g] = StTrue) = (row \in tables[g])

(* "try to simplify all subcircuits with 3 inputs"                          *)
(* (three_inputs_optimization_bench.hpp:32): an iteration does not leave    *)
(* more gates, counted as the class counts, than there were.                *)
SizeOf(c) ==
    Cardinality({g \in Cone(c, OutputSet(c)) :
        IF basis = "AIG" THEN Type(c, g) = "AND" ELSE Len(Operands(c, g)) = 2})

NeverGrows == pc = "done" => SizeOf(Result) <= SizeOf(circuit)

(* It does only if gates that it has taken for removed are still needed,    *)
(* and by no more than these.                                               *)
GrowsByKeptOnly ==
    pc = "done" =>
        SizeOf(Result) <= SizeOf(circuit)
                          + Cardinality(is_removed \cap Cone(Result, OutputSet(Result)))

(* The AIG class skips an iteration only after one that has changed no      *)
(* gate: last_iter_simplified is FALSE at the end of an iteration exactly   *)
(* if nothing was rewritten.                                                *)
SkipsOnlyWhenStable ==
    pc = "done" /\ basis = "AIG" /\ ~last_iter_simplified => Result = circuit /\ encoder = names

(* "Represents boolean circuit as Directed Acyclic Graph" (dag.hpp:104).    *)
StaysAcyclic == pc = "done" => IsAcyclic(Result)
==============================================================================
