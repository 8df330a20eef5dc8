----------------------------- MODULE Application -----------------------------
(****************************************************************************)
(* The program: each file of a directory is parsed, simplified by five      *)
(* rounds of cleaning and subcircuit minimization and a last cleaning, and  *)
(* written under its name (src/app/simplifier.cpp).  The parser, the        *)
(* transformers and the minimization are the modules of their names, step   *)
(* by step; what they share with the next file is the statistics object.    *)
(****************************************************************************)
EXTENDS GateEncoder, BenchFormat, Integers, Sequences, SequencesExt

CONSTANTS
    Tasks,      \* directories, functions from paths to files, each with a basis
    UniqueIds,  \* what getUniqueId_ can draw
    DB(_)       \* the database for a basis

ASSUME TasksAssumption ==
    \A task \in Tasks : task.basis \in {"BENCH", "AIG"}

VARIABLES
    files, basis,           \* --input-path and --basis
    remaining,              \* the paths that directory_iterator has still to visit
    path, file,             \* the one being processed, and what it holds
    written,                \* --output
    \* The circuit on its way: parsed in stage 0, then transformed stage by stage.
    strategy, stage, circuit, names,
    given,                  \* the circuit as parsed, for the properties only
    \* CircuitStatsSingleton, as in SubcircuitMinimization.
    iter_number, last_iter_simplified,
    \* The state of the parser or transformer that is running: see its module.
    pc, lines, todo, gate_info, encoder, new_output_gates,
    old_to_new_gateId, new_names, new_gate_name_prefix,
    gateId, encoder_old_to_new,
    safe_mask, aux_names, new_encoder,
    new_operands_, chain_gate, flag,
    id_const_true, id_const_false,
    result_assignment,
    colors, color_id, is_removed, is_modified,
    tables, outputs, all_outputs, primitive_gates

directory  == <<files, basis, remaining, path, file, written>>
passed     == <<strategy, stage, circuit, names, given>>
statistics == <<iter_number, last_iter_simplified>>
common     == <<pc, todo, gate_info, encoder, new_output_gates>>
cleaning   == <<old_to_new_gateId, new_names, new_gate_name_prefix, gateId, encoder_old_to_new,
                safe_mask, aux_names, new_encoder, new_operands_, chain_gate, flag,
                id_const_true, id_const_false, result_assignment>>
minimizing == <<colors, color_id, is_removed, is_modified,
                tables, outputs, all_outputs, primitive_gates>>
vars == <<directory, passed, statistics, lines, common, cleaning, minimizing>>

Parser == INSTANCE BenchParser WITH
              Files <- {}, NextFiles <- {},
              gate_info_vector <- gate_info, output_gate_ids <- new_output_gates

Composed     == INSTANCE Pipeline WITH Tasks <- {}
Minimization == INSTANCE SubcircuitMinimization WITH Tasks <- {}

NUMBER_OF_ITERATIONS == 5

\* The length of the vectors of statistics by iteration.
IterationEntries == 5

(* Composition<Nest<NUMBER_OF_ITERATIONS, DuplicateOperandsCleaner,         *)
(* ThreeInputsSubcircuitMinimization>, DuplicateOperandsCleaner>, or with   *)
(* the BENCH variant in the place of the AIG one.                           *)
applySimplification ==
    Composed!Nest(NUMBER_OF_ITERATIONS, Composed!DuplicateOperandsCleaner \o <<"TIM">>)
    \o Composed!DuplicateOperandsCleaner

Init ==
    /\ \E task \in Tasks : files = task.files /\ basis = task.basis
    /\ remaining = DOMAIN files /\ path = "" /\ file = <<>> /\ written = <<>>
    /\ strategy = <<>> /\ stage = 0 /\ circuit = Parser!NoCircuit /\ names = NoEncoder /\ given = Parser!NoCircuit
    /\ iter_number = 0 /\ last_iter_simplified = FALSE
    /\ pc = "next" /\ lines = <<>> /\ todo = <<>>
    /\ gate_info = <<>> /\ encoder = NoEncoder /\ new_output_gates = <<>>
    /\ old_to_new_gateId = <<>> /\ new_names = <<>> /\ new_gate_name_prefix = ""
    /\ gateId = 1 /\ encoder_old_to_new = <<>>
    /\ safe_mask = {} /\ aux_names = <<>> /\ new_encoder = <<>>
    /\ new_operands_ = <<>> /\ chain_gate = 0 /\ flag = FALSE
    /\ id_const_true = 0 /\ id_const_false = 0 /\ result_assignment = <<>>
    /\ colors = <<>> /\ color_id = 1 /\ is_removed = {} /\ is_modified = {}
    /\ tables = <<>> /\ outputs = <<>> /\ all_outputs = {} /\ primitive_gates = {}

------------------------------------------------------------------------------
(* simplifier() of the next file, in the order of the directory, which may  *)
(* be any.                                                                  *)
OpenFile ==
    /\ pc = "next"
    /\ \E p \in remaining :
          /\ path' = p
          /\ remaining' = remaining \ {p}
          /\ file' = files[p] /\ lines' = file'
    /\ stage' = 0 /\ circuit' = Parser!NoCircuit /\ names' = NoEncoder /\ given' = Parser!NoCircuit
    /\ gate_info' = <<>> /\ encoder' = NoEncoder /\ new_output_gates' = <<>>
    /\ pc' = "parse"
    /\ UNCHANGED <<files, basis, written, strategy, statistics, todo, cleaning, minimizing>>

Parse ==
    /\ stage = 0
    /\ Parser!ParseLine \/ Parser!Instantiate \/ Parser!Throw
    /\ UNCHANGED <<directory, strategy, stage, names, given, statistics, todo, cleaning, minimizing>>

\* Mutant of cleanState: the number of iterations is not reset.
iterations_kept == iter_number

(* cleanState, which leaves last_iter_gates_simplification as it is.        *)
cleanState == 0

StartSimplification ==
    /\ stage = 0 /\ pc = "done"
    /\ iter_number' = cleanState
    /\ strategy' = applySimplification /\ stage' = 1
    /\ names' = encoder /\ given' = circuit
    /\ pc' = "ready"
    /\ UNCHANGED <<directory, circuit, last_iter_simplified, lines, todo, gate_info, encoder,
                   new_output_gates, cleaning, minimizing>>

IsMinimizing == stage > 0 /\ strategy[stage] = "TIM"
IsCleaning   == stage > 0 /\ ~IsMinimizing

Clean ==
    /\ IsCleaning
    /\ Composed!Next
    /\ UNCHANGED <<directory, statistics, lines, minimizing>>

Minimize ==
    /\ IsMinimizing
    /\ Minimization!Next
    /\ UNCHANGED <<directory, strategy, stage, given, lines, new_output_gates, cleaning>>

\* Mutant of MinimizedNames: the encoder as it was before gates were added.
StaleNames == names

MinimizedNames == encoder

HandOverMinimized ==
    /\ IsMinimizing /\ pc = "done"
    /\ stage' = stage + 1
    /\ circuit' = Minimization!Result
    /\ names' = MinimizedNames
    /\ pc' = "ready"
    /\ UNCHANGED <<directory, strategy, given, statistics, lines, todo, gate_info, encoder, new_output_gates,
                   cleaning, minimizing>>

writeResult ==
    /\ stage > 0 /\ stage = Len(strategy) /\ pc = "done"
    /\ written' = [p \in DOMAIN written \cup {path} |->
                      IF p = path THEN writeBenchFile(Composed!Result, Composed!ResultNames)
                                  ELSE written[p]]
    /\ pc' = "next"
    /\ UNCHANGED <<files, basis, remaining, path, file, passed, statistics, lines, todo, gate_info,
                   encoder, new_output_gates, cleaning, minimizing>>

Finished == pc = "aborted" \/ (pc = "next" /\ remaining = {})

\* So that any other stop is a deadlock.
Exit == Finished /\ UNCHANGED vars

Next ==
    \/ OpenFile \/ Parse \/ StartSimplification
    \/ Clean \/ Minimize \/ HandOverMinimized \/ writeResult
    \/ Exit

\* One thread processes the files.
Spec == Init /\ [][Next]_vars /\ WF_vars(Next)

------------------------------------------------------------------------------
(* What is written for a file means what the file does, and can be read     *)
(* again: the whole way from text to text, by names.                        *)
KeepsMeaning ==
    pc = "next" /\ path \in DOMAIN written /\ IsLegal(file) =>
        /\ IsLegal(written[path])
        /\ SameMeaning(file, written[path])

(* Each of the 47 transformers works on what those before it leave: a       *)
(* well-formed circuit with a name for each gate, although minimization     *)
(* makes up names in each iteration that encodeGate would silently take for *)
(* gates of an earlier one.  Minimization gets circuits that the colorings  *)
(* are written for, and never begins an iteration for which the vectors of  *)
(* the statistics, indexed without a check, have no entry left.             *)
HandsOverCircuits ==
    stage > 0 /\ pc = "ready" /\ IsLegal(file) =>
        /\ WellFormed(circuit) /\ NamesGates(circuit, names)
        /\ IsMinimizing => HasPlainNegations(circuit) /\ iter_number < IterationEntries

(* The statistics object that all files share, and whose flag is not reset, *)
(* makes no difference: equal files have equal results, whatever was        *)
(* processed in between.  (In the program they may differ in the prefixes   *)
(* drawn for names.)                                                        *)
FilesAreIndependent ==
    \A p, q \in DOMAIN written : files[p] = files[q] => written[p] = written[q]

(* One file that aborts the program takes those with it that remain.  It is *)
(* a file that means no circuit or one of those the algorithms are not for: *)
(* gates of three operands, gates of the other basis, outputs that need no  *)
(* input.                                                                   *)
BasisTypes ==
    {"INPUT", "NOT", "AND"} \cup (IF basis = "AIG" THEN {} ELSE {"OR", "XOR", "NAND", "NOR", "NXOR"})

IsFit(c) ==
    /\ \A g \in GateIds(c) :
          Type(c, g) \in BasisTypes \cup {"IFF", "CONST_TRUE", "CONST_FALSE"} /\ Len(Operands(c, g)) <= 2
    /\ InputGates(c) \cap Cone(c, OutputSet(c)) # {}

AbortsOnlyOnUnfit == pc = "aborted" => ~IsLegal(file) \/ ~IsFit(Meaning(file))

(* "run specific simplification strategies on the circuit in the provided   *)
(* basis" (simplifier.cpp:40): what is written for a circuit of AND and NOT *)
(* gates consists of such gates.                                            *)
GateTypesIn(f) == {f[i].op : i \in {i \in DOMAIN f : f[i].kind = "gate"}}

StaysInBasis ==
    basis = "AIG" /\ pc = "next" /\ path \in DOMAIN written
    /\ GateTypesIn(file) \subseteq {"AND", "NOT"} =>
        GateTypesIn(written[path]) \subseteq {"AND", "NOT"}
==============================================================================
