------------------------------ MODULE Pipeline -------------------------------
(****************************************************************************)
(* Composition, Nest and the strategies: transformers applied one after     *)
(* another, each to the circuit and encoder the one before has returned     *)
(* (src/src/simplification/composition.hpp, nest.hpp, strategy.hpp).  The   *)
(* transformers are the modules of their names, step by step.               *)
(****************************************************************************)
EXTENDS GateEncoder, Circuits, Integers, Sequences, SequencesExt

CONSTANTS
    Tasks,         \* circuits and what is to be done with them: records of a
                   \* circuit and a strategy, a sequence of the names below
    UniqueIds      \* what getUniqueId_ can draw

Transformers == {"RGC", "RGC_true", "DGC", "RNC", "DOC", "CGR"}

ASSUME TasksAssumption ==
    \A task \in Tasks : task.strategy \in Seq(Transformers) /\ task.strategy # <<>>

Circuits == {task.circuit : task \in Tasks}

\* Mutants of the strategies: a transformer is left out, or runs too early, or
\* with the other parameter.
WithoutReduceNot   == <<"RGC", "DOC", "RGC_true", "CGR", "RGC", "DGC">>
ReducerFirst       == <<"RGC", "RGC_true", "CGR", "DOC", "RNC", "RGC", "DGC">>
WithoutLastCleaner == <<"RGC", "DOC", "RGC_true", "CGR", "RNC", "DGC">>
WithoutInputs      == <<"RGC", "DOC", "RGC", "CGR", "RNC", "RGC", "DGC">>

(* strategy.hpp.                                                            *)
RedundantGatesCleaner    == <<"RGC">>
DuplicateGatesCleaner    == <<"RGC", "DGC">>
ReduceNotComposition     == <<"RNC", "RGC">>
ConstantGateReducer      == <<"CGR", "RNC", "RGC", "DGC">>
DuplicateOperandsCleaner == <<"RGC", "DOC", "RGC_true", "CGR", "RNC", "RGC", "DGC">>

(* nest.hpp: n times the same transformers.                                 *)
Nest(n, transformers) == FlattenSeq([i \in 1 .. n |-> transformers])

VARIABLES
    given,             \* the circuit as it came, for the properties only
    strategy,          \* the transformers that are composed
    stage,             \* which of them is running
    circuit, names,    \* what it was given
    \* The state of the running transformer: see its module.
    pc, todo, gate_info, old_to_new_gateId, new_output_gates,
    new_names, encoder, new_gate_name_prefix,
    gateId, encoder_old_to_new,
    safe_mask, aux_names, new_encoder,
    new_operands_, chain_gate, flag,
    id_const_true, id_const_false,
    result_assignment

rgc_locals == <<gateId, encoder_old_to_new>>
dgc_locals == <<safe_mask, aux_names, new_encoder>>
rnc_locals == <<new_operands_, chain_gate, flag>>
doc_locals == <<id_const_true, id_const_false>>
cgr_locals == <<result_assignment>>
shared     == <<todo, gate_info, old_to_new_gateId, new_output_gates, new_names,
                encoder, new_gate_name_prefix>>
locals     == <<pc, shared, rgc_locals, dgc_locals, rnc_locals, doc_locals, cgr_locals>>
vars       == <<given, strategy, stage, circuit, names, locals>>

RGC      == INSTANCE RedundantGatesCleaner WITH preserveInputs <- FALSE
RGC_true == INSTANCE RedundantGatesCleaner WITH preserveInputs <- TRUE
DGC      == INSTANCE DuplicateGatesCleaner
RNC      == INSTANCE ReduceNotComposition
DOC      == INSTANCE DuplicateOperandsCleaner
CGR      == INSTANCE ConstantGateReducer

Init ==
    /\ \E task \in Tasks : given = task.circuit /\ strategy = task.strategy
    /\ stage = 1
    /\ circuit = given /\ names = NaturalNames(given)
    /\ pc = "ready"
    /\ todo = <<>> /\ gate_info = <<>> /\ old_to_new_gateId = <<>> /\ new_output_gates = <<>>
    /\ new_names = <<>> /\ encoder = <<>> /\ new_gate_name_prefix = ""
    /\ gateId = 1 /\ encoder_old_to_new = <<>>
    /\ safe_mask = {} /\ aux_names = <<>> /\ new_encoder = <<>>
    /\ new_operands_ = <<>> /\ chain_gate = 0 /\ flag = FALSE
    /\ id_const_true = 0 /\ id_const_false = 0
    /\ result_assignment = <<>>

Running(transformer) == strategy[stage] = transformer

CleanRedundant ==
    /\ \/ Running("RGC") /\ RGC!Next
       \/ Running("RGC_true") /\ RGC_true!Next
    /\ UNCHANGED <<given, strategy, stage, todo, old_to_new_gateId, encoder, new_gate_name_prefix,
                   dgc_locals, rnc_locals, doc_locals, cgr_locals>>

CleanDuplicateGates ==
    /\ Running("DGC") /\ DGC!Next
    /\ UNCHANGED <<given, strategy, stage, encoder, new_gate_name_prefix,
                   rgc_locals, rnc_locals, doc_locals, cgr_locals>>

ReduceNots ==
    /\ Running("RNC") /\ RNC!Next
    /\ UNCHANGED <<given, strategy, stage, old_to_new_gateId, new_output_gates, new_names,
                   encoder, new_gate_name_prefix,
                   rgc_locals, dgc_locals, doc_locals, cgr_locals>>

CleanDuplicateOperands ==
    /\ Running("DOC") /\ DOC!Next
    /\ UNCHANGED <<given, strategy, stage, new_names,
                   rgc_locals, dgc_locals, rnc_locals, cgr_locals>>

ReduceConstants ==
    /\ Running("CGR") /\ CGR!Next
    /\ UNCHANGED <<given, strategy, stage, new_names,
                   rgc_locals, dgc_locals, rnc_locals, doc_locals>>

(* What the running transformer returns.                                    *)
Result ==
    IF Running("RNC") THEN RNC!Result
                      ELSE [gates |-> gate_info, outputs |-> new_output_gates]

\* Mutant of ResultNames: a changed encoder is not passed on.
StaleNames == names

ResultNames ==
    CASE Running("RNC")                     -> names
      [] Running("DOC") \/ Running("CGR")   -> encoder
      [] OTHER                              -> new_names

(* obj_composition.transform(std::move(_circuit), std::move(_encoder)).     *)
HandOver ==
    /\ pc = "done" /\ stage < Len(strategy)
    /\ stage' = stage + 1
    /\ circuit' = Result
    /\ names' = ResultNames
    /\ pc' = "ready"
    /\ UNCHANGED <<given, strategy, shared, rgc_locals, dgc_locals, rnc_locals, doc_locals, cgr_locals>>

Next ==
    \/ CleanRedundant \/ CleanDuplicateGates \/ ReduceNots
    \/ CleanDuplicateOperands \/ ReduceConstants
    \/ HandOver

\* One thread applies the transformers.
Spec == Init /\ [][Next]_vars /\ WF_vars(Next)

------------------------------------------------------------------------------
Finished == pc = "done" /\ stage = Len(strategy)

Working(transformer) == Running(transformer) /\ pc # "ready"

TypeOK ==
    /\ stage \in DOMAIN strategy
    /\ pc \in {"ready", "encode", "rebuild", "outputs", "name", "build", "gate",
               "walk", "output", "done", "aborted"}
    /\ Working("RGC") => RGC!TypeOK
    /\ Working("RGC_true") => RGC_true!TypeOK
    /\ Working("DGC") => DGC!TypeOK
    /\ Working("RNC") => RNC!TypeOK
    /\ Working("DOC") => DOC!TypeOK
    /\ Working("CGR") => CGR!TypeOK

(* The strategy as a whole promises what each transformer promises: the     *)
(* result is well formed, named, and computes what the given circuit does.  *)
T == INSTANCE Transformer WITH
        source <- given, source_names <- NaturalNames(given),
        result <- IF Finished THEN Result ELSE [gates |-> <<>>, outputs |-> <<>>],
        result_names <- IF Finished THEN ResultNames ELSE <<>>,
        done <- Finished

ImplementsTransformer == T!Safety

(* transform returns, or the assertion of createMiniCircuit_ or the access  *)
(* of get_operand fails: every loop and every walk along a chain of NOT     *)
(* gates ends.                                                              *)
Termination == <>(Finished \/ pc = "aborted")

------------------------------------------------------------------------------
(* What the transformers promise beyond that, each while it is running: see *)
(* the properties of the same names in their modules.                       *)

(* RedundantGatesCleaner_ leaves nothing that no output needs, and with     *)
(* preserveInputs keeps every input.                                        *)
NothingRedundant ==
    /\ Working("RGC") => RGC!NothingRedundant
    /\ Working("RGC_true") => RGC_true!NothingRedundant

(* After its first loop it only looks ids up, and never gives one.          *)
EncoderIsComplete == RGC!EncoderIsComplete

(* "cleans circuit from duplicate gates" (duplicate_gates_cleaner.hpp:22):  *)
(* it leaves no two gates of one type over the same operands.               *)
NoDuplicatesLeft == Working("DGC") => DGC!NoDuplicatesLeft

(* Gates have one id in all places that number them: the two encoders of    *)
(* DuplicateGatesCleaner_ are filled in parallel, and the other two add     *)
(* gates while gates of the source still wait.                              *)
IdsStayAligned ==
    /\ Working("DGC") => DGC!EncodersAgree
    /\ Working("DOC") => DOC!IdsStayAligned
    /\ Working("CGR") => CGR!IdsStayAligned

(* Their links from gates to replacements need to be followed only once.    *)
LinksAreFinal ==
    /\ Working("DOC") => DOC!LinksAreFinal
    /\ Working("CGR") => CGR!LinksAreFinal

(* No gate in use is left with operands that the transformer is there to    *)
(* replace: no chain of NOT gates, no constant, no operand twice or next to *)
(* its negation (but for the auxiliary constants, left to the next one).    *)
OperandsReduced ==
    /\ Working("RNC") => RNC!ChainsAreReduced
    /\ Working("CGR") => CGR!ConstantsUnused
    /\ Working("DOC") => DOC!OperandsReduced

------------------------------------------------------------------------------
(* What a strategy achieves.  The application's is DuplicateOperandsCleaner. *)

Simplified == Finished /\ strategy = DuplicateOperandsCleaner

(* Every transformer works on what those before it leave: a well-formed     *)
(* circuit and an encoder with its gates' names in the order of their ids,  *)
(* as encodeGate and the assertions on new ids need it.                     *)
HandsOverCircuits == WellFormed(circuit) /\ NamesGates(circuit, names)

(* Nothing is left at the end that the strategy could have removed: neither *)
(* the auxiliary gates that transformers leave to later ones, nor a gate no *)
(* output needs, nor a gate whose state is known without any input.         *)
TypesOf(c) == {Type(c, g) : g \in GateIds(c)}

NothingLeftToRemove ==
    Simplified /\ TypesOf(given) \cap {"MUX"} = {} =>
        \A c \in {Result} :
            /\ TypesOf(c) \cap {"CONST_TRUE", "CONST_FALSE", "UNDEFINED"} = {}
            /\ GateIds(c) = Cone(c, OutputSet(c))
            /\ EvaluateCircuit(c, NoAssignment(c)) = NoAssignment(c)

(* The circuit is one that the colorings of subcircuit minimization, which  *)
(* the application runs next, were written for: NOT gates are neither       *)
(* doubled nor chained under a user, though duplicates are only merged      *)
(* after chains have been reduced.                                          *)
FitsColoring == Simplified => \A c \in {Result} : HasPlainNegations(c)

(* A simplification, which ends with DuplicateGatesCleaner_, does not       *)
(* enlarge a circuit, although the transformers add negations, constants    *)
(* and gadgets on the way; only an output of constant value, which has no   *)
(* gate of its own in BENCH basis, may cost gates in the end.               *)
IsConstantOutput(g) ==
    \E state \in {StFalse, StTrue} :
        \A values \in [InputNames(given, NaturalNames(given)) -> {StFalse, StTrue}] :
            EvaluateCircuit(given, Assignment(given, NaturalNames(given), values))[g] = state

NeverGrows ==
    Finished /\ Last(strategy) = "DGC" =>
        \/ Len(Result.gates) <= Len(given.gates)
        \/ \E g \in OutputSet(given) : IsConstantOutput(g)

(* assert(gate_id_input != SIZE_MAX) (constant_gate_reducer.hpp:283); the   *)
(* strategy keeps the inputs for it: "save at least one input"              *)
(* (strategy.hpp:107).                                                      *)
NeverAborts == Running("CGR") /\ InputGates(given) # {} => pc # "aborted"

(* That assertion can only fail when no output depends on an input through  *)
(* any chain of gates, so that the first cleaner has removed them all; the  *)
(* access of get_operand only at a NOT gate that no output needs, from      *)
(* which ConstantGateReducer_ has taken the operand.                        *)
AbortsHaveCause ==
    pc = "aborted" =>
        \/ Running("CGR") /\ InputGates(given) \cap Cone(given, OutputSet(given)) = {}
        \/ /\ Running("RNC") /\ stage > 1 /\ strategy[stage - 1] = "CGR"
           /\ \E g \in GateIds(circuit) \ Cone(circuit, OutputSet(circuit)) :
                 Type(circuit, g) = "NOT" /\ Operands(circuit, g) = <<>>
==============================================================================
