----------------------------- MODULE Evaluation ------------------------------
(****************************************************************************)
(* evaluateCircuit: the stack machine of ICircuit that derives the states   *)
(* of gates from a partial assignment                                       *)
(* (src/src/structures/circuit/icircuit.hpp, vector_assignment.hpp).        *)
(* The outputs are evaluated one after another into one assignment; the     *)
(* marks of evaluated gates are local to each of them.                      *)
(****************************************************************************)
EXTENDS Circuits, Integers, Sequences, FiniteSets

CONSTANTS
    Circuits,            \* the circuits evaluated
    InputAssignments(_)  \* the assignments a circuit is evaluated for

ASSUME CircuitsAssumption ==
    \A c \in Circuits :
        /\ Len(c.gates) \in Nat
        /\ \A g \in GateIds(c) : Operands(c, g) \in Seq(GateIds(c))
        /\ c.outputs \in Seq(GateIds(c))
        /\ IsAcyclic(c)
        /\ InputAssignments(c) \subseteq [GateIds(c) -> GateStates]

VARIABLES
    circuit,
    input_asmt,
    sinks,          \* outputs still to evaluate
    stack,          \* queue_; the top is the last element
    evaluated_,
    internal_asmt,
    pc              \* "run", "done", or "aborted" by an assertion

vars == <<circuit, input_asmt, sinks, stack, evaluated_, internal_asmt, pc>>

Current == stack[Len(stack)]
Pop == SubSeq(stack, 1, Len(stack) - 1)

Init ==
    /\ circuit \in Circuits
    /\ input_asmt \in InputAssignments(circuit)
    /\ sinks = circuit.outputs
    /\ stack = <<>>
    /\ evaluated_ = {}
    /\ internal_asmt = NoAssignment(circuit)
    /\ pc = "run"

\* Mutant of NextSink: each output is given a fresh assignment.
NextSinkAfresh ==
    /\ pc = "run" /\ stack = <<>> /\ sinks # <<>>
    /\ stack' = <<Head(sinks)>>
    /\ sinks' = Tail(sinks)
    /\ evaluated_' = {}
    /\ internal_asmt' = NoAssignment(circuit)
    /\ UNCHANGED <<circuit, input_asmt, pc>>

(* evaluateGate_ starts on the next output with a fresh evaluated_.         *)
NextSink ==
    /\ pc = "run" /\ stack = <<>> /\ sinks # <<>>
    /\ stack' = <<Head(sinks)>>
    /\ sinks' = Tail(sinks)
    /\ evaluated_' = {}
    /\ UNCHANGED <<circuit, input_asmt, internal_asmt, pc>>

IsGiven(g) == Type(circuit, g) = "INPUT" \/ input_asmt[g] # StUndef

\* Mutant of Settle: the gate stays on the stack.
SettleWithoutPop(state) ==
    /\ internal_asmt' = [internal_asmt EXCEPT ![Current] = state]
    /\ evaluated_' = evaluated_ \cup {Current}
    /\ UNCHANGED <<circuit, input_asmt, sinks, stack, pc>>

(* assign, mark, pop.                                                       *)
Settle(state) ==
    /\ internal_asmt' = [internal_asmt EXCEPT ![Current] = state]
    /\ evaluated_' = evaluated_ \cup {Current}
    /\ stack' = Pop
    /\ UNCHANGED <<circuit, input_asmt, sinks, pc>>

(* "Gate state is set or gate is Input."                                    *)
TakeGiven ==
    /\ pc = "run" /\ stack # <<>> /\ IsGiven(Current)
    /\ Settle(input_asmt[Current])

operandsEvaluated == OperandSet(circuit, Current) \subseteq evaluated_

(* The operands without a mark, in their order.                             *)
Missing ==
    LET ops == Operands(circuit, Current)
        pushed[k \in 0 .. Len(ops)] ==
            IF k = 0 THEN <<>>
            ELSE LET before == pushed[k - 1]
                 IN  IF ops[k] \in evaluated_ THEN before ELSE Append(before, ops[k])
    IN  pushed[Len(ops)]

PushOperands ==
    /\ pc = "run" /\ stack # <<>> /\ ~IsGiven(Current)
    /\ ~operandsEvaluated
    /\ stack' = stack \o Missing
    /\ UNCHANGED <<circuit, input_asmt, sinks, evaluated_, internal_asmt, pc>>

\* Mutant of StateOf: what has been derived is not looked at.
GivenStateOf(g) == input_asmt[g]

(* get_gate_state_.                                                         *)
StateOf(g) == IF internal_asmt[g] = StUndef THEN input_asmt[g] ELSE internal_asmt[g]

ApplyOperator ==
    /\ pc = "run" /\ stack # <<>> /\ ~IsGiven(Current)
    /\ operandsEvaluated
    /\ ArityOk(Type(circuit, Current), Len(Operands(circuit, Current)))
    /\ Settle(Operator(Type(circuit, Current),
                       [i \in DOMAIN Operands(circuit, Current) |->
                           StateOf(Operands(circuit, Current)[i])]))

(* The operator asserts its number of operands.                             *)
Abort ==
    /\ pc = "run" /\ stack # <<>> /\ ~IsGiven(Current)
    /\ operandsEvaluated
    /\ ~ArityOk(Type(circuit, Current), Len(Operands(circuit, Current)))
    /\ pc' = "aborted"
    /\ UNCHANGED <<circuit, input_asmt, sinks, stack, evaluated_, internal_asmt>>

Return ==
    /\ pc = "run" /\ stack = <<>> /\ sinks = <<>>
    /\ pc' = "done"
    /\ UNCHANGED <<circuit, input_asmt, sinks, stack, evaluated_, internal_asmt>>

Next == NextSink \/ TakeGiven \/ PushOperands \/ ApplyOperator \/ Abort \/ Return

\* One thread runs the loop to its end.
Spec == Init /\ [][Next]_vars /\ WF_vars(Next)

------------------------------------------------------------------------------
TypeOK ==
    /\ input_asmt \in [GateIds(circuit) -> GateStates]
    /\ sinks \in Seq(GateIds(circuit))
    /\ stack \in Seq(GateIds(circuit))
    /\ evaluated_ \subseteq GateIds(circuit)
    /\ internal_asmt \in [GateIds(circuit) -> GateStates]
    /\ pc \in {"run", "done", "aborted"}

(* The machine computes the recursive definition of a gate's state, for the *)
(* gates reachable from the outputs only ("Evaluates only gates reachable   *)
(* from outputs"): a gate pushed twice, or evaluated again for a later      *)
(* output, makes no difference.                                             *)
ComputesStates ==
    pc = "done" => internal_asmt = EvaluateCircuit(circuit, input_asmt)

(* A state is derived only if the assignment implies it: with the inputs it *)
(* leaves open set in any way, the gate evaluates to that state.  This is   *)
(* what lets ConstantGateReducer replace gates by constants.                *)
Completions(asmt) ==
    {a \in [GateIds(circuit) -> GateStates] :
        \A g \in GateIds(circuit) :
            IF Type(circuit, g) = "INPUT" /\ asmt[g] = StUndef
            THEN a[g] # StUndef ELSE a[g] = asmt[g]}

ImpliedByInput ==
    pc = "done" =>
        \A a \in Completions(input_asmt) :
            LET total == EvaluateCircuit(circuit, a)
            IN  \A g \in GateIds(circuit) :
                    internal_asmt[g] # StUndef => total[g] = internal_asmt[g]

(* The other way round, as far as one gate can tell: an operator other than *)
(* MUX gives every state that the states of its operands imply, although it *)
(* looks at two operands at a time and stops at a terminal state.           *)
Derived == {g \in evaluated_ : ~IsGiven(g)}

ArgsOf(g) == [i \in DOMAIN Operands(circuit, g) |-> internal_asmt[Operands(circuit, g)[i]]]

ArgCompletions(args) ==
    {b \in [DOMAIN args -> {StFalse, StTrue}] :
        \A i \in DOMAIN args : args[i] # StUndef => b[i] = args[i]}

ImpliedIsGiven ==
    \A g \in Derived :
        Type(circuit, g) # "MUX" /\ internal_asmt[g] = StUndef =>
            {Operator(Type(circuit, g), b) : b \in ArgCompletions(ArgsOf(g))} = {StFalse, StTrue}

(* The two families of operators, getOperator for states and getOperatorNT  *)
(* for lists of operands, are one: NAND, NOR and NXOR have tables of their  *)
(* own in one and negate a fold in the other.                               *)
FamiliesAgree ==
    \A g \in Derived :
        Type(circuit, g) = "MUX" \/ Len(Operands(circuit, g)) <= 2 =>
            LET arg(i) == IF i \in DOMAIN ArgsOf(g) THEN ArgsOf(g)[i] ELSE StUndef
            IN  SimpleOperator(Type(circuit, g), arg(1), arg(2), arg(3)) = internal_asmt[g]

(* A state once derived is never taken back or changed, although gates      *)
(* shared by several outputs are evaluated again for each of them.          *)
StatesAreFinal ==
    [][\A g \in GateIds(circuit) :
          internal_asmt[g] # StUndef => internal_asmt'[g] = internal_asmt[g]]_vars

(* The evaluation of an acyclic circuit ends.                               *)
Termination == <>(pc # "run")
==============================================================================
