-------------------------- MODULE EvaluationProofs ---------------------------
(****************************************************************************)
(* Proofs about Evaluation for every set of acyclic circuits and every      *)
(* partial assignment.                                                      *)
(****************************************************************************)
EXTENDS Evaluation, CircuitLemmas

(* Circuit and assignment never change, so the assumption applies to them.  *)
TypeInv ==
    /\ TypeOK
    /\ circuit \in Circuits
    /\ input_asmt \in InputAssignments(circuit)

(* The assumption on the circuits, instantiated for the circuit evaluated.  *)
LEMMA CircuitFacts ==
    ASSUME TypeInv
    PROVE  /\ Len(circuit.gates) \in Nat
           /\ \A g \in GateIds(circuit) : Operands(circuit, g) \in Seq(GateIds(circuit))
           /\ OperandsInside(circuit)
           /\ circuit.outputs \in Seq(GateIds(circuit))
           /\ IsRanking(circuit, ConeSizes(circuit))
<1>1. /\ Len(circuit.gates) \in Nat
      /\ \A g \in GateIds(circuit) : Operands(circuit, g) \in Seq(GateIds(circuit))
      /\ circuit.outputs \in Seq(GateIds(circuit))
      /\ IsAcyclic(circuit)
  BY CircuitsAssumption DEF TypeInv
<1>2. OperandsInside(circuit)
  BY <1>1 DEF OperandsInside, OperandSet
<1>. QED
  BY <1>1, <1>2 DEF IsAcyclic

(* What is pushed are operands that have no mark.                           *)
LEMMA PushesOperands ==
    ASSUME TypeInv, stack # <<>>
    PROVE  Missing \in Seq(OperandSet(circuit, Current))
<1> DEFINE ops == Operands(circuit, Current)
           n == Len(ops)
           keep == {k \in 1 .. n : ops[k] \notin evaluated_}
<1>1. Current \in GateIds(circuit)
  BY DEF TypeInv, TypeOK, Current
<1>2. ops \in Seq(GateIds(circuit)) /\ n \in Nat
  BY <1>1, CircuitFacts
<1>3. PICK f : IsKeptLoop(f, ops, n, keep)
  BY <1>2, KeptLoopExists
<1> DEFINE pushed == CHOOSE pushed : pushed = [k \in 0 .. Len(Operands(circuit, Current)) |->
              IF k = 0 THEN <<>>
              ELSE LET before == pushed[k - 1]
                   IN  IF Operands(circuit, Current)[k] \in evaluated_ THEN before
                       ELSE Append(before, Operands(circuit, Current)[k])]
<1>4. Missing = pushed[n]
  BY DEF Missing
<1>5. f = [k \in 0 .. Len(Operands(circuit, Current)) |->
              IF k = 0 THEN <<>>
              ELSE LET before == f[k - 1]
                   IN  IF Operands(circuit, Current)[k] \in evaluated_ THEN before
                       ELSE Append(before, Operands(circuit, Current)[k])]
  <2>1. \A k \in 0 .. n : k # 0 => (k \in keep <=> ops[k] \notin evaluated_)
    BY <1>2
  <2> HIDE DEF keep
  <2>. QED
    BY <1>3, <2>1 DEF IsKeptLoop
<1>6. pushed = [k \in 0 .. n |->
                  IF k = 0 THEN <<>>
                  ELSE IF ops[k] \in evaluated_ THEN pushed[k - 1] ELSE Append(pushed[k - 1], ops[k])]
  BY <1>5
<1> HIDE DEF pushed
<1>7. IsKeptLoop(pushed, ops, n, keep)
  <2>1. \A k \in 0 .. n : k # 0 => (k \in keep <=> ops[k] \notin evaluated_)
    BY <1>2
  <2> HIDE DEF keep
  <2>. QED
    BY <1>6, <2>1 DEF IsKeptLoop
<1>8. \A k \in 1 .. n : k \in keep => ops[k] \in OperandSet(circuit, Current)
  BY <1>2 DEF OperandSet
<1>9. pushed[n] \in Seq(OperandSet(circuit, Current))
  <2> HIDE DEF ops, n, keep
  <2>. QED
    BY <1>2, <1>7, <1>8, KeptLoopResult
<1>. QED
  BY <1>4, <1>9

(* The states that the operator of the gate on top is applied to.           *)
OperandStates ==
    [i \in DOMAIN Operands(circuit, Current) |-> StateOf(Operands(circuit, Current)[i])]

(* An operator is applied to as many states as its type takes, and its      *)
(* value is a state.                                                        *)
LEMMA OperatorApplied ==
    ASSUME TypeInv, ApplyOperator
    PROVE  /\ Current \in GateIds(circuit)
           /\ Type(circuit, Current) \in OperatorTypes
           /\ OperandStates \in [1 .. Len(Operands(circuit, Current)) -> GateStates]
           /\ Len(Operands(circuit, Current)) \in Nat
           /\ Operator(Type(circuit, Current), OperandStates) \in GateStates
<1>1. Current \in GateIds(circuit)
  BY DEF TypeInv, TypeOK, Current, ApplyOperator
<1>2. Operands(circuit, Current) \in Seq(GateIds(circuit))
  BY <1>1, CircuitFacts
<1>3. ArityOk(Type(circuit, Current), Len(Operands(circuit, Current)))
      /\ Type(circuit, Current) # "INPUT"
  BY DEF ApplyOperator, IsGiven
<1>4. Type(circuit, Current) \in OperatorTypes
  BY <1>3, ArityCases
<1>5. \A g \in GateIds(circuit) : StateOf(g) \in GateStates
  BY DEF StateOf, TypeInv, TypeOK
<1>6. OperandStates \in [1 .. Len(Operands(circuit, Current)) -> GateStates]
  BY <1>2, <1>5 DEF OperandStates
<1>7. Len(Operands(circuit, Current)) \in Nat
  BY <1>2
<1>. QED
  BY <1>1, <1>3, <1>4, <1>6, <1>7, OperatorFacts

(* The machine starts with all variables in their types ...                 *)
LEMMA TypeInvInit == Init => TypeInv
<1> SUFFICES ASSUME Init PROVE TypeInv
  OBVIOUS
<1>1. /\ circuit \in Circuits /\ input_asmt \in InputAssignments(circuit)
      /\ circuit.outputs \in Seq(GateIds(circuit))
      /\ input_asmt \in [GateIds(circuit) -> GateStates]
  BY CircuitsAssumption DEF Init
<1>2. internal_asmt \in [GateIds(circuit) -> GateStates]
  BY DEF Init, NoAssignment, GateStates
<1>. QED
  BY <1>1, <1>2 DEF Init, TypeInv, TypeOK

(* ... and every step keeps all variables in their types.                   *)
LEMMA TypeInvHolds == Spec => []TypeInv
<1>1. Init => TypeInv
  BY TypeInvInit
<1>2. TypeInv /\ [Next]_vars => TypeInv'
  <2> SUFFICES ASSUME TypeInv, [Next]_vars PROVE TypeInv'
    OBVIOUS
  <2> USE DEF TypeInv, TypeOK
  <2>1. CASE NextSink
    BY <2>1 DEF NextSink
  <2>2. ASSUME NEW s \in GateStates, stack # <<>>, pc = "run", Settle(s)
        PROVE  TypeInv'
    <3>1. Current \in GateIds(circuit) /\ Pop \in Seq(GateIds(circuit))
      BY <2>2 DEF Current, Pop
    <3>. QED
      BY <2>2, <3>1 DEF Settle
  <2>3. CASE TakeGiven
    <3>1. Current \in GateIds(circuit)
      BY <2>3 DEF TakeGiven, Current
    <3>. QED
      BY <2>2, <2>3, <3>1 DEF TakeGiven
  <2>4. CASE PushOperands
    <3>1. Current \in GateIds(circuit)
      BY <2>4 DEF PushOperands, Current
    <3>2. OperandSet(circuit, Current) \subseteq GateIds(circuit)
      BY <3>1, CircuitFacts DEF OperandsInside
    <3>3. Missing \in Seq(OperandSet(circuit, Current))
      BY <2>4, PushesOperands DEF PushOperands
    <3>4. Missing \in Seq(GateIds(circuit))
      BY <3>2, <3>3
    <3>. QED
      BY <2>4, <3>4 DEF PushOperands
  <2>5. CASE ApplyOperator
    <3>1. Operator(Type(circuit, Current), OperandStates) \in GateStates
      BY <2>5, OperatorApplied
    <3>2. Settle(Operator(Type(circuit, Current), OperandStates)) /\ stack # <<>> /\ pc = "run"
      BY <2>5 DEF ApplyOperator, OperandStates
    <3>. QED
      BY <2>2, <3>1, <3>2
  <2>6. CASE Abort
    BY <2>6 DEF Abort
  <2>7. CASE Return
    BY <2>7 DEF Return
  <2>8. CASE UNCHANGED vars
    BY <2>8 DEF vars
  <2>. QED
    BY <2>1, <2>3, <2>4, <2>5, <2>6, <2>7, <2>8 DEF Next
<1>. QED
  BY <1>1, <1>2, PTL DEF Spec

(* The type invariant: the stack holds gates of the circuit only, and the   *)
(* operators are applied to states only, with as many operands as they      *)
(* assert, so that what is derived is a state.                              *)
THEOREM TypeCorrect == Spec => []TypeOK
<1>1. TypeInv => TypeOK
  BY DEF TypeInv
<1>. QED
  BY <1>1, TypeInvHolds, PTL

------------------------------------------------------------------------------
(* The inductive invariant.  It speaks of the state that a gate is to have, *)
(* by the recursive definition, and of the gates that matter.               *)
State(g)    == StatesOf(circuit, input_asmt)[g]
Free(g)     == IsFree(circuit, input_asmt, g)

(* The assertions on the number of operands hold.                           *)
CanApply(g) == ArityOk(Type(circuit, g), Len(Operands(circuit, g)))
Cut         == CutAtGiven(circuit, input_asmt)
Live        == Cone(Cut, OutputSet(circuit))

(* What was derived, or found underivable, is what the definition says.     *)
RightStates ==
    \A g \in GateIds(circuit) :
        g \in evaluated_ \/ internal_asmt[g] # StUndef => internal_asmt[g] = State(g)

(* The marks are closed: a gate is marked after its operands.               *)
OperandsFirst ==
    \A g \in evaluated_ : Free(g) => OperandSet(circuit, g) \subseteq evaluated_ /\ CanApply(g)

(* Only gates reachable from the outputs are touched.                       *)
OnlyLive ==
    /\ \A k \in DOMAIN sinks : sinks[k] \in OutputSet(circuit)
    /\ \A k \in DOMAIN stack : stack[k] \in Live
    /\ \A g \in evaluated_ : g \in Live
    /\ \A g \in GateIds(circuit) : internal_asmt[g] # StUndef => g \in Live

(* An output is waiting, at the bottom of the stack, or done with all that  *)
(* it is computed from: only popping the bottom of the stack ends its turn. *)
IsFinished(g) == internal_asmt[g] = State(g) /\ (Free(g) => CanApply(g))

(* All is done that the output o needs.                                     *)
Finished(o) == \A g \in Cone(Cut, {o}) : IsFinished(g)

(* No output is forgotten.                                                  *)
EachOutput ==
    \A o \in OutputSet(circuit) :
        \/ \E k \in DOMAIN sinks : sinks[k] = o
        \/ stack # <<>> /\ stack[1] = o
        \/ Finished(o)

(* Evaluation goes on until nothing is left to do.                          *)
DoneAtEnd == pc = "done" => stack = <<>> /\ sinks = <<>>

(* The inductive invariant.                                                 *)
EvalInv ==
    /\ TypeInv
    /\ RightStates
    /\ OperandsFirst
    /\ OnlyLive
    /\ EachOutput
    /\ DoneAtEnd

(* A set of gates that holds what its free gates are computed from.         *)
HasOperands(T) == \A g \in T : Free(g) => OperandSet(circuit, g) \subseteq T

(* The live gates are the least set that holds the outputs and the operands *)
(* of its free gates, and so are the gates one output is computed from.     *)
LEMMA LiveConeFacts ==
    ASSUME TypeInv
    PROVE  /\ OutputSet(circuit) \subseteq Live
           /\ Live \subseteq GateIds(circuit)
           /\ HasOperands(Live)
           /\ \A T \in SUBSET GateIds(circuit) : \A S \in SUBSET T :
                 HasOperands(T) => Cone(Cut, S) \subseteq T
<1>1. /\ OperandsInside(circuit)
      /\ circuit.outputs \in Seq(GateIds(circuit))
  BY CircuitFacts
<1>2. OutputSet(circuit) \subseteq GateIds(circuit)
  BY <1>1 DEF OutputSet
<1>3. /\ OperandsInside(Cut)
      /\ GateIds(Cut) = GateIds(circuit)
      /\ \A g \in GateIds(circuit) :
            OperandSet(Cut, g) = IF Free(g) THEN OperandSet(circuit, g) ELSE {}
  BY <1>1, CutFacts DEF Cut, Free
<1>4. /\ OutputSet(circuit) \subseteq Live
      /\ Live \subseteq GateIds(circuit)
      /\ IsClosed(Cut, Live)
  BY <1>2, <1>3, ConeProperties DEF Live
<1>5. \A T \in SUBSET GateIds(circuit) : HasOperands(T) <=> IsClosed(Cut, T)
  BY <1>3 DEF HasOperands, IsClosed
<1>6. ASSUME NEW T \in SUBSET GateIds(circuit), NEW S \in SUBSET T, HasOperands(T)
      PROVE  Cone(Cut, S) \subseteq T
  <2>1. S \in SUBSET GateIds(Cut) /\ IsClosed(Cut, T)
    BY <1>3, <1>5, <1>6
  <2>. QED
    BY <1>3, <2>1, ConeProperties
<1>. QED
  BY <1>4, <1>5, <1>6

(* The states satisfy their definition.                                     *)
LEMMA StateEquation ==
    ASSUME TypeInv, NEW g \in GateIds(circuit)
    PROVE  State(g) = IF Free(g)
                      THEN Operator(Type(circuit, g), [i \in DOMAIN Operands(circuit, g) |->
                                                          State(Operands(circuit, g)[i])])
                      ELSE input_asmt[g]
  BY CircuitFacts, StatesEquation DEF State, Free

(* Neither the circuit nor the assignment changes, so that neither do the   *)
(* states that the gates are to have.                                       *)
LEMMA NothingMoves ==
    ASSUME circuit' = circuit, input_asmt' = input_asmt
    PROVE  /\ \A g : State(g)' = State(g) /\ Free(g)' = Free(g) /\ CanApply(g)' = CanApply(g)
           /\ Cut' = Cut /\ Live' = Live
           /\ \A S : Cone(Cut, S)' = Cone(Cut, S)
           /\ OutputSet(circuit)' = OutputSet(circuit)
           /\ GateIds(circuit)' = GateIds(circuit)
           /\ \A g : OperandSet(circuit, g)' = OperandSet(circuit, g)
  BY DEF State, Free, CanApply, Cut, Live

(* get_gate_state_ gives an operand with a mark the state it is to have:    *)
(* where nothing was derived, nothing was given either.                     *)
LEMMA MarkedState ==
    ASSUME EvalInv, NEW g \in evaluated_
    PROVE  StateOf(g) = State(g)
<1>1. g \in GateIds(circuit) /\ internal_asmt[g] = State(g)
  BY DEF EvalInv, RightStates, TypeInv, TypeOK
<1>2. State(g) = StUndef => input_asmt[g] = StUndef
  BY <1>1, StateEquation DEF EvalInv, Free, IsFree
<1>. QED
  BY <1>1, <1>2 DEF StateOf

(* To pop a gate with its right state keeps the invariant, if its operands  *)
(* have their marks: popping the bottom of the stack marks an output, and   *)
(* then all gates it is computed from have marks.                           *)
LEMMA SettleKeeps ==
    ASSUME EvalInv, TypeInv', stack # <<>>, Settle(State(Current)), pc = "run",
           Free(Current) => CanApply(Current) /\ OperandSet(circuit, Current) \subseteq evaluated_
    PROVE  EvalInv'
<1> DEFINE n == Len(stack)
<1>1. /\ circuit' = circuit /\ input_asmt' = input_asmt /\ sinks' = sinks /\ pc' = pc
      /\ internal_asmt' = [internal_asmt EXCEPT ![Current] = State(Current)]
      /\ evaluated_' = evaluated_ \cup {Current}
      /\ stack' = SubSeq(stack, 1, n - 1)
  BY DEF Settle, Pop
<1>2. /\ stack \in Seq(GateIds(circuit)) /\ n \in Nat /\ n > 0
      /\ Current \in GateIds(circuit) /\ Current = stack[n]
      /\ internal_asmt \in [GateIds(circuit) -> GateStates]
      /\ evaluated_ \subseteq GateIds(circuit)
  BY DEF EvalInv, TypeInv, TypeOK, Current
<1>3. /\ \A g : State(g)' = State(g) /\ Free(g)' = Free(g) /\ CanApply(g)' = CanApply(g)
      /\ Cut' = Cut /\ Live' = Live
      /\ \A S : Cone(Cut, S)' = Cone(Cut, S)
      /\ OutputSet(circuit)' = OutputSet(circuit)
      /\ GateIds(circuit)' = GateIds(circuit)
      /\ \A g : OperandSet(circuit, g)' = OperandSet(circuit, g)
  BY <1>1, NothingMoves
<1>4. /\ \A k \in 1 .. n - 1 : stack'[k] = stack[k]
      /\ DOMAIN stack' = 1 .. n - 1
      /\ n = 1 => stack' = <<>>
      /\ n # 1 => stack' # <<>> /\ stack'[1] = stack[1]
  <2>1. Len(stack') = n - 1 /\ \A k \in 1 .. n - 1 : stack'[k] = stack[k]
    BY <1>1, <1>2, PopFacts
  <2>2. stack' \in Seq(GateIds(circuit))
    BY <1>1, <1>2
  <2>. QED
    BY <1>2, <2>1, <2>2
<1>5. RightStates'
  BY <1>1, <1>2, <1>3 DEF EvalInv, RightStates
<1>6. OperandsFirst'
  BY <1>1, <1>2, <1>3 DEF EvalInv, OperandsFirst
<1>7. OnlyLive'
  <2>1. Current \in Live
    BY <1>2 DEF EvalInv, OnlyLive
  <2>. QED
    BY <1>1, <1>2, <1>3, <1>4, <2>1 DEF EvalInv, OnlyLive
<1>8. \A g : IsFinished(g) /\ g \in GateIds(circuit) => IsFinished(g)'
  BY <1>1, <1>2, <1>3 DEF IsFinished
<1>9. ASSUME NEW o \in OutputSet(circuit)
      PROVE  (\/ \E k \in DOMAIN sinks : sinks[k] = o
              \/ stack # <<>> /\ stack[1] = o
              \/ Finished(o))'
  <2>0. OutputSet(circuit) \subseteq GateIds(circuit)
    BY LiveConeFacts DEF EvalInv
  <2>1. CASE \E k \in DOMAIN sinks : sinks[k] = o
    BY <1>1, <2>1
  <2>2. CASE n # 1 /\ stack[1] = o
    BY <1>4, <2>2
  <2>3. CASE n = 1 /\ stack[1] = o
    <3>1. o \in evaluated_' /\ evaluated_' \subseteq GateIds(circuit)
      BY <1>1, <1>2, <2>3
    <3>2. HasOperands(evaluated_')
      BY <1>3, <1>6 DEF HasOperands, OperandsFirst
    <3>3. Cone(Cut, {o}) \subseteq evaluated_'
      BY <3>1, <3>2, LiveConeFacts DEF EvalInv
    <3>4. ASSUME NEW g \in evaluated_' PROVE IsFinished(g)'
      BY <1>3, <1>5, <1>6, <3>1 DEF IsFinished, RightStates, OperandsFirst
    <3>. QED
      BY <1>3, <3>3, <3>4 DEF Finished
  <2>4. CASE Finished(o)
    <3>1. Cone(Cut, {o}) \subseteq GateIds(circuit)
      <4>1. HasOperands(GateIds(circuit))
        BY CircuitFacts DEF EvalInv, HasOperands, OperandsInside
      <4>. QED
        BY <2>0, <4>1, LiveConeFacts DEF EvalInv
    <3>. QED
      BY <1>3, <1>8, <2>4, <3>1 DEF Finished
  <2>. QED
    BY <2>1, <2>2, <2>3, <2>4 DEF EvalInv, EachOutput
<1>10. EachOutput'
  BY <1>3, <1>9 DEF EachOutput
<1>11. DoneAtEnd'
  BY <1>1 DEF DoneAtEnd
<1>. QED
  BY <1>5, <1>6, <1>7, <1>10, <1>11 DEF EvalInv

(* The operator is applied to the states that the operands are to have.     *)
LEMMA RightOperator ==
    ASSUME EvalInv, ApplyOperator
    PROVE  Operator(Type(circuit, Current), OperandStates) = State(Current)
<1>1. /\ Current \in GateIds(circuit) /\ Free(Current)
      /\ OperandSet(circuit, Current) \subseteq evaluated_
  BY OperatorApplied DEF EvalInv, ApplyOperator, operandsEvaluated, IsGiven, Free, IsFree
<1>2. \A i \in DOMAIN Operands(circuit, Current) :
         StateOf(Operands(circuit, Current)[i]) = State(Operands(circuit, Current)[i])
  BY <1>1, MarkedState DEF OperandSet
<1>3. OperandStates =
         [i \in DOMAIN Operands(circuit, Current) |-> State(Operands(circuit, Current)[i])]
  BY <1>2 DEF OperandStates
<1>. QED
  BY <1>1, <1>3, StateEquation DEF EvalInv

(* The invariant holds before the first step ...                            *)
LEMMA EvalInvInit == Init => EvalInv
<1> SUFFICES ASSUME Init PROVE EvalInv
  OBVIOUS
<1>1. TypeInv
  BY TypeInvInit
<1>2. RightStates /\ OperandsFirst
  BY DEF Init, RightStates, OperandsFirst, NoAssignment
<1>3. OnlyLive
  BY DEF Init, OnlyLive, OutputSet, NoAssignment
<1>4. EachOutput /\ DoneAtEnd
  BY DEF Init, EachOutput, OutputSet, DoneAtEnd
<1>. QED
  BY <1>1, <1>2, <1>3, <1>4 DEF EvalInv

(* The next output: it is not waiting any more but at the bottom of the     *)
(* stack.  The marks are reset, the states stay.                            *)
LEMMA NextSinkKeeps ==
    ASSUME EvalInv, TypeInv', NextSink
    PROVE  EvalInv'
<1>1. /\ circuit' = circuit /\ input_asmt' = input_asmt /\ internal_asmt' = internal_asmt
      /\ stack = <<>> /\ sinks # <<>> /\ pc = "run" /\ pc' = "run"
      /\ stack' = <<Head(sinks)>> /\ sinks' = Tail(sinks) /\ evaluated_' = {}
      /\ sinks \in Seq(GateIds(circuit))
  BY DEF NextSink, EvalInv, TypeInv, TypeOK
<1>2. /\ \A g : State(g)' = State(g) /\ Free(g)' = Free(g) /\ CanApply(g)' = CanApply(g)
      /\ Live' = Live
      /\ \A S : Cone(Cut, S)' = Cone(Cut, S)
      /\ OutputSet(circuit)' = OutputSet(circuit)
      /\ GateIds(circuit)' = GateIds(circuit)
  BY <1>1, NothingMoves
<1>3. RightStates' /\ OperandsFirst'
  BY <1>1, <1>2 DEF EvalInv, RightStates, OperandsFirst
<1>4. /\ DOMAIN Tail(sinks) = 1 .. Len(sinks) - 1
      /\ \A k \in 1 .. Len(sinks) - 1 : Tail(sinks)[k] = sinks[k + 1]
      /\ DOMAIN sinks = 1 .. Len(sinks) /\ Len(sinks) \in Nat /\ Len(sinks) > 0
      /\ Head(sinks) = sinks[1]
  BY <1>1
<1>5. OnlyLive'
  <2>1. \A k \in DOMAIN Tail(sinks) : Tail(sinks)[k] \in OutputSet(circuit)
    BY <1>4 DEF EvalInv, OnlyLive
  <2>2. Head(sinks) \in Live
    BY <1>4, LiveConeFacts DEF EvalInv, OnlyLive
  <2>. QED
    BY <1>1, <1>2, <2>1, <2>2 DEF EvalInv, OnlyLive
<1>6. ASSUME NEW o \in OutputSet(circuit)
      PROVE  (\/ \E k \in DOMAIN sinks : sinks[k] = o
              \/ stack # <<>> /\ stack[1] = o
              \/ Finished(o))'
  <2>1. CASE \E k \in DOMAIN sinks : sinks[k] = o
    <3>1. PICK k \in DOMAIN sinks : sinks[k] = o
      BY <2>1
    <3>2. CASE k = 1
      BY <1>1, <1>4, <3>1, <3>2
    <3>3. CASE k # 1
      <4>1. k - 1 \in 1 .. Len(sinks) - 1 /\ (k - 1) + 1 = k
        BY <1>4, <3>3
      <4>2. k - 1 \in DOMAIN Tail(sinks) /\ Tail(sinks)[k - 1] = o
        BY <1>4, <3>1, <4>1
      <4>. QED
        BY <1>1, <4>2
    <3>. QED
      BY <3>2, <3>3
  <2>2. CASE Finished(o)
    BY <1>1, <1>2, <2>2 DEF Finished, IsFinished
  <2>. QED
    BY <1>1, <2>1, <2>2 DEF EvalInv, EachOutput
<1>7. EachOutput' /\ DoneAtEnd'
  BY <1>1, <1>2, <1>6 DEF EachOutput, DoneAtEnd
<1>. QED
  BY <1>3, <1>5, <1>7 DEF EvalInv

(* Pushing: what is pushed are operands of a free live gate.                *)
LEMMA PushOperandsKeeps ==
    ASSUME EvalInv, TypeInv', PushOperands
    PROVE  EvalInv'
<1>1. /\ circuit' = circuit /\ input_asmt' = input_asmt /\ internal_asmt' = internal_asmt
      /\ sinks' = sinks /\ evaluated_' = evaluated_ /\ pc' = pc /\ pc = "run"
      /\ stack # <<>> /\ stack' = stack \o Missing
      /\ stack \in Seq(GateIds(circuit))
  BY DEF PushOperands, EvalInv, TypeInv, TypeOK
<1>2. /\ \A g : State(g)' = State(g) /\ Free(g)' = Free(g) /\ CanApply(g)' = CanApply(g)
      /\ Live' = Live
      /\ \A S : Cone(Cut, S)' = Cone(Cut, S)
      /\ OutputSet(circuit)' = OutputSet(circuit)
      /\ GateIds(circuit)' = GateIds(circuit)
      /\ \A g : OperandSet(circuit, g)' = OperandSet(circuit, g)
  BY <1>1, NothingMoves
<1>3. RightStates' /\ OperandsFirst'
  BY <1>1, <1>2 DEF EvalInv, RightStates, OperandsFirst
<1>4. Current \in Live /\ Free(Current)
  BY <1>1 DEF EvalInv, OnlyLive, Current, PushOperands, IsGiven, Free, IsFree
<1>5. Missing \in Seq(Live)
  <2>1. Missing \in Seq(OperandSet(circuit, Current))
    BY <1>1, PushesOperands DEF EvalInv
  <2>2. OperandSet(circuit, Current) \subseteq Live
    BY <1>4, LiveConeFacts DEF EvalInv, HasOperands
  <2>. QED
    BY <2>1, <2>2
<1>6. stack \in Seq(Live)
  BY <1>1 DEF EvalInv, OnlyLive
<1>7. stack' \in Seq(Live) /\ stack' # <<>> /\ stack'[1] = stack[1]
  BY <1>1, <1>5, <1>6
<1>8. OnlyLive'
  <2>1. \A k \in DOMAIN stack' : stack'[k] \in Live
    BY <1>7
  <2>. QED
    BY <1>1, <1>2, <2>1 DEF EvalInv, OnlyLive
<1>9. EachOutput' /\ DoneAtEnd'
  BY <1>1, <1>2, <1>7 DEF EvalInv, EachOutput, Finished, IsFinished, DoneAtEnd
<1>. QED
  BY <1>3, <1>8, <1>9 DEF EvalInv

(* The steps that end the loop, and steps of nothing.                       *)
LEMMA EndKeeps ==
    ASSUME EvalInv, TypeInv', Abort \/ Return \/ UNCHANGED vars
    PROVE  EvalInv'
<1>1. /\ circuit' = circuit /\ input_asmt' = input_asmt /\ internal_asmt' = internal_asmt
      /\ sinks' = sinks /\ stack' = stack /\ evaluated_' = evaluated_
      /\ pc' = "done" => stack = <<>> /\ sinks = <<>>
  BY DEF Abort, Return, vars, EvalInv, DoneAtEnd
<1>2. /\ \A g : State(g)' = State(g) /\ Free(g)' = Free(g) /\ CanApply(g)' = CanApply(g)
      /\ Live' = Live
      /\ \A S : Cone(Cut, S)' = Cone(Cut, S)
      /\ OutputSet(circuit)' = OutputSet(circuit)
      /\ GateIds(circuit)' = GateIds(circuit)
      /\ \A g : OperandSet(circuit, g)' = OperandSet(circuit, g)
  BY <1>1, NothingMoves
<1>. QED
  BY <1>1, <1>2 DEF EvalInv, RightStates, OperandsFirst, OnlyLive, EachOutput, Finished, IsFinished, DoneAtEnd

(* ... and every step keeps it: two of them move the stacks, the others     *)
(* settle a gate or do nothing that the invariant could tell.               *)
LEMMA EvalInvStep == EvalInv /\ TypeInv' /\ [Next]_vars => EvalInv'
<1> SUFFICES ASSUME EvalInv, TypeInv', [Next]_vars PROVE EvalInv'
  OBVIOUS
<1>1. CASE NextSink
  BY <1>1, NextSinkKeeps
<1>2. CASE TakeGiven
  <2>1. stack # <<>> /\ pc = "run" /\ ~Free(Current)
    BY <1>2 DEF TakeGiven, IsGiven, Free, IsFree
  <2>2. Current \in GateIds(circuit)
    BY <2>1 DEF EvalInv, TypeInv, TypeOK, Current
  <2>3. Settle(State(Current))
    BY <1>2, <2>1, <2>2, StateEquation DEF TakeGiven, EvalInv
  <2>. QED
    BY <2>1, <2>3, SettleKeeps
<1>3. CASE PushOperands
  BY <1>3, PushOperandsKeeps
<1>4. CASE ApplyOperator
  <2>1. Settle(State(Current))
    BY <1>4, RightOperator DEF ApplyOperator, OperandStates
  <2>. QED
    BY <1>4, <2>1, SettleKeeps DEF ApplyOperator, operandsEvaluated, CanApply
<1>5. CASE Abort \/ Return \/ UNCHANGED vars
  BY <1>5, EndKeeps
<1>. QED
  BY <1>1, <1>2, <1>3, <1>4, <1>5 DEF Next

(* The invariant of the stack machine: a gate's mark is set after those of  *)
(* its operands, a state once written is the one the recursive definition   *)
(* gives, and each output is waiting, at work or done.                      *)
THEOREM EvaluationCorrect == Spec => []EvalInv
<1>1. EvalInv /\ TypeInv' /\ [Next]_vars => EvalInv'
  BY EvalInvStep
<1>. QED
  BY <1>1, EvalInvInit, TypeInvHolds, PTL DEF Spec

(* At the end all live gates have their states, and only they.              *)
LEMMA EndStates ==
    ASSUME EvalInv, pc = "done"
    PROVE  /\ internal_asmt = [g \in GateIds(circuit) |-> IF g \in Live THEN State(g) ELSE StUndef]
           /\ \A g \in Live : Free(g) => CanApply(g)
<1>1. ASSUME NEW o \in OutputSet(circuit) PROVE Finished(o)
  BY DEF EvalInv, DoneAtEnd, EachOutput
<1>2. OutputSet(circuit) \subseteq GateIds(circuit)
  BY LiveConeFacts DEF EvalInv
<1> DEFINE T == {g \in GateIds(circuit) : \E o \in OutputSet(circuit) : g \in Cone(Cut, {o})}
<1>3. ASSUME NEW o \in OutputSet(circuit)
      PROVE  o \in Cone(Cut, {o}) /\ HasOperands(Cone(Cut, {o}))
  <2>1. OperandsInside(circuit)
    BY CircuitFacts DEF EvalInv
  <2>2. /\ OperandsInside(Cut)
        /\ GateIds(Cut) = GateIds(circuit)
        /\ \A g \in GateIds(circuit) : Free(g) => OperandSet(Cut, g) = OperandSet(circuit, g)
    BY <2>1, CutFacts DEF Cut, Free
  <2>3. {o} \in SUBSET GateIds(Cut)
    BY <1>2, <2>2
  <2>4. /\ {o} \subseteq Cone(Cut, {o})
        /\ Cone(Cut, {o}) \subseteq GateIds(Cut)
        /\ IsClosed(Cut, Cone(Cut, {o}))
    BY <2>2, <2>3, ConeProperties
  <2>. QED
    BY <2>2, <2>4 DEF IsClosed, HasOperands
<1>4. Live \subseteq T
  <2>1. T \in SUBSET GateIds(circuit) /\ OutputSet(circuit) \in SUBSET T
    BY <1>2, <1>3
  <2>2. HasOperands(T)
    <3>1. OperandsInside(circuit)
      BY CircuitFacts DEF EvalInv
    <3>. QED
      BY <1>3, <3>1 DEF HasOperands, OperandsInside
  <2>. QED
    <3> HIDE DEF T
    <3>. QED
      BY <2>1, <2>2, LiveConeFacts DEF EvalInv, Live
<1>5. ASSUME NEW g \in Live PROVE IsFinished(g)
  BY <1>1, <1>4 DEF Finished
<1>6. internal_asmt \in [GateIds(circuit) -> GateStates]
      /\ \A g \in GateIds(circuit) : g \notin Live => internal_asmt[g] = StUndef
  BY DEF EvalInv, TypeInv, TypeOK, OnlyLive
<1>7. \A g \in Live : internal_asmt[g] = State(g)
  BY <1>5 DEF IsFinished
<1>8. internal_asmt = [g \in GateIds(circuit) |-> internal_asmt[g]]
  BY <1>6
<1>. QED
  BY <1>5, <1>6, <1>7, <1>8 DEF IsFinished

(* evaluateCircuit returns what the recursive definition of a gate's state  *)
(* says, for the gates reachable from the outputs, whatever circuit and     *)
(* partial assignment it is given.                                          *)
THEOREM EvaluationIsDefinition == Spec => []ComputesStates
<1>1. EvalInv => ComputesStates
  <2> SUFFICES ASSUME EvalInv, pc = "done" PROVE internal_asmt = EvaluateCircuit(circuit, input_asmt)
    BY DEF ComputesStates
  <2>1. internal_asmt = [g \in GateIds(circuit) |-> IF g \in Live THEN State(g) ELSE StUndef]
    BY EndStates
  <2>. QED
    BY <2>1 DEF EvaluateCircuit, Live, Cut, State
<1>. QED
  BY <1>1, EvaluationCorrect, PTL

(* No step takes a derived state back or changes it: a gate is evaluated    *)
(* again for each output that shares it, with the same result.              *)
THEOREM DerivedStatesAreFinal == Spec => StatesAreFinal
<1> DEFINE Final == \A g \in GateIds(circuit) :
              internal_asmt[g] # StUndef => internal_asmt'[g] = internal_asmt[g]
<1>1. EvalInv /\ EvalInv' /\ [Next]_vars => [Final]_vars
  <2> SUFFICES ASSUME EvalInv, EvalInv', [Next]_vars, NEW g \in GateIds(circuit),
                      internal_asmt[g] # StUndef
               PROVE  internal_asmt'[g] = internal_asmt[g]
    OBVIOUS
  <2>1. CASE TakeGiven \/ ApplyOperator
    <3>1. PICK s : Settle(s)
      BY <2>1 DEF TakeGiven, ApplyOperator
    <3>2. /\ circuit' = circuit /\ input_asmt' = input_asmt
          /\ internal_asmt' = [internal_asmt EXCEPT ![Current] = s]
          /\ evaluated_' = evaluated_ \cup {Current}
      BY <3>1 DEF Settle
    <3>3. State(g)' = State(g) /\ GateIds(circuit)' = GateIds(circuit)
      BY <3>2, NothingMoves
    <3>4. internal_asmt[g] = State(g)
      BY DEF EvalInv, RightStates
    <3>5. CASE g = Current
      BY <3>2, <3>3, <3>4, <3>5 DEF EvalInv, RightStates
    <3>6. CASE g # Current
      BY <3>2, <3>6 DEF EvalInv, TypeInv, TypeOK
    <3>. QED
      BY <3>5, <3>6
  <2>2. CASE NextSink \/ PushOperands \/ Abort \/ Return \/ UNCHANGED vars
    BY <2>2 DEF NextSink, PushOperands, Abort, Return, vars
  <2>. QED
    BY <2>1, <2>2 DEF Next
<1>. QED
  BY <1>1, EvaluationCorrect, PTL DEF Spec, StatesAreFinal

------------------------------------------------------------------------------
(* What the states mean.                                                    *)

(* A completion of the assignment leaves the same gates free, so that the   *)
(* same gates are live.                                                     *)
LEMMA CompletionFacts ==
    ASSUME TypeInv, NEW a \in Completions(input_asmt)
    PROVE  /\ \A g \in GateIds(circuit) : IsFree(circuit, a, g) <=> Free(g)
           /\ \A g \in GateIds(circuit) : Refines(a[g], input_asmt[g]) /\ a[g] \in GateStates
           /\ CutAtGiven(circuit, a) = Cut
<1>1. ASSUME NEW g \in GateIds(circuit)
      PROVE  /\ IsFree(circuit, a, g) <=> Free(g)
             /\ Refines(a[g], input_asmt[g])
             /\ a[g] \in GateStates
  <2>1. /\ a \in [GateIds(circuit) -> GateStates]
        /\ IF Type(circuit, g) = "INPUT" /\ input_asmt[g] = StUndef
           THEN a[g] # StUndef ELSE a[g] = input_asmt[g]
    BY DEF Completions
  <2>. QED
    BY <2>1 DEF IsFree, Free, Refines
<1>2. CutAtGiven(circuit, a) = Cut
  <2> DEFINE Info(asmt, g) == IF Type(circuit, g) = "INPUT" \/ asmt[g] # StUndef
                              THEN NoGateInfo ELSE circuit.gates[g]
  <2>1. \A g \in GateIds(circuit) : Info(a, g) = Info(input_asmt, g)
    BY <1>1 DEF IsFree, Free
  <2>2. [g \in GateIds(circuit) |-> Info(a, g)] = [g \in GateIds(circuit) |-> Info(input_asmt, g)]
    BY <2>1
  <2>. QED
    BY <2>2 DEF CutAtGiven, Cut
<1>. QED
  BY <1>1, <1>2

(* The operators are applied to more and more states as more inputs are     *)
(* set, and they are monotone: what was implied stays.                      *)
LEMMA StatesRefine ==
    ASSUME TypeInv, NEW a \in Completions(input_asmt),
           \A g \in Live : Free(g) => CanApply(g)
    PROVE  \A g \in Live : /\ State(g) \in GateStates
                          /\ StatesOf(circuit, a)[g] \in GateStates
                          /\ Refines(StatesOf(circuit, a)[g], State(g))
<1> DEFINE New(g) == StatesOf(circuit, a)[g]
           Good == {g \in Live : State(g) \in GateStates /\ New(g) \in GateStates
                                  /\ Refines(New(g), State(g))}
           rank == ConeSizes(circuit)
<1>1. /\ OperandsInside(circuit)
      /\ IsRanking(circuit, rank)
      /\ \A g \in GateIds(circuit) : Operands(circuit, g) \in Seq(GateIds(circuit))
      /\ Live \subseteq GateIds(circuit)
      /\ HasOperands(Live)
      /\ input_asmt \in [GateIds(circuit) -> GateStates]
  BY CircuitFacts, LiveConeFacts DEF TypeInv, TypeOK
<1>2. \A g \in GateIds(circuit) :
         New(g) = IF IsFree(circuit, a, g)
                  THEN Operator(Type(circuit, g), [i \in DOMAIN Operands(circuit, g) |->
                                                      New(Operands(circuit, g)[i])])
                  ELSE a[g]
  BY <1>1, StatesEquation
<1> HIDE DEF New, rank
<1>3. ASSUME NEW g \in Live, \A o \in Live : rank[o] < rank[g] => o \in Good
      PROVE  g \in Good
  <2>1. g \in GateIds(circuit) /\ (IsFree(circuit, a, g) <=> Free(g))
    BY <1>1, CompletionFacts
  <2>2. CASE ~Free(g)
    <3>1. New(g) = a[g] /\ State(g) = input_asmt[g]
      BY <1>2, <2>1, <2>2, StateEquation
    <3>. QED
      BY <1>1, <2>1, <3>1, CompletionFacts
  <2>3. CASE Free(g)
    <3> DEFINE ops == Operands(circuit, g)
               n == Len(ops)
               old == [i \in DOMAIN ops |-> State(ops[i])]
               new == [i \in DOMAIN ops |-> New(ops[i])]
    <3>1. New(g) = Operator(Type(circuit, g), new) /\ State(g) = Operator(Type(circuit, g), old)
      BY <1>2, <2>1, <2>3, StateEquation
    <3>2. ops \in Seq(GateIds(circuit)) /\ n \in Nat /\ DOMAIN ops = 1 .. n
      BY <1>1, <2>1
    <3>3. ASSUME NEW i \in DOMAIN ops PROVE ops[i] \in Good
      <4>1. ops[i] \in Live /\ rank[ops[i]] < rank[g]
        BY <1>1, <2>1, <2>3 DEF HasOperands, OperandSet, IsRanking
      <4> HIDE DEF Good
      <4>. QED
        BY <1>3, <4>1
    <3>4. /\ old \in [1 .. n -> GateStates]
          /\ new \in [1 .. n -> GateStates]
          /\ \A i \in 1 .. n : Refines(new[i], old[i])
      BY <3>2, <3>3
    <3>5. ArityOk(Type(circuit, g), n) /\ Type(circuit, g) \in OperatorTypes
      <4>1. ArityOk(Type(circuit, g), n) /\ Type(circuit, g) # "INPUT"
        BY <2>3 DEF CanApply, Free, IsFree
      <4>. QED
        BY <4>1, ArityCases
    <3> HIDE DEF old, new, n
    <3>6. /\ Operator(Type(circuit, g), old) \in GateStates
          /\ Operator(Type(circuit, g), new) \in GateStates
          /\ Refines(Operator(Type(circuit, g), new), Operator(Type(circuit, g), old))
      <4>1. n \in Nat
        BY <3>2 DEF n
      <4>. QED
        BY <3>4, <3>5, <4>1, OperatorFacts
    <3>. QED
      BY <3>1, <3>6
  <2>. QED
    BY <2>2, <2>3
<1>4. Live \subseteq Good
  <2>1. \A g \in Live : rank[g] \in Nat
    BY <1>1 DEF IsRanking
  <2> HIDE DEF Good
  <2>. QED
    BY <1>3, <2>1, RankInduction
<1>. QED
  BY <1>4 DEF New

(* A state is derived only if the assignment implies it: with the inputs it *)
(* leaves open set in any way, the gate evaluates to that state.            *)
THEOREM DerivedIsImplied == Spec => []ImpliedByInput
<1>1. EvalInv => ImpliedByInput
  <2> SUFFICES ASSUME EvalInv, pc = "done", NEW a \in Completions(input_asmt),
                      NEW g \in GateIds(circuit), internal_asmt[g] # StUndef
               PROVE  EvaluateCircuit(circuit, a)[g] = internal_asmt[g]
    BY DEF ImpliedByInput
  <2>1. /\ internal_asmt = [h \in GateIds(circuit) |-> IF h \in Live THEN State(h) ELSE StUndef]
        /\ \A h \in Live : Free(h) => CanApply(h)
    BY EndStates
  <2>2. g \in Live /\ internal_asmt[g] = State(g)
    BY <2>1
  <2>3. Refines(StatesOf(circuit, a)[g], State(g))
    BY <2>1, <2>2, StatesRefine DEF EvalInv
  <2>4. EvaluateCircuit(circuit, a) =
           [h \in GateIds(circuit) |-> IF h \in Live THEN StatesOf(circuit, a)[h] ELSE StUndef]
    BY CompletionFacts DEF EvalInv, EvaluateCircuit, Live
  <2>. QED
    BY <2>2, <2>3, <2>4 DEF Refines
<1>. QED
  BY <1>1, EvaluationCorrect, PTL

(* The state of a derived gate is its operator's, applied to the states     *)
(* that its operands ended up with.                                         *)
LEMMA DerivedFacts ==
    ASSUME EvalInv, NEW g \in Derived
    PROVE  /\ Len(Operands(circuit, g)) \in Nat
           /\ ArgsOf(g) \in [1 .. Len(Operands(circuit, g)) -> GateStates]
           /\ ArityOk(Type(circuit, g), Len(Operands(circuit, g)))
           /\ Type(circuit, g) \in OperatorTypes
           /\ internal_asmt[g] = Operator(Type(circuit, g), ArgsOf(g))
<1>1. /\ g \in GateIds(circuit) /\ g \in evaluated_ /\ Free(g) /\ Type(circuit, g) # "INPUT"
      /\ internal_asmt \in [GateIds(circuit) -> GateStates]
  BY DEF Derived, IsGiven, Free, IsFree, EvalInv, TypeInv, TypeOK
<1>2. Operands(circuit, g) \in Seq(GateIds(circuit))
  BY <1>1, CircuitFacts DEF EvalInv
<1>3. CanApply(g) /\ OperandSet(circuit, g) \subseteq evaluated_
  BY <1>1 DEF EvalInv, OperandsFirst
<1>4. \A i \in DOMAIN Operands(circuit, g) :
         internal_asmt[Operands(circuit, g)[i]] = State(Operands(circuit, g)[i])
  BY <1>2, <1>3 DEF EvalInv, RightStates, OperandSet
<1>5. ArgsOf(g) = [i \in DOMAIN Operands(circuit, g) |-> State(Operands(circuit, g)[i])]
  BY <1>4 DEF ArgsOf
<1>6. internal_asmt[g] = State(g)
  BY <1>1 DEF EvalInv, RightStates
<1>7. internal_asmt[g] = Operator(Type(circuit, g), ArgsOf(g))
  BY <1>1, <1>5, <1>6, StateEquation DEF EvalInv
<1>8. Type(circuit, g) \in OperatorTypes
  BY <1>1, <1>3, ArityCases DEF CanApply
<1>. QED
  BY <1>1, <1>2, <1>3, <1>7, <1>8 DEF ArgsOf, CanApply

(* The other way round, for one gate: an operator other than MUX that gives *)
(* no state can come out either way, depending on the operands that have no *)
(* state, however many operands it folds and wherever it stops.             *)
THEOREM NothingImpliedIsMissed == Spec => []ImpliedIsGiven
<1>1. EvalInv => ImpliedIsGiven
  <2> SUFFICES ASSUME EvalInv, NEW g \in Derived, Type(circuit, g) # "MUX",
                      internal_asmt[g] = StUndef
               PROVE  {Operator(Type(circuit, g), b) : b \in ArgCompletions(ArgsOf(g))}
                          = {StFalse, StTrue}
    BY DEF ImpliedIsGiven
  <2> DEFINE n == Len(Operands(circuit, g))
             args == ArgsOf(g)
             t == Type(circuit, g)
  <2>1. /\ n \in Nat /\ args \in [1 .. n -> GateStates] /\ ArityOk(t, n)
        /\ t \in OperatorTypes /\ t # "MUX" /\ Operator(t, args) = StUndef
    BY DerivedFacts
  <2> HIDE DEF n, args, t
  <2>2. \A b : b \in ArgCompletions(args) <=> Completes(b, args)
    BY <2>1 DEF ArgCompletions, Completes, Refines
  <2>3. ASSUME NEW v \in {StFalse, StTrue} PROVE \E b \in ArgCompletions(args) : Operator(t, b) = v
    <3>1. Refines(v, Operator(t, args))
      BY <2>1 DEF Refines
    <3>. QED
      BY <2>1, <2>2, <3>1, OperatorFacts
  <2>4. ASSUME NEW b \in ArgCompletions(args) PROVE Operator(t, b) \in {StFalse, StTrue}
    <3>1. b \in [1 .. n -> GateStates] /\ b \in [1 .. n -> {StFalse, StTrue}]
      BY <2>1 DEF ArgCompletions, GateStates
    <3>2. Operator(t, b) \in GateStates
      BY <2>1, <3>1, OperatorFacts
    <3>3. ASSUME Operator(t, b) = StUndef PROVE FALSE
      <4>1. PICK c : Completes(c, b) /\ Operator(t, c) = StFalse
        <5>1. Refines(StFalse, Operator(t, b))
          BY <3>3 DEF Refines
        <5>. QED
          BY <2>1, <3>1, <5>1, OperatorFacts
      <4>2. \A i \in 1 .. n : c[i] = b[i]
        <5>1. \A i \in DOMAIN b : Refines(c[i], b[i])
          BY <4>1 DEF Completes
        <5>2. DOMAIN b = 1 .. n /\ \A i \in 1 .. n : b[i] # StUndef
          BY <3>1 DEF StFalse, StTrue, StUndef
        <5>. QED
          BY <5>1, <5>2 DEF Refines
      <4>3. c = b
        <5>1. c \in [DOMAIN b -> {StFalse, StTrue}]
          BY <4>1 DEF Completes
        <5>2. DOMAIN b = 1 .. n
          BY <3>1
        <5>3. c \in [1 .. n -> {StFalse, StTrue}]
          BY <5>1, <5>2
        <5>4. c = [i \in 1 .. n |-> c[i]] /\ b = [i \in 1 .. n |-> b[i]]
          BY <3>1, <5>3
        <5>. QED
          BY <4>2, <5>4
      <4>. QED
        BY <3>3, <4>1, <4>3 DEF StFalse, StUndef
    <3>. QED
      BY <3>2, <3>3 DEF GateStates
  <2>. QED
    BY <2>3, <2>4 DEF n, args, t
<1>. QED
  BY <1>1, EvaluationCorrect, PTL

(* SimpleOperator, type by type.                                            *)
LEMMA SimpleOperatorCases ==
    ASSUME NEW a, NEW b, NEW c
    PROVE  /\ SimpleOperator("NOT", a, b, c) = NOT(a)
           /\ SimpleOperator("IFF", a, b, c) = IFF(a)
           /\ SimpleOperator("AND", a, b, c) = AND(a, b)
           /\ SimpleOperator("NAND", a, b, c) = NAND(a, b)
           /\ SimpleOperator("OR", a, b, c) = OR(a, b)
           /\ SimpleOperator("NOR", a, b, c) = NOR(a, b)
           /\ SimpleOperator("XOR", a, b, c) = XOR(a, b)
           /\ SimpleOperator("NXOR", a, b, c) = NXOR(a, b)
           /\ SimpleOperator("MUX", a, b, c) = MUX(a, b, c)
           /\ SimpleOperator("CONST_FALSE", a, b, c) = StFalse
           /\ SimpleOperator("CONST_TRUE", a, b, c) = StTrue
BY ZenonT(60) DEF SimpleOperator

(* The two families of operators are one: each type has the same value in   *)
(* both for as many operands as the simple family takes.                    *)
LEMMA FamiliesAgreeOnTwo ==
    ASSUME NEW t \in OperatorTypes, NEW n \in Nat, ArityOk(t, n), t = "MUX" \/ n <= 2,
           NEW a \in [1 .. n -> GateStates], NEW x, NEW y, NEW z,
           1 <= n => x = a[1], 2 <= n => y = a[2], 3 <= n => z = a[3]
    PROVE  SimpleOperator(t, x, y, z) = Operator(t, a)
<1>1. CASE t \in FoldTypes
  <2>1. n = 2 /\ x = a[1] /\ y = a[2] /\ x \in GateStates /\ y \in GateStates
    BY <1>1, ArityCases DEF FoldTypes
  <2>2. ASSUME NEW op, IsStateOperator(op), NEW terminal,
               terminal = StUndef \/ \A w \in GateStates : op[terminal][w] = terminal
        PROVE  FoldMap(op, terminal, a) = op[a[1]][a[2]]
    <3>1. n \in Nat /\ n >= 2 /\ n = 2
      BY <2>1
    <3>2. n = 2 => FoldMap(op, terminal, a) = op[a[1]][a[2]]
      BY <2>2, <3>1, FoldMapFacts
    <3>. QED
      BY <3>1, <3>2
  <2>3. /\ FoldMap(FunctionOf(AND), StFalse, a) = AND(x, y)
        /\ FoldMap(FunctionOf(OR), StTrue, a) = OR(x, y)
        /\ FoldMap(FunctionOf(XOR), StUndef, a) = XOR(x, y)
    <3>1. FoldMap(FunctionOf(AND), StFalse, a) = FunctionOf(AND)[a[1]][a[2]]
      BY <2>2, StateOperators, Zenon
    <3>2. FoldMap(FunctionOf(OR), StTrue, a) = FunctionOf(OR)[a[1]][a[2]]
      BY <2>2, StateOperators, Zenon
    <3>3. FoldMap(FunctionOf(XOR), StUndef, a) = FunctionOf(XOR)[a[1]][a[2]]
      BY <2>2, StateOperators, Zenon
    <3>4. /\ FunctionOf(AND)[x][y] = AND(x, y)
          /\ FunctionOf(OR)[x][y] = OR(x, y)
          /\ FunctionOf(XOR)[x][y] = XOR(x, y)
      BY <2>1 DEF FunctionOf
    <3>. QED
      BY <2>1, <3>1, <3>2, <3>3, <3>4, Zenon
  <2>4. NAND(x, y) = NOT(AND(x, y)) /\ NOR(x, y) = NOT(OR(x, y)) /\ NXOR(x, y) = NOT(XOR(x, y))
    BY <2>1, TablesTyped
  <2>5. /\ Operator("AND", a) = AND(x, y) /\ Operator("NAND", a) = NOT(AND(x, y))
        /\ Operator("OR", a) = OR(x, y) /\ Operator("NOR", a) = NOT(OR(x, y))
        /\ Operator("XOR", a) = XOR(x, y) /\ Operator("NXOR", a) = NOT(XOR(x, y))
    BY <2>3, OperatorCases
  <2>. QED
    BY <1>1, <2>4, <2>5, SimpleOperatorCases DEF FoldTypes
<1>2. /\ Operator("NOT", a) = NOT(a[1]) /\ Operator("IFF", a) = IFF(a[1])
      /\ Operator("MUX", a) = MUX(a[1], a[2], a[3])
      /\ Operator("CONST_FALSE", a) = StFalse /\ Operator("CONST_TRUE", a) = StTrue
  BY OperatorCases
<1>3. CASE t \in {"NOT", "IFF"}
  <2>1. x = a[1]
    BY <1>3, ArityCases
  <2>. QED
    BY <1>2, <1>3, <2>1, SimpleOperatorCases
<1>4. CASE t = "MUX"
  <2>1. x = a[1] /\ y = a[2] /\ z = a[3]
    BY <1>4, ArityCases
  <2>. QED
    BY <1>2, <1>4, <2>1, SimpleOperatorCases
<1>5. CASE t \in {"CONST_FALSE", "CONST_TRUE"}
  BY <1>2, <1>5, SimpleOperatorCases
<1>. QED
  BY <1>1, <1>3, <1>4, <1>5 DEF OperatorTypes

(* Whatever gate of up to two operands, or MUX, was derived by a fold, the  *)
(* tables of getOperator give the same state.                               *)
THEOREM FamiliesAreOne == Spec => []FamiliesAgree
<1>1. EvalInv => FamiliesAgree
  <2> SUFFICES ASSUME EvalInv, NEW g \in Derived,
                      Type(circuit, g) = "MUX" \/ Len(Operands(circuit, g)) <= 2
               PROVE  LET arg(i) == IF i \in DOMAIN ArgsOf(g) THEN ArgsOf(g)[i] ELSE StUndef
                      IN  SimpleOperator(Type(circuit, g), arg(1), arg(2), arg(3)) = internal_asmt[g]
    BY DEF FamiliesAgree
  <2> DEFINE n == Len(Operands(circuit, g))
             arg(i) == IF i \in DOMAIN ArgsOf(g) THEN ArgsOf(g)[i] ELSE StUndef
  <2>1. /\ n \in Nat /\ ArgsOf(g) \in [1 .. n -> GateStates] /\ ArityOk(Type(circuit, g), n)
        /\ Type(circuit, g) \in OperatorTypes
        /\ internal_asmt[g] = Operator(Type(circuit, g), ArgsOf(g))
    BY DerivedFacts
  <2>2. /\ 1 <= n => arg(1) = ArgsOf(g)[1]
        /\ 2 <= n => arg(2) = ArgsOf(g)[2]
        /\ 3 <= n => arg(3) = ArgsOf(g)[3]
    BY <2>1
  <2>3. SimpleOperator(Type(circuit, g), arg(1), arg(2), arg(3)) = Operator(Type(circuit, g), ArgsOf(g))
    <3> HIDE DEF arg
    <3>. QED
      BY <2>1, <2>2, FamiliesAgreeOnTwo
  <2>. QED
    BY <2>1, <2>3
<1>. QED
  BY <1>1, EvaluationCorrect, PTL

==============================================================================
