--------------------------- MODULE PipelineProofs ----------------------------
(****************************************************************************)
(* What is proved about Pipeline: that a strategy hands a well-formed and   *)
(* named circuit from each transformer to the next and implements           *)
(* Transformer as a whole, from what is proved about the transformers one   *)
(* by one.  Each of them sees the variables of Pipeline as its own; the     *)
(* invariant of its module holds while it runs, that of                     *)
(* ConstantGateReducer_ being stated here.  It needs a prefix that no name  *)
(* has, which getUniqueId_ takes for granted: PrefixIsFree.  One            *)
(* transformer, DuplicateOperandsCleaner_, is not proved to be correct: the *)
(* theorems take that what it returns is, which TLC checks, as a            *)
(* hypothesis, and hold without one for strategies of the others.           *)
(****************************************************************************)
EXTENDS Pipeline, CircuitLemmas

(* The proofs about the transformers, over the variables of Pipeline.       *)
RGCProofs      == INSTANCE RedundantGatesCleanerProofs WITH preserveInputs <- FALSE
RGC_trueProofs == INSTANCE RedundantGatesCleanerProofs WITH preserveInputs <- TRUE
DGCProofs      == INSTANCE DuplicateGatesCleanerProofs
RNCProofs      == INSTANCE ReduceNotCompositionProofs

(* What a transformer returns is well formed and named, computes the        *)
(* function of the circuit it was given, and is one that the next can work  *)
(* on.                                                                      *)
ReturnsCorrect ==
    /\ WellFormed(Result) /\ NamesGates(Result, ResultNames)
    /\ SameFunction(circuit, names, Result, ResultNames)
    /\ Usable(Result) /\ AreNames(ResultNames)

(* What the circuits of the tasks have to be.                               *)
CircuitsFit == \A c \in Circuits : WellFormed(c) /\ Usable(c)

(* The hypothesis about the transformer without proof.                      *)
OthersReturnCorrect == Running("DOC") => (pc = "done" => ReturnsCorrect)

------------------------------------------------------------------------------
(* ConstantGateReducer_ has the notions of Circuits and GateEncoder as its  *)
(* own: they are the same.                                                  *)
LEMMA CGROperators ==
    ASSUME NEW x, NEW y
    PROVE  /\ CGR!GateInfo(x, y) = GateInfo(x, y)
           /\ CGR!Selected(x, y) = Selected(x, y)
           /\ CGR!Cardinality(x) = Cardinality(x)
           /\ CGR!EncodeGate(x, y) = EncodeGate(x, y)
           /\ CGR!IdOf(x, y) = IdOf(x, y)
           /\ CGR!UniquePrefix(x, y) = UniquePrefix(x, y)
           /\ CGR!NewGateName(x, y) = NewGateName(x, y)
<1>1. CGR!Cardinality(x) = Cardinality(x)
  BY DEF CGR!Cardinality, Cardinality
<1>2. CGR!Selected(x, y) = Selected(x, y)
  BY DEF CGR!Selected, Selected
<1>3. CGR!GateInfo(x, y) = GateInfo(x, y)
  BY DEF CGR!GateInfo, GateInfo, CGR!SymmetricOperatorQ, SymmetricOperatorQ, CGR!Sorted, Sorted,
         CGR!Precedes, Precedes, CGR!Cardinality, Cardinality
<1>4. CGR!EncodeGate(x, y) = EncodeGate(x, y)
  BY DEF CGR!EncodeGate, EncodeGate, CGR!KeyExists, KeyExists
<1>5. CGR!IdOf(x, y) = IdOf(x, y)
  BY DEF CGR!IdOf, IdOf, CGR!EncodeGate, EncodeGate, CGR!KeyExists, KeyExists
<1>6. CGR!UniquePrefix(x, y) = UniquePrefix(x, y)
  BY DEF CGR!UniquePrefix, UniquePrefix
<1>7. CGR!NewGateName(x, y) = NewGateName(x, y)
  BY DEF CGR!NewGateName, NewGateName
<1>. QED
  BY <1>1, <1>2, <1>3, <1>4, <1>5, <1>6, <1>7

(* And so are its sort and its evaluation.                                  *)
LEMMA CGREvaluation ==
    ASSUME NEW c
    PROVE  /\ CGR!DFSTopSort(c) = DFSTopSort(c)
           /\ CGR!Backwards(c) = Backwards(c)
           /\ CGR!EvaluateCircuit(c, CGR!NoAssignment(c)) = EvaluateCircuit(c, NoAssignment(c))
<1>1. CGR!DFSTopSort(c) = DFSTopSort(c)
  BY DEF CGR!DFSTopSort, DFSTopSort, CGR!SortFrom, SortFrom, CGR!Sources, Sources, CGR!HasUsers,
         HasUsers, CGR!Postorder, Postorder, CGR!VisitAll, VisitAll, CGR!Leaves, Leaves,
         CGR!OperandSet, OperandSet, CGR!Operands, Operands, CGR!GateIds, GateIds
<1>2. CGR!Backwards(c) = Backwards(c)
  BY DEF CGR!Backwards, Backwards
<1>3. CGR!EvaluateCircuit(c, CGR!NoAssignment(c)) = EvaluateCircuit(c, NoAssignment(c))
  BY DEF CGR!EvaluateCircuit, EvaluateCircuit, CGR!NoAssignment, NoAssignment, CGR!CutAtGiven,
         CutAtGiven, CGR!NoGateInfo, NoGateInfo, CGR!StatesOf, StatesOf, CGR!Cone, Cone,
         CGR!OutputSet, OutputSet, CGR!OperandSet, OperandSet, CGR!Operands, Operands,
         CGR!GateIds, GateIds, CGR!Type, Type, CGR!Operator, Operator, CGR!NOT, NOT, CGR!IFF, IFF,
         CGR!AND, AND, CGR!OR, OR, CGR!XOR, XOR, CGR!MUX, MUX, CGR!Lookup1, Lookup1, CGR!Lookup2,
         Lookup2, CGR!Lookup3, Lookup3, CGR!StFalse, StFalse, CGR!StTrue, StTrue, CGR!StUndef,
         StUndef, CGR!GateStates, GateStates, CGR!FunctionOf, FunctionOf, CGR!FoldMap, FoldMap
<1>. QED
  BY <1>1, <1>2, <1>3

(* The gate that is visited, with its operands' links followed, and what it *)
(* is rebuilt as.                                                           *)
Current        == Head(todo)
CurrentType    == Type(circuit, Current)
CurrentLinks   == LinksOf(circuit, old_to_new_gateId, Current)
RebuiltType    == TypeOver(CurrentType, CurrentLinks, result_assignment)
RebuiltOps     == StayingOf(CurrentLinks, result_assignment)
IsRebuilt      == result_assignment[Current] = StUndef \/ CurrentType \in {"CONST_TRUE", "CONST_FALSE"}

(* The definitions of ConstantGateReducer_ come to these.                   *)
LEMMA CGRRebuilds ==
    ASSUME NEW n \in Nat, Operands(circuit, Current) \in Seq(Nat), n = Len(Operands(circuit, Current))
    PROVE  /\ CGR!Links = CurrentLinks
           /\ CGR!gate_type = RebuiltType
           /\ CGR!operands = IF CurrentType = "MUX" THEN CurrentLinks ELSE RebuiltOps
           /\ CGR!IsRebuilt(CGR!gate_id) <=> IsRebuilt
<1>1. CGR!gate_id = Current /\ CGR!Type(circuit, Current) = CurrentType
  BY DEF CGR!gate_id, Current, CGR!Type, Type, CurrentType
<1>2. CGR!Links = CurrentLinks
  BY <1>1 DEF CGR!Links, CurrentLinks, LinksOf, CGR!Operands, Operands, CGR!getLink_, CGR!NoGate, Target
<1>3. CGR!IsRebuilt(CGR!gate_id) <=> IsRebuilt
  BY <1>1 DEF CGR!IsRebuilt, IsRebuilt, CGR!StUndef, StUndef
<1>4. CGR!operands = IF CurrentType = "MUX" THEN CurrentLinks ELSE RebuiltOps
  BY <1>1, <1>2, CGROperators DEF CGR!operands, RebuiltOps, StayingOf, CGR!SymmetricOperatorQ, CGR!StUndef, StUndef
<1>5. DOMAIN CurrentLinks = 1 .. n /\ Len(CurrentLinks) = n
  BY DEF CurrentLinks, LinksOf
<1>6. CGR!gate_type = RebuiltType
  <2> DEFINE odd == CountIn([i \in DOMAIN CurrentLinks |-> result_assignment[CurrentLinks[i]]], n, {StTrue})
             set == {i \in DOMAIN CurrentLinks : result_assignment[CurrentLinks[i]] = StTrue}
  <2>1. odd = Cardinality(set)
    BY <1>5 DEF CountIn
  <2>2. CGR!Cardinality({i \in DOMAIN CGR!Links : result_assignment[CGR!Links[i]] = CGR!StTrue}) = Cardinality(set)
    BY <1>2, CGROperators DEF CGR!StTrue, StTrue
  <2>3. RebuiltType = IF odd % 2 = 1 /\ CurrentType = "XOR" THEN "NXOR"
                      ELSE IF odd % 2 = 1 /\ CurrentType = "NXOR" THEN "XOR" ELSE CurrentType
    BY <1>5 DEF RebuiltType, TypeOver, ParityType, OddOnes
  <2> HIDE DEF odd, set
  <2>4. /\ CGR!xor_inverse_map["XOR"] = "NXOR" /\ CGR!xor_inverse_map["NXOR"] = "XOR"
        /\ DOMAIN CGR!xor_inverse_map = {"XOR", "NXOR"}
    BY DEF CGR!xor_inverse_map
  <2>. QED
    BY <1>1, <2>1, <2>2, <2>3, <2>4 DEF CGR!gate_type
<1>. QED
  BY <1>2, <1>3, <1>4, <1>6

(* The circuit that comes of it, as far as it has been built.               *)
Gates == [gates |-> gate_info]

(* What holds after all but the gates of W have been visited.               *)
Reducing(W, S, rank) ==
    Reduces(circuit, names, Gates, encoder, old_to_new_gateId, W, S, rank, result_assignment)

(* What has been found of the outputs; `todo` are the others.               *)
Finding(S) == OutputsFound(circuit, names, Gates, encoder, old_to_new_gateId, S, new_output_gates)

(* The outputs that are still to be looked at are the last ones.            *)
OutputsLeft ==
    /\ todo \in Seq(GateIds(circuit))
    /\ Len(new_output_gates) + Len(todo) = Len(circuit.outputs)
    /\ \A i \in DOMAIN todo : todo[i] = circuit.outputs[Len(new_output_gates) + i]

(* While gates are visited, the rest of the queue waits.                    *)
CGRGates ==
    /\ IsQueue(circuit, todo) /\ Len(old_to_new_gateId) = Len(gate_info) /\ new_output_gates = <<>>
    /\ \E S, rank : Reducing(Waiting(todo), S, rank)

(* While outputs are looked at, no gate waits.                              *)
CGROutputs ==
    /\ OutputsLeft /\ (pc = "done" => todo = <<>>)
    /\ \E S, rank : Reducing({}, S, rank) /\ Finding(S)

(* The invariant of ConstantGateReducer_.                                   *)
CGRInv ==
    /\ pc \in {"gate", "output", "done", "aborted"}
    /\ NamesExtended(names, new_gate_name_prefix, encoder, Len(gate_info))
    /\ IF pc = "gate" THEN CGRGates ELSE CGROutputs

(* What it is given, ...                                                    *)
CGRGiven == WellFormed(circuit) /\ Usable(circuit) /\ AreNames(names) /\ NamesGates(circuit, names)

(* ... and a prefix no name has to draw from.                               *)
PrefixIsFree == pc = "ready" /\ Running("CGR") => \E p \in UniqueIds : PrefixFree(p, names)

(* Its first step.                                                          *)
LEMMA CGRStart ==
    ASSUME CGRGiven, \E p \in UniqueIds : PrefixFree(p, names), CGR!Start PROVE CGRInv'
<1>1. /\ pc' = "gate" /\ circuit' = circuit /\ names' = names /\ new_output_gates' = <<>>
      /\ encoder' = names
  BY DEF CGR!Start
<1>2. new_gate_name_prefix' = UniquePrefix(UniqueIds, names)
  BY CGROperators DEF CGR!Start
<1>3. todo' = ReversedSort(circuit)
  BY CGREvaluation DEF CGR!Start, ReversedSort
<1>4. gate_info' = [g \in GateIds(circuit) |-> NoGateInfo]
  BY DEF CGR!Start, CGR!NoGateInfo, NoGateInfo, CGR!GateIds, GateIds
<1>5. old_to_new_gateId' = [g \in GateIds(circuit) |-> 0]
  BY DEF CGR!Start, CGR!NoGate, CGR!GateIds, GateIds
<1>6. result_assignment' = EvaluateCircuit(circuit, NoAssignment(circuit))
  BY CGREvaluation DEF CGR!Start
<1>7. /\ Len(circuit.gates) \in Nat /\ IsRanking(circuit, ConeSizes(circuit)) /\ IdsInRange(circuit)
  BY DEF CGRGiven, WellFormed, IdsInRange, IsAcyclic
<1>8. Len(gate_info') = Len(circuit.gates) /\ Len(old_to_new_gateId') = Len(circuit.gates)
  BY <1>4, <1>5, <1>7 DEF GateIds
<1>9. NamesExtended(names', new_gate_name_prefix', encoder', Len(gate_info'))
  <2>1. PrefixFree(UniquePrefix(UniqueIds, names), names)
    BY PrefixDrawn
  <2>. QED
    BY <1>1, <1>2, <1>7, <1>8, <2>1, NamesBegin DEF CGRGiven
<1>10. IsQueue(circuit, todo') /\ Waiting(todo') = GateIds(circuit)
  <2>1. HasOperandsFirst(circuit, ReversedSort(circuit))
    <3>1. \A g \in GateIds(circuit) : Operands(circuit, g) \in Seq(GateIds(circuit))
      BY WellFormedFacts DEF CGRGiven
    <3>. QED
      BY <1>7, <3>1, ReversedSortFacts
  <2>. QED
    BY <1>3, <2>1, QueueBegins
<1>11. IsReduction(circuit, Gates', old_to_new_gateId', GateIds(circuit), ConeSizes(circuit))
  <2>1. Gates'.gates = gate_info'
    BY DEF Gates
  <2>. QED
    BY <1>4, <1>5, <1>7, <2>1, ReductionBegins
<1>12. Computes(circuit, names, Gates', encoder', old_to_new_gateId', GateIds(circuit), {})
  <2>1. LiveGates(circuit) \subseteq GateIds(circuit)
    BY SomeValues, LiveFacts DEF CGRGiven
  <2>. QED
    BY <2>1, ComputesNothing
<1>13. LinksKnown(circuit, old_to_new_gateId', GateIds(circuit), result_assignment')
  BY <1>5, <1>6, LinksBegin DEF CGRGiven
<1>14. Reducing(Waiting(todo), {}, ConeSizes(circuit))'
  BY <1>1, <1>10, <1>11, <1>12, <1>13 DEF Reducing, Reduces
<1>15. CGRGates'
  BY <1>1, <1>8, <1>10, <1>14 DEF CGRGates
<1>. QED
  BY <1>1, <1>9, <1>15 DEF CGRInv

(* The gate that is visited next.                                           *)
Visiting(S, rank) ==
    /\ CGRGiven /\ pc = "gate" /\ todo # <<>>
    /\ Serves(circuit, names, Gates, encoder, old_to_new_gateId, Waiting(todo), S, rank,
              result_assignment, Current, CurrentLinks)
    /\ encoder[Current] = names[Current]
    /\ NamesExtended(names, new_gate_name_prefix, encoder, Len(gate_info))
    /\ Len(old_to_new_gateId) = Len(gate_info)

(* What is left to visit after it.                                          *)
QueueLeft ==
    /\ IsQueue(circuit, Tail(todo)) /\ Waiting(Tail(todo)) = Waiting(todo) \ {Current}

(* At each visit the operands of the gate have been visited before.         *)
LEMMA CGRVisiting ==
    ASSUME CGRGiven, CGRInv, pc = "gate", todo # <<>>
    PROVE  (\E S, rank : Visiting(S, rank)) /\ QueueLeft
<1>1. CGRGates /\ NamesExtended(names, new_gate_name_prefix, encoder, Len(gate_info))
  BY DEF CGRInv
<1>2. PICK S, rank : Reducing(Waiting(todo), S, rank)
  BY <1>1 DEF CGRGates
<1>3. IsQueue(circuit, todo)
  BY <1>1 DEF CGRGates
<1>4. /\ Current \in GateIds(circuit) /\ Current \in Waiting(todo) /\ QueueLeft
      /\ \A o \in OperandSet(circuit, Current) : o \notin Waiting(todo)
  BY <1>3, QueueServes DEF Current, QueueLeft
<1>5. Serves(circuit, names, Gates, encoder, old_to_new_gateId, Waiting(todo), S, rank,
             result_assignment, Current, CurrentLinks)
  BY <1>2, <1>4 DEF Reducing, Serves, CurrentLinks
<1>6. encoder[Current] = names[Current]
  <2>1. Current \in DOMAIN names
    BY <1>4 DEF CGRGiven, AreNames, NamesGates, GateIds
  <2>. QED
    BY <1>1, <2>1 DEF NamesExtended
<1>7. Visiting(S, rank)
  BY <1>1, <1>5, <1>6 DEF Visiting, CGRGates
<1>. QED
  BY <1>4, <1>7

(* Its operands.                                                            *)
LEMMA CurrentOperands ==
    ASSUME NEW S, NEW rank, Visiting(S, rank)
    PROVE  /\ Operands(circuit, Current) \in Seq(Nat) /\ Len(Operands(circuit, Current)) \in Nat
           /\ Current \in GateIds(circuit)
<1>1. Current \in GateIds(circuit)
  BY DEF Visiting, Serves, Reduces, IsReduction
<1>2. Operands(circuit, Current) \in Seq(GateIds(circuit)) /\ GateIds(circuit) \subseteq Nat
  BY <1>1, WellFormedFacts DEF Visiting, CGRGiven, GateIds
<1>. QED
  BY <1>1, <1>2, SequenceOfMore

(* What it is rebuilt as, in the notions of the module.                     *)
LEMMA CurrentRebuilds ==
    ASSUME NEW S, NEW rank, Visiting(S, rank)
    PROVE  /\ CGR!Links = CurrentLinks
           /\ CGR!gate_type = RebuiltType
           /\ CGR!operands = IF CurrentType = "MUX" THEN CurrentLinks ELSE RebuiltOps
           /\ CGR!IsRebuilt(CGR!gate_id) <=> IsRebuilt
           /\ CurrentType = "MUX" <=> RebuiltType = "MUX"
           /\ CurrentType = "MUX" => RebuiltType = CurrentType
<1>1. /\ CGR!Links = CurrentLinks
      /\ CGR!gate_type = RebuiltType
      /\ CGR!operands = IF CurrentType = "MUX" THEN CurrentLinks ELSE RebuiltOps
      /\ CGR!IsRebuilt(CGR!gate_id) <=> IsRebuilt
  BY CurrentOperands, CGRRebuilds
<1>2. CurrentType = "MUX" <=> RebuiltType = "MUX"
  BY ParityTypes DEF RebuiltType, TypeOver
<1>. QED
  BY <1>1, <1>2

(* What comes of a step that visits it.                                     *)
IsVisitedNext ==
    \E S, rank : Reduces(circuit, names, Gates', encoder', old_to_new_gateId', Waiting(todo) \ {Current},
                         S, rank, result_assignment')

(* What stays when no gate is added.                                        *)
VisitedAs(type, ops, t) ==
    /\ gate_info' = [gate_info EXCEPT ![Current] = GateInfo(type, ops)]
    /\ old_to_new_gateId' = [old_to_new_gateId EXCEPT ![Current] = t]
    /\ encoder' = encoder /\ result_assignment' = result_assignment

(* Which is a visit in the sense of the lemmas.                             *)
LEMMA VisitedGates ==
    ASSUME NEW type, NEW ops, NEW t, VisitedAs(type, ops, t)
    PROVE  IsVisited(Gates, Gates', old_to_new_gateId, old_to_new_gateId', Current, type, ops, t)
  BY DEF VisitedAs, IsVisited, Gates

(* Users of a gate left with one operand are referred to that operand.      *)
LEMMA CGRLinkToOperand ==
    ASSUME NEW S, NEW rank, Visiting(S, rank), CGR!LinkToOperand PROVE IsVisitedNext
<1>1. /\ Len(CGR!operands) = 1 /\ CGR!gate_type \in {"AND", "OR", "XOR", "IFF"}
      /\ CGR!IsRebuilt(CGR!gate_id)
  BY DEF CGR!LinkToOperand
<1>2. /\ CGR!operands = RebuiltOps /\ CGR!gate_type = RebuiltType /\ IsRebuilt
      /\ Len(RebuiltOps) = 1 /\ RebuiltType \in {"AND", "OR", "XOR", "IFF"}
  BY <1>1, CurrentRebuilds
<1>3. CGR!gate_id = Current
  BY DEF CGR!gate_id, Current
<1>4. VisitedAs(RebuiltType, RebuiltOps, RebuiltOps[1])
  BY <1>2, <1>3, CGROperators DEF CGR!LinkToOperand, CGR!Rebuilt, CGR!LinksTo, VisitedAs
<1>5. IsVisited(Gates, Gates', old_to_new_gateId, old_to_new_gateId', Current, RebuiltType, RebuiltOps, RebuiltOps[1])
  BY <1>4, VisitedGates
<1>6. Reduces(circuit, names, Gates', encoder, old_to_new_gateId', Waiting(todo) \ {Current}, S, rank,
              result_assignment)
  BY <1>2, <1>5, VisitToOperand DEF Visiting, CGRGiven, IsRebuilt, RebuiltType, RebuiltOps, CurrentType
<1>. QED
  BY <1>4, <1>6 DEF IsVisitedNext, VisitedAs

(* A MUX is its chosen operand, if its selector is known.                   *)
LEMMA CGRLinkMux ==
    ASSUME NEW S, NEW rank, Visiting(S, rank), CGR!LinkMux PROVE IsVisitedNext
<1> DEFINE s == result_assignment[CurrentLinks[1]]
           t == IF s \in Bits THEN CurrentLinks[ChosenPlace(s)] ELSE Current
<1>1. CGR!gate_type = "MUX" /\ CGR!IsRebuilt(CGR!gate_id)
  BY DEF CGR!LinkMux
<1>2. /\ CurrentType = "MUX" /\ CGR!operands = CurrentLinks /\ CGR!Links = CurrentLinks
      /\ result_assignment[Current] = StUndef /\ CGR!gate_type = "MUX"
  BY <1>1, CurrentRebuilds DEF IsRebuilt
<1>3. CGR!gate_id = Current
  BY DEF CGR!gate_id, Current
<1>4. t = CASE s = CGR!StTrue  -> CurrentLinks[3]
            [] s = CGR!StFalse -> CurrentLinks[2]
            [] OTHER           -> Current
  BY DEF Bits, ChosenPlace, StTrue, StFalse, CGR!StTrue, CGR!StFalse
<1>5. old_to_new_gateId' = [old_to_new_gateId EXCEPT ![Current] = t]
  <2> HIDE DEF t
  <2>1. t = CASE result_assignment[CGR!Links[1]] = CGR!StTrue  -> CGR!Links[3]
              [] result_assignment[CGR!Links[1]] = CGR!StFalse -> CGR!Links[2]
              [] OTHER -> CGR!gate_id
    BY <1>2, <1>3, <1>4
  <2>. QED
    BY <1>3, <2>1 DEF CGR!LinkMux, CGR!LinksTo
<1>6. VisitedAs("MUX", CurrentLinks, t)
  <2> HIDE DEF t
  <2>. QED
    BY <1>2, <1>3, <1>5, CGROperators DEF CGR!LinkMux, CGR!Rebuilt, VisitedAs
<1>7. IsVisited(Gates, Gates', old_to_new_gateId, old_to_new_gateId', Current, "MUX", CurrentLinks, t)
  BY <1>6, VisitedGates
<1>8. \E U : Reduces(circuit, names, Gates', encoder, old_to_new_gateId', Waiting(todo) \ {Current}, U, rank,
                     result_assignment)
  BY <1>2, <1>7, VisitMux DEF Visiting, CGRGiven, CurrentType
<1>. QED
  BY <1>6, <1>8 DEF IsVisitedNext, VisitedAs

(* Another gate stays in its place.                                         *)
LEMMA CGRKeepGate ==
    ASSUME NEW S, NEW rank, Visiting(S, rank), CGR!KeepGate PROVE IsVisitedNext
<1>1. /\ ~ (Len(CGR!operands) = 1 /\ CGR!gate_type \in {"AND", "OR", "XOR", "IFF", "NAND", "NOR", "NXOR"})
      /\ CGR!gate_type # "MUX" /\ CGR!IsRebuilt(CGR!gate_id)
  BY DEF CGR!KeepGate
<1>2. /\ CGR!operands = RebuiltOps /\ CGR!gate_type = RebuiltType /\ IsRebuilt /\ RebuiltType # "MUX"
      /\ ~ (Len(RebuiltOps) = 1 /\ RebuiltType \in {"AND", "OR", "XOR", "IFF", "NAND", "NOR", "NXOR"})
  BY <1>1, CurrentRebuilds
<1>3. CGR!gate_id = Current
  BY DEF CGR!gate_id, Current
<1>4. VisitedAs(RebuiltType, RebuiltOps, Current)
  BY <1>2, <1>3, CGROperators DEF CGR!KeepGate, CGR!Rebuilt, CGR!LinksTo, VisitedAs
<1>5. IsVisited(Gates, Gates', old_to_new_gateId, old_to_new_gateId', Current, RebuiltType, RebuiltOps, Current)
  BY <1>4, VisitedGates
<1>6. \E U : Reduces(circuit, names, Gates', encoder, old_to_new_gateId', Waiting(todo) \ {Current}, U, rank,
                     result_assignment)
  BY <1>2, <1>5, VisitStaying DEF Visiting, CGRGiven, IsRebuilt, RebuiltType, RebuiltOps, CurrentType
<1>. QED
  BY <1>4, <1>6 DEF IsVisitedNext, VisitedAs

(* A gate of known state becomes a constant.                                *)
LEMMA CGRReplaceByConstant ==
    ASSUME NEW S, NEW rank, Visiting(S, rank), CGR!ReplaceByConstant PROVE IsVisitedNext
<1>1. result_assignment[Current] # StUndef
  BY CurrentRebuilds DEF CGR!ReplaceByConstant, IsRebuilt
<1>2. CGR!gate_id = Current
  BY DEF CGR!gate_id, Current
<1>3. old_to_new_gateId' = [old_to_new_gateId EXCEPT ![Current] = 0]
  <2>1. /\ old_to_new_gateId[Current] = 0
        /\ old_to_new_gateId \in Seq(0 .. Len(gate_info))
    BY DEF Visiting, Serves, Reduces, IsReduction, Gates
  <2>. QED
    BY <2>1 DEF CGR!ReplaceByConstant
<1>4. gate_info' = [gate_info EXCEPT ![Current] = GateInfo(ConstantOf(result_assignment[Current]), <<>>)]
  BY <1>2, CGROperators DEF CGR!ReplaceByConstant, ConstantOf, CGR!StTrue, StTrue
<1>5. VisitedAs(ConstantOf(result_assignment[Current]), <<>>, 0)
  BY <1>3, <1>4 DEF CGR!ReplaceByConstant, VisitedAs
<1>6. IsVisited(Gates, Gates', old_to_new_gateId, old_to_new_gateId', Current,
                ConstantOf(result_assignment[Current]), <<>>, 0)
  BY <1>5, VisitedGates
<1>7. \E U : Reduces(circuit, names, Gates', encoder, old_to_new_gateId', Waiting(todo) \ {Current}, U, rank,
                     result_assignment)
  BY <1>1, <1>6, VisitConstant DEF Visiting, CGRGiven, Serves
<1>. QED
  BY <1>5, <1>7 DEF IsVisitedNext, VisitedAs

(* The names and links of a visit, whether or not a gate is added.          *)
VisitsGoOn ==
    /\ IsVisitedNext
    /\ NamesExtended(names, new_gate_name_prefix, encoder', Len(gate_info'))
    /\ Len(old_to_new_gateId') = Len(gate_info')

(* Users of a gate left with one operand of another one are referred to its *)
(* negation, a new gate.                                                    *)
LEMMA CGRLinkToNegation ==
    ASSUME NEW S, NEW rank, Visiting(S, rank), CGR!LinkToNegation PROVE VisitsGoOn
<1> DEFINE n   == Len(gate_info)
           key == NewGateName(new_gate_name_prefix, n + 1)
<1>1. /\ Len(CGR!operands) = 1 /\ CGR!gate_type \in {"NAND", "NOR", "NXOR"}
      /\ CGR!IsRebuilt(CGR!gate_id)
  BY DEF CGR!LinkToNegation
<1>2. /\ CGR!operands = RebuiltOps /\ CGR!gate_type = RebuiltType /\ IsRebuilt
      /\ Len(RebuiltOps) = 1 /\ RebuiltType \in {"NAND", "NOR", "NXOR"}
  BY <1>1, CurrentRebuilds
<1>3. CGR!gate_id = Current
  BY DEF CGR!gate_id, Current
<1>4. PICK longer : IsNameAdded(names, new_gate_name_prefix, encoder, n, key, longer)
  <2>1. NamesExtended(names, new_gate_name_prefix, encoder, n)
    BY DEF Visiting
  <2> HIDE DEF n
  <2>. QED
    BY <2>1, NameAdded
<1>5. CGR!NewName = key
  BY CGROperators DEF CGR!NewName
<1>6. /\ encoder' = longer
      /\ result_assignment' = Append(result_assignment, StUndef)
      /\ old_to_new_gateId' = Append([old_to_new_gateId EXCEPT ![Current] = n + 1], n + 1)
  <2> HIDE DEF n, key
  <2>. QED
    BY <1>3, <1>4, <1>5, CGROperators DEF CGR!LinkToNegation, CGR!StUndef, StUndef, IsNameAdded
<1>7. gate_info' = Append([gate_info EXCEPT ![Current] = GateInfo(RebuiltType, RebuiltOps)],
                          GateInfo("NOT", <<RebuiltOps[1]>>))
  BY <1>2, <1>3, CGROperators DEF CGR!LinkToNegation, CGR!Rebuilt
<1>8. /\ n \in Nat /\ gate_info \in Seq(GateInfos(n)) /\ Len(old_to_new_gateId) = n
      /\ old_to_new_gateId \in Seq(0 .. n) /\ DOMAIN encoder = 1 .. n
  BY DEF Visiting, Serves, Reduces, IsReduction, Gates, NamesExtended, AreNames
<1>9. \A k \in GateIds(Gates) : encoder'[k] = encoder[k]
  BY <1>4, <1>6, <1>8 DEF GateIds, Gates, IsNameAdded
<1>10. \E U, more : Reduces(circuit, names, Gates', encoder', old_to_new_gateId', Waiting(todo) \ {Current},
                            U, more, result_assignment')
  <2>1. IsVisitedNegated(Gates, encoder, Gates', encoder', old_to_new_gateId, old_to_new_gateId',
                         result_assignment, result_assignment', Current, RebuiltType, RebuiltOps)
    BY <1>6, <1>7, <1>8, <1>9 DEF IsVisitedNegated, Gates
  <2>2. /\ WellFormed(circuit) /\ Usable(circuit)
        /\ Serves(circuit, names, Gates, encoder, old_to_new_gateId, Waiting(todo), S, rank,
                  result_assignment, Current, CurrentLinks)
    BY DEF Visiting, CGRGiven
  <2>3. /\ result_assignment[Current] = StUndef \/ Type(circuit, Current) \in {"CONST_TRUE", "CONST_FALSE"}
        /\ RebuiltType = TypeOver(Type(circuit, Current), CurrentLinks, result_assignment)
        /\ RebuiltOps = StayingOf(CurrentLinks, result_assignment)
    BY <1>2 DEF IsRebuilt, RebuiltType, RebuiltOps, CurrentType
  <2>. QED
    BY ONLY <1>2, <2>1, <2>2, <2>3, VisitToNegation
<1>11. Len(gate_info') = n + 1 /\ Len(old_to_new_gateId') = n + 1
  <2>1. /\ Len([gate_info EXCEPT ![Current] = GateInfo(RebuiltType, RebuiltOps)]) = n
        /\ DOMAIN [gate_info EXCEPT ![Current] = GateInfo(RebuiltType, RebuiltOps)] = 1 .. n
    BY <1>8
  <2>2. /\ Len([old_to_new_gateId EXCEPT ![Current] = n + 1]) = n
        /\ DOMAIN [old_to_new_gateId EXCEPT ![Current] = n + 1] = 1 .. n
    BY <1>8
  <2>. QED
    BY <1>6, <1>7, <1>8, <2>1, <2>2
<1>. QED
  BY <1>4, <1>6, <1>10, <1>11 DEF VisitsGoOn, IsVisitedNext, IsNameAdded

(* A visit without a new gate.                                              *)
LEMMA CGRVisitInPlace ==
    ASSUME NEW S, NEW rank, Visiting(S, rank),
           CGR!LinkToOperand \/ CGR!LinkMux \/ CGR!KeepGate \/ CGR!ReplaceByConstant
    PROVE  VisitsGoOn
<1>1. IsVisitedNext
  BY CGRLinkToOperand, CGRLinkMux, CGRKeepGate, CGRReplaceByConstant
<1>2. encoder' = encoder
  BY DEF CGR!LinkToOperand, CGR!LinkMux, CGR!KeepGate, CGR!ReplaceByConstant
<1>3. /\ gate_info \in Seq(GateInfos(Len(gate_info)))
      /\ old_to_new_gateId \in Seq(0 .. Len(gate_info))
      /\ Len(old_to_new_gateId) = Len(gate_info)
  BY DEF Visiting, Serves, Reduces, IsReduction, Gates
<1>4. \E x : gate_info' = [gate_info EXCEPT ![CGR!gate_id] = x]
  BY DEF CGR!LinkToOperand, CGR!LinkMux, CGR!KeepGate, CGR!ReplaceByConstant, CGR!Rebuilt
<1>5. Len(gate_info') = Len(gate_info)
  BY <1>3, <1>4
<1>6. \/ old_to_new_gateId' = old_to_new_gateId
      \/ \E x : old_to_new_gateId' = [old_to_new_gateId EXCEPT ![CGR!gate_id] = x]
  BY DEF CGR!LinkToOperand, CGR!LinkMux, CGR!KeepGate, CGR!ReplaceByConstant, CGR!LinksTo
<1>7. Len(old_to_new_gateId') = Len(old_to_new_gateId)
  BY <1>3, <1>6
<1>8. NamesExtended(names, new_gate_name_prefix, encoder', Len(gate_info'))
  BY <1>2, <1>5 DEF Visiting
<1>. QED
  BY <1>1, <1>3, <1>5, <1>7, <1>8 DEF VisitsGoOn

(* A step of the first loop.                                                *)
LEMMA CGRVisitStep ==
    ASSUME CGRGiven, CGRInv, pc = "gate", todo # <<>>, CGR!Next PROVE CGRInv'
<1>1. \/ CGR!LinkToNegation
      \/ CGR!LinkToOperand \/ CGR!LinkMux \/ CGR!KeepGate \/ CGR!ReplaceByConstant
  BY DEF CGR!Next, CGR!Start, CGR!GatesDone, CGR!MoveOutput, CGR!BuildGadget, CGR!Abort,
         CGR!Return, CGR!AtOutput
<1>2. /\ pc' = pc /\ circuit' = circuit /\ names' = names /\ new_output_gates' = new_output_gates
      /\ new_gate_name_prefix' = new_gate_name_prefix /\ todo' = Tail(todo)
  BY <1>1 DEF CGR!LinkToNegation, CGR!LinkToOperand, CGR!LinkMux, CGR!KeepGate,
              CGR!ReplaceByConstant, CGR!Visit
<1>3. (\E S, rank : Visiting(S, rank)) /\ QueueLeft /\ new_output_gates = <<>>
  BY CGRVisiting DEF CGRInv, CGRGates
<1>4. VisitsGoOn
  BY <1>1, <1>3, CGRLinkToNegation, CGRVisitInPlace
<1>5. IsQueue(circuit', todo') /\ Waiting(todo') = Waiting(todo) \ {Current}
  BY <1>2, <1>3 DEF QueueLeft
<1>6. \E S, rank : Reducing(Waiting(todo), S, rank)'
  <2>1. PICK S, rank : Reduces(circuit, names, Gates', encoder', old_to_new_gateId', Waiting(todo) \ {Current},
                               S, rank, result_assignment')
    BY <1>4 DEF VisitsGoOn, IsVisitedNext
  <2>2. Reducing(Waiting(todo), S, rank)'
    BY <1>2, <1>5, <2>1 DEF Reducing
  <2>. QED
    BY <2>2
<1>7. CGRGates'
  BY <1>2, <1>3, <1>4, <1>5, <1>6 DEF CGRGates, VisitsGoOn
<1>8. NamesExtended(names', new_gate_name_prefix', encoder', Len(gate_info'))
  BY <1>2, <1>4 DEF VisitsGoOn
<1>. QED
  BY <1>2, <1>7, <1>8 DEF CGRInv

(* The outputs are looked at when no gate is left to visit.                 *)
LEMMA CGRGatesDone ==
    ASSUME CGRGiven, CGRInv, CGR!GatesDone PROVE CGRInv'
<1>1. /\ pc = "gate" /\ todo = <<>> /\ pc' = "output" /\ todo' = circuit.outputs
      /\ UNCHANGED <<circuit, names, new_gate_name_prefix, encoder, gate_info, old_to_new_gateId,
                     result_assignment, new_output_gates>>
  BY DEF CGR!GatesDone
<1>2. CGRGates /\ NamesExtended(names, new_gate_name_prefix, encoder, Len(gate_info))
  BY <1>1 DEF CGRInv
<1>3. PICK S, rank : Reducing({}, S, rank)
  <2>1. Waiting(todo) = {}
    BY <1>1, NoneWaits
  <2>. QED
    BY <1>2, <2>1 DEF CGRGates
<1>4. circuit.outputs \in Seq(GateIds(circuit)) /\ Len(circuit.outputs) \in Nat
  BY WellFormedFacts DEF CGRGiven
<1>5. new_output_gates = <<>> /\ Len(new_output_gates) = 0 /\ DOMAIN new_output_gates = {}
  BY <1>2 DEF CGRGates
<1>6. OutputsLeft'
  <2>1. Len(new_output_gates') + Len(todo') = Len(circuit'.outputs)
    BY <1>1, <1>4, <1>5
  <2>2. \A i \in DOMAIN todo' : todo'[i] = circuit'.outputs[Len(new_output_gates') + i]
    BY <1>1, <1>4, <1>5
  <2>. QED
    BY <1>1, <1>4, <2>1, <2>2 DEF OutputsLeft
<1>7. Finding(S)'
  <2>1. new_output_gates' \in Seq(S) /\ Len(new_output_gates') <= Len(circuit'.outputs)
    BY <1>1, <1>4, <1>5
  <2>. QED
    BY <1>1, <1>5, <2>1 DEF Finding, OutputsFound
<1>8. Reducing({}, S, rank)'
  BY <1>1, <1>3 DEF Reducing, Gates
<1>9. CGROutputs'
  BY <1>1, <1>6, <1>7, <1>8 DEF CGROutputs
<1>. QED
  BY <1>1, <1>2, <1>9 DEF CGRInv

(* The output that is looked at next, and what is left after it.            *)
AtNextOutput(S, rank, o) ==
    /\ CGRGiven /\ Reducing({}, S, rank) /\ Finding(S)
    /\ o = Head(todo) /\ o \in OutputSet(circuit)
    /\ Len(circuit.outputs) \in Nat /\ Len(new_output_gates) + 1 <= Len(circuit.outputs)
    /\ circuit.outputs[Len(new_output_gates) + 1] = o

(* What is left of the outputs after it.                                    *)
LeftAfter ==
    /\ Tail(todo) \in Seq(GateIds(circuit))
    /\ Len(new_output_gates) + 1 + Len(Tail(todo)) = Len(circuit.outputs)
    /\ \A i \in DOMAIN Tail(todo) : Tail(todo)[i] = circuit.outputs[Len(new_output_gates) + 1 + i]

(* The output that is looked at is the next one of the circuit.             *)
LEMMA CGRNextOutput ==
    ASSUME CGRGiven, CGROutputs, todo # <<>>
    PROVE  (\E S, rank, o : AtNextOutput(S, rank, o)) /\ LeftAfter
<1>1. OutputsLeft /\ \E S, rank : Reducing({}, S, rank) /\ Finding(S)
  BY DEF CGROutputs
<1>2. PICK S, rank : Reducing({}, S, rank) /\ Finding(S)
  BY <1>1
<1>3. circuit.outputs \in Seq(GateIds(circuit)) /\ Len(circuit.outputs) \in Nat
  BY WellFormedFacts DEF CGRGiven
<1>4. Len(new_output_gates) \in Nat
  BY <1>2 DEF Finding, OutputsFound
<1> DEFINE n == Len(new_output_gates)
           o == Head(todo)
<1>5. /\ todo \in Seq(GateIds(circuit)) /\ Len(todo) >= 1
      /\ n + Len(todo) = Len(circuit.outputs)
      /\ \A i \in 1 .. Len(todo) : todo[i] = circuit.outputs[n + i]
  BY <1>1 DEF OutputsLeft
<1>6. o = circuit.outputs[n + 1] /\ n + 1 \in DOMAIN circuit.outputs
  BY <1>3, <1>4, <1>5
<1>7. AtNextOutput(S, rank, o)
  BY <1>2, <1>3, <1>4, <1>5, <1>6 DEF AtNextOutput, OutputSet
<1>8. LeftAfter
  <2>1. /\ Tail(todo) \in Seq(GateIds(circuit)) /\ Len(Tail(todo)) = Len(todo) - 1
        /\ \A i \in 1 .. Len(todo) - 1 : Tail(todo)[i] = todo[i + 1]
    BY <1>5
  <2>2. \A i \in DOMAIN Tail(todo) : Tail(todo)[i] = circuit.outputs[n + 1 + i]
    <3> SUFFICES ASSUME NEW i \in 1 .. Len(todo) - 1 PROVE Tail(todo)[i] = circuit.outputs[n + 1 + i]
      BY <2>1
    <3>1. i \in Nat /\ Len(todo) \in Nat /\ i + 1 \in 1 .. Len(todo) /\ n + (i + 1) = n + 1 + i
      BY <1>4, <1>5
    <3>2. Tail(todo)[i] = todo[i + 1] /\ todo[i + 1] = circuit.outputs[n + (i + 1)]
      BY <1>5, <2>1, <3>1
    <3>. QED
      BY <3>1, <3>2
  <2>3. n + 1 + Len(Tail(todo)) = Len(circuit.outputs)
    <3>1. PICK m : m = Len(todo)
      OBVIOUS
    <3>2. m \in Nat /\ n \in Nat /\ n + m = Len(circuit.outputs) /\ Len(Tail(todo)) = m - 1
      BY <1>4, <1>5, <2>1, <3>1
    <3>3. n + 1 + (m - 1) = n + m
      BY <3>2
    <3>. QED
      BY <3>2, <3>3
  <2>. QED
    BY <2>1, <2>2, <2>3 DEF LeftAfter
<1>. QED
  BY <1>7, <1>8

(* One more output is found.                                                *)
OutputsGo(S) ==
    /\ todo' = Tail(todo) /\ UNCHANGED <<circuit, names, pc>>
    /\ Finding(S)' /\ Len(new_output_gates') = Len(new_output_gates) + 1

(* Whatever was found of it, the search goes on with the next.              *)
LEMMA CGROutputsGo ==
    ASSUME CGRGiven, CGROutputs, todo # <<>>, pc = "output", NEW S, NEW rank,
           OutputsGo(S), Reducing({}, S, rank)'
    PROVE  CGROutputs'
<1>1. LeftAfter
  BY CGRNextOutput
<1>2. OutputsLeft'
  BY <1>1 DEF LeftAfter, OutputsLeft, OutputsGo
<1>. QED
  BY <1>2 DEF CGROutputs, OutputsGo

(* An output of which nothing is known is the one it is linked to.          *)
LEMMA CGRMoveOutput ==
    ASSUME CGRGiven, CGRInv, CGR!MoveOutput PROVE CGRInv'
<1>1. /\ pc = "output" /\ todo # <<>> /\ todo' = Tail(todo)
      /\ UNCHANGED <<circuit, names, pc, new_gate_name_prefix, encoder, gate_info, old_to_new_gateId,
                     result_assignment>>
  BY DEF CGR!MoveOutput, CGR!AtOutput
<1>2. CGROutputs /\ NamesExtended(names, new_gate_name_prefix, encoder, Len(gate_info))
  BY <1>1 DEF CGRInv
<1>3. PICK S, rank, o : AtNextOutput(S, rank, o)
  BY <1>1, <1>2, CGRNextOutput
<1>4. /\ result_assignment[o] = StUndef
      /\ new_output_gates' = Append(new_output_gates, old_to_new_gateId[o])
  BY <1>3 DEF CGR!MoveOutput, CGR!output_gate, CGR!StUndef, StUndef, AtNextOutput
<1>5. IsOutputOf(circuit, names, Gates, encoder, old_to_new_gateId, S, o, old_to_new_gateId[o])
  BY <1>3, <1>4, OutputLinked DEF AtNextOutput, CGRGiven, Reducing
<1>6. OutputsFound(circuit, names, Gates, encoder, old_to_new_gateId, S, new_output_gates')
  BY <1>3, <1>4, <1>5, OutputsMore DEF AtNextOutput, Finding
<1>7. Finding(S)' /\ Reducing({}, S, rank)'
  BY <1>1, <1>3, <1>6 DEF Finding, Reducing, Gates, AtNextOutput
<1>8. Len(new_output_gates') = Len(new_output_gates) + 1
  <2>1. new_output_gates \in Seq(S) /\ old_to_new_gateId[o] \in S
    BY <1>3, <1>5 DEF AtNextOutput, Finding, OutputsFound, IsOutputOf
  <2>. QED
    BY <1>4, <2>1
<1>9. CGROutputs'
  BY <1>1, <1>2, <1>7, <1>8, CGROutputsGo DEF OutputsGo
<1>. QED
  BY <1>1, <1>2, <1>9 DEF CGRInv

(* The last two steps.                                                      *)
LEMMA CGREnds ==
    ASSUME CGRGiven, CGRInv, CGR!Abort \/ CGR!Return PROVE CGRInv'
<1>1. /\ pc = "output" /\ pc' \in {"aborted", "done"} /\ (pc' = "done" => todo = <<>>)
      /\ UNCHANGED <<circuit, names, new_gate_name_prefix, todo, encoder, gate_info, old_to_new_gateId,
                     result_assignment, new_output_gates>>
  BY DEF CGR!Abort, CGR!Return, CGR!AtOutput
<1>2. CGROutputs /\ NamesExtended(names, new_gate_name_prefix, encoder, Len(gate_info))
  BY <1>1 DEF CGRInv
<1>3. CGROutputs'
  <2>1. PICK S, rank : Reducing({}, S, rank) /\ Finding(S)
    BY <1>2 DEF CGROutputs
  <2>2. Reducing({}, S, rank)' /\ Finding(S)'
    BY <1>1, <2>1 DEF Reducing, Finding, Gates
  <2>3. OutputsLeft'
    BY <1>1, <1>2 DEF CGROutputs, OutputsLeft
  <2>. QED
    BY <1>1, <2>2, <2>3 DEF CGROutputs
<1>. QED
  BY <1>1, <1>2, <1>3 DEF CGRInv

(* The input over which a gadget is built.                                  *)
LEMMA FirstInputIs ==
    ASSUME CGR!Inputs # {}, gate_info \in Seq(GateInfos(Len(gate_info)))
    PROVE  CGR!FirstInput \in InputGates(Gates)
<1>1. CGR!Inputs = InputGates(Gates)
  BY DEF CGR!Inputs, InputGates, GateIds, Type, Gates
<1>2. CGR!Inputs \in SUBSET Nat
  BY <1>1 DEF InputGates, GateIds
<1>3. \E g \in CGR!Inputs : \A h \in CGR!Inputs : g <= h
  BY <1>2, LeastNatural
<1>4. CGR!FirstInput \in CGR!Inputs
  BY <1>3 DEF CGR!FirstInput
<1>. QED
  BY <1>1, <1>4

(* Two new gates, with their names.                                         *)
LEMMA CGRTwoNames ==
    ASSUME NEW n, NamesExtended(names, new_gate_name_prefix, encoder, n), NEW new,
           new = CGR!EncodeGate(CGR!EncodeGate(encoder, CGR!NewGateName(new_gate_name_prefix, n + 1)),
                                CGR!NewGateName(new_gate_name_prefix, n + 2))
    PROVE  /\ NamesExtended(names, new_gate_name_prefix, new, n + 2)
           /\ \A k \in 1 .. n : new[k] = encoder[k]
<1> DEFINE key1 == NewGateName(new_gate_name_prefix, n + 1)
           key2 == NewGateName(new_gate_name_prefix, n + 2)
<1>1. n \in Nat /\ DOMAIN encoder = 1 .. n
  BY DEF NamesExtended, AreNames
<1>2. PICK one : IsNameAdded(names, new_gate_name_prefix, encoder, n, key1, one)
  BY NameAdded
<1>3. /\ NamesExtended(names, new_gate_name_prefix, one, n + 1) /\ EncodeGate(encoder, key1) = one
      /\ \A k \in 1 .. n : one[k] = encoder[k]
  BY <1>1, <1>2 DEF IsNameAdded
<1>4. n + 1 + 1 = n + 2
  BY <1>1
<1>5. PICK two : IsNameAdded(names, new_gate_name_prefix, one, n + 1, key2, two)
  <2>1. key2 = NewGateName(new_gate_name_prefix, n + 1 + 1)
    BY <1>4
  <2> HIDE DEF key2
  <2>. QED
    BY <1>3, <2>1, NameAdded
<1>6. /\ NamesExtended(names, new_gate_name_prefix, two, n + 2) /\ EncodeGate(one, key2) = two
      /\ \A k \in DOMAIN one : two[k] = one[k]
  BY <1>4, <1>5 DEF IsNameAdded
<1>7. DOMAIN one = 1 .. n + 1
  BY <1>3 DEF NamesExtended, AreNames
<1>8. new = two
  BY <1>3, <1>6, CGROperators
<1>9. \A k \in 1 .. n : two[k] = encoder[k]
  BY <1>1, <1>3, <1>6, <1>7
<1>. QED
  BY <1>6, <1>8, <1>9

(* An output of known state has a gadget of that state.                     *)
LEMMA KnownOutput ==
    ASSUME NEW S, NEW rank, NEW o, AtNextOutput(S, rank, o), result_assignment[o] # StUndef,
           NEW values \in Values(circuit, names)
    PROVE  result_assignment[o] \in Bits /\ StatesFor(circuit, names, values)[o] = result_assignment[o]
<1>1. o \in LiveGates(circuit) /\ o \in GateIds(circuit)
  <2>1. OutputSet(circuit) \subseteq LiveGates(circuit) /\ OutputSet(circuit) \subseteq GateIds(circuit)
    BY WellFormedFacts DEF AtNextOutput, CGRGiven, LiveGates
  <2>. QED
    BY <2>1 DEF AtNextOutput
<1>2. result_assignment[o] = Known(circuit)[o]
  BY <1>1 DEF AtNextOutput, Reducing, Reduces, LinksKnown
<1>3. Known(circuit)[o] \in GateStates /\ Refines(StatesFor(circuit, names, values)[o], Known(circuit)[o])
  BY <1>1, KnownStays DEF AtNextOutput, CGRGiven
<1>. QED
  BY <1>2, <1>3, BitFacts DEF Refines

(* Otherwise, when the circuit has an input, a gadget of the same state is  *)
(* built over it.                                                           *)
LEMMA CGRBuildGadget ==
    ASSUME CGRGiven, CGRInv, CGR!BuildGadget PROVE CGRInv'
<1> DEFINE n      == Len(gate_info)
           left   == CGR!FirstInput
<1>1. /\ pc = "output" /\ todo # <<>> /\ todo' = Tail(todo) /\ CGR!Inputs # {}
      /\ UNCHANGED <<circuit, names, pc, new_gate_name_prefix, old_to_new_gateId, result_assignment>>
  BY DEF CGR!BuildGadget, CGR!AtOutput
<1>2. CGROutputs /\ NamesExtended(names, new_gate_name_prefix, encoder, n)
  BY <1>1 DEF CGRInv
<1>3. PICK S, rank, o : AtNextOutput(S, rank, o)
  BY <1>1, <1>2, CGRNextOutput
<1> DEFINE type == IF result_assignment[o] = StTrue THEN "OR" ELSE "AND"
           b    == IF type = "OR" THEN StTrue ELSE StFalse
<1>4. /\ CGR!output_gate = o /\ result_assignment[o] # StUndef
      /\ encoder' = CGR!EncodeGate(CGR!EncodeGate(encoder, CGR!NewGateName(new_gate_name_prefix, n + 1)),
                                   CGR!NewGateName(new_gate_name_prefix, n + 2))
      /\ new_output_gates' = Append(new_output_gates, n + 2)
  BY <1>3 DEF CGR!BuildGadget, CGR!output_gate, CGR!StUndef, StUndef, AtNextOutput
<1>5. IsGadgetOver(Gates, Gates', left, type)
  BY <1>4, CGROperators DEF CGR!BuildGadget, CGR!StTrue, StTrue, IsGadgetOver, Gates
<1>6. /\ gate_info \in Seq(GateInfos(n)) /\ n \in Nat
      /\ InputGates(Gates) \subseteq InputGates(circuit)
  BY <1>3 DEF AtNextOutput, Reducing, Reduces, IsReduction, Gates
<1>7. left \in InputGates(Gates)
  BY <1>1, <1>6, FirstInputIs
<1>8. encoder[left] = names[left]
  <2>1. left \in GateIds(circuit) /\ DOMAIN names = GateIds(circuit)
    BY <1>6, <1>7 DEF InputGates, CGRGiven, AreNames, NamesGates, GateIds
  <2>. QED
    BY <1>2, <2>1 DEF NamesExtended
<1>9. /\ NamesExtended(names, new_gate_name_prefix, encoder', n + 2)
      /\ \A k \in 1 .. n : encoder'[k] = encoder[k]
  BY <1>2, <1>4, CGRTwoNames
<1>10. \A k \in GateIds(Gates) : encoder'[k] = encoder[k]
  BY <1>9 DEF GateIds, Gates
<1>11. \E U, more : IsGadget(circuit, names, Gates, encoder, Gates', encoder', old_to_new_gateId, S,
                            result_assignment, U, more, n + 2, b)
  <2>1. Reduces(circuit, names, Gates, encoder, old_to_new_gateId, {}, S, rank, result_assignment)
        /\ WellFormed(circuit)
    BY <1>3 DEF AtNextOutput, Reducing, CGRGiven
  <2>2. Len(Gates.gates) = n /\ type \in {"OR", "AND"}
    BY DEF Gates
  <2> HIDE DEF n, left, type
  <2>. QED
    BY <1>5, <1>7, <1>8, <1>10, <2>1, <2>2, GadgetAdded
<1>12. PICK U, more : IsGadget(circuit, names, Gates, encoder, Gates', encoder', old_to_new_gateId, S,
                              result_assignment, U, more, n + 2, b)
  BY <1>11
<1>13. /\ Reduces(circuit, names, Gates', encoder', old_to_new_gateId, {}, U, more, result_assignment)
       /\ S \subseteq U /\ n + 2 \in U
       /\ \A values, val : Represents(circuit, names, Gates', encoder', old_to_new_gateId, {}, U, values, val) =>
             Represents(circuit, names, Gates, encoder, old_to_new_gateId, {}, S, values, val) /\ val[n + 2] = b
  BY <1>12 DEF IsGadget
<1>14. b = result_assignment[o]
  <2>1. result_assignment[o] \in Bits
    BY <1>3, <1>4, SomeValues, KnownOutput
  <2>. QED
    BY <2>1 DEF Bits
<1> HIDE DEF n, left, type, b
<1>15. IsOutputOf(circuit, names, Gates', encoder', old_to_new_gateId, U, o, n + 2)
  BY <1>3, <1>4, <1>13, <1>14, KnownOutput DEF IsOutputOf
<1>16. OutputsFound(circuit, names, Gates', encoder', old_to_new_gateId, U, new_output_gates)
  BY <1>3, <1>13, OutputsStay DEF AtNextOutput, Finding
<1>17. OutputsFound(circuit, names, Gates', encoder', old_to_new_gateId, U, new_output_gates')
  BY <1>3, <1>4, <1>15, <1>16, OutputsMore DEF AtNextOutput
<1>18. Finding(U)' /\ Reducing({}, U, more)'
  BY <1>1, <1>13, <1>17 DEF Finding, Reducing
<1>19. Len(new_output_gates') = Len(new_output_gates) + 1
  <2>1. new_output_gates \in Seq(U)
    BY <1>16 DEF OutputsFound
  <2>. QED
    BY <1>4, <1>13, <2>1
<1>20. CGROutputs'
  BY <1>1, <1>2, <1>18, <1>19, CGROutputsGo DEF OutputsGo
<1>21. Len(gate_info') = n + 2
  <2>1. PICK x, y : gate_info' = gate_info \o <<x, y>>
    BY <1>5 DEF IsGadgetOver, Gates
  <2>. QED
    BY <1>6, <2>1 DEF n
<1>. QED
  BY <1>1, <1>2, <1>9, <1>20, <1>21 DEF CGRInv

(* Its invariant is inductive.                                              *)
LEMMA CGRNextHolds ==
    ASSUME CGRGiven, CGRInv, CGR!Next PROVE CGRInv'
<1>1. ~CGR!Start
  BY DEF CGRInv, CGR!Start
<1>2. CASE pc = "gate" /\ todo # <<>>
  BY <1>2, CGRVisitStep
<1>3. CASE ~(pc = "gate" /\ todo # <<>>)
  <2>1. CGR!GatesDone \/ CGR!MoveOutput \/ CGR!BuildGadget \/ CGR!Abort \/ CGR!Return
    BY <1>1, <1>3 DEF CGR!Next, CGR!LinkToOperand, CGR!LinkToNegation, CGR!LinkMux, CGR!KeepGate,
                      CGR!ReplaceByConstant, CGR!Visit
  <2>. QED
    BY <2>1, CGRGatesDone, CGRMoveOutput, CGRBuildGadget, CGREnds
<1>. QED
  BY <1>2, <1>3

(* Nothing changes.                                                         *)
LEMMA CGRStutter ==
    ASSUME CGRInv, UNCHANGED <<circuit, names, pc, shared, result_assignment>> PROVE CGRInv'
<1>1. UNCHANGED <<Gates, todo, new_output_gates, gate_info, encoder, old_to_new_gateId,
                  new_gate_name_prefix>>
  BY DEF Gates, shared
<1>2. \A W, S, rank : Reducing(W, S, rank)' <=> Reducing(W, S, rank)
  BY <1>1 DEF Reducing
<1>3. \A S : Finding(S)' <=> Finding(S)
  BY <1>1 DEF Finding
<1>4. CGRGates' <=> CGRGates
  BY <1>1, <1>2 DEF CGRGates
<1>5. CGROutputs' <=> CGROutputs
  BY <1>1, <1>2, <1>3 DEF CGROutputs, OutputsLeft
<1>. QED
  BY <1>1, <1>4, <1>5 DEF CGRInv

(* Which gates are outputs makes no difference to what they compute.        *)
LEMMA OutputsAside ==
    ASSUME NEW c, NEW names1, NEW gates, NEW outs, NEW dnames, NEW link, NEW S, NEW rank,
           NEW d, d = [gates |-> gates], NEW e, e = [gates |-> gates, outputs |-> outs],
           NEW values, NEW val
    PROVE  /\ IsReduction(c, d, link, {}, rank) => IsReduction(c, e, link, {}, rank)
           /\ Carries(c, d, link, {}, S) => Carries(c, e, link, {}, S)
           /\ Represents(c, names1, d, dnames, link, {}, S, values, val) <=>
                 Represents(c, names1, e, dnames, link, {}, S, values, val)
<1>1. d.gates = gates /\ e.gates = gates
  OBVIOUS
<1>2. GateIds(d) = GateIds(e)
  BY <1>1 DEF GateIds
<1>3. \A k : Type(d, k) = Type(e, k) /\ Operands(d, k) = Operands(e, k)
  BY <1>1 DEF Type, Operands
<1>4. \A k : OperandSet(d, k) = OperandSet(e, k)
  BY <1>3 DEF OperandSet
<1>5. InputGates(d) = InputGates(e)
  BY <1>2, <1>3 DEF InputGates
<1>6. IsReduction(c, d, link, {}, rank) => IsReduction(c, e, link, {}, rank)
  BY <1>1, <1>2, <1>4, <1>5 DEF IsReduction, IsRanking
<1>7. Carries(c, d, link, {}, S) => Carries(c, e, link, {}, S)
  BY <1>2, <1>3, <1>4 DEF Carries, IsClosed
<1>8. \A k : ValueIn(d, dnames, values, val, k) = ValueIn(e, dnames, values, val, k)
  BY <1>3 DEF ValueIn
<1>9. Solves(d, dnames, values, S, val) <=> Solves(e, dnames, values, S, val)
  BY <1>8, SolvesIs
<1>. QED
  BY <1>6, <1>7, <1>9 DEF Represents

(* What ConstantGateReducer_ returns is correct, and of use to those after  *)
(* it.                                                                      *)
LEMMA CGRReturned ==
    ASSUME CGRGiven, CGRInv, pc = "done", Running("CGR") PROVE ReturnsCorrect
<1> DEFINE d == [gates |-> gate_info, outputs |-> new_output_gates]
<1>1. Result = d /\ ResultNames = encoder
  BY DEF Result, ResultNames, Running
<1>2. CGROutputs /\ NamesExtended(names, new_gate_name_prefix, encoder, Len(gate_info)) /\ todo = <<>>
  BY DEF CGRInv, CGROutputs
<1>3. PICK S, rank : Reducing({}, S, rank) /\ Finding(S)
  BY <1>2 DEF CGROutputs
<1>4. WellFormed(circuit) /\ NamesGates(circuit, names) /\ AreNames(names)
  BY DEF CGRGiven
<1>5. /\ IsReduction(circuit, Gates, old_to_new_gateId, {}, rank)
      /\ Carries(circuit, Gates, old_to_new_gateId, {}, S)
      /\ \A values \in Values(circuit, names) : \E val :
            Represents(circuit, names, Gates, encoder, old_to_new_gateId, {}, S, values, val)
  BY <1>3 DEF Reducing, Reduces, Computes
<1>6. d.gates = gate_info /\ d.outputs = new_output_gates
  OBVIOUS
<1>7. /\ IsReduction(circuit, d, old_to_new_gateId, {}, rank)
      /\ Carries(circuit, d, old_to_new_gateId, {}, S)
  <2>1. Gates = [gates |-> gate_info]
    BY DEF Gates
  <2>2. IsReduction(circuit, d, old_to_new_gateId, {}, rank)
    BY <1>5, <2>1, OutputsAside
  <2>3. Carries(circuit, d, old_to_new_gateId, {}, S)
    BY <1>5, <2>1, OutputsAside
  <2>. QED
    BY <2>2, <2>3
<1>8. \A values, val : Represents(circuit, names, Gates, encoder, old_to_new_gateId, {}, S, values, val) <=>
                       Represents(circuit, names, d, encoder, old_to_new_gateId, {}, S, values, val)
  BY OutputsAside DEF Gates
<1> HIDE DEF d
<1>9. Computes(circuit, names, d, encoder, old_to_new_gateId, {}, S)
  BY <1>5, <1>7, <1>8 DEF Computes
<1>10. NamesGates(d, encoder) /\ AreNames(encoder) /\ \A k \in DOMAIN names : encoder[k] = names[k]
  BY <1>2, <1>6, ExtendedFacts
<1>11. \A k \in GateIds(circuit) : encoder[k] = names[k]
  <2>1. GateIds(circuit) \subseteq DOMAIN names
    BY <1>4 DEF NamesGates, GateIds, AreNames
  <2>. QED
    BY <1>10, <2>1
<1>12. d.outputs \in Seq(S) /\ DOMAIN d.outputs = DOMAIN circuit.outputs
  <2>1. new_output_gates \in Seq(S)
    BY <1>3 DEF Finding, OutputsFound
  <2>2. Len(new_output_gates) + 0 = Len(circuit.outputs)
    BY <1>2 DEF CGROutputs, OutputsLeft
  <2>3. circuit.outputs \in Seq(GateIds(circuit))
    BY <1>4, WellFormedFacts
  <2>4. Len(new_output_gates) = Len(circuit.outputs)
    BY <2>1, <2>2
  <2>. QED
    BY <1>6, <2>1, <2>3, <2>4
<1>13. \A k \in DOMAIN circuit.outputs : IsOutputOf(circuit, names, Gates, encoder, old_to_new_gateId, S,
                                                    circuit.outputs[k], d.outputs[k])
  BY <1>3, <1>6, <1>12 DEF Finding, OutputsFound
<1>14. \A k \in DOMAIN circuit.outputs : \A values \in Values(circuit, names) : \A val :
          Represents(circuit, names, d, encoder, old_to_new_gateId, {}, S, values, val) =>
             val[d.outputs[k]] = StatesFor(circuit, names, values)[circuit.outputs[k]]
  BY <1>8, <1>13 DEF IsOutputOf
<1>15. WellFormed(d) /\ SameFunction(circuit, names, d, encoder) /\ Usable(d)
  BY <1>4, <1>7, <1>9, <1>11, <1>12, <1>14, ReductionIsCorrect
<1>. QED
  BY <1>1, <1>10, <1>15 DEF ReturnsCorrect

------------------------------------------------------------------------------
(* The circuit of each stage is well formed, named, and computes what the   *)
(* circuit given does; while a transformer runs, its own invariant holds.   *)
Inv ==
    /\ strategy \in Seq(Transformers) /\ stage \in DOMAIN strategy
    /\ NamesGates(given, NaturalNames(given))
    /\ HandsOverCircuits /\ Usable(circuit) /\ AreNames(names)
    /\ SameFunction(given, NaturalNames(given), circuit, names)
    /\ Working("RGC") => RGCProofs!Inv
    /\ Working("RGC_true") => RGC_trueProofs!Inv
    /\ Working("DGC") => DGCProofs!Inv
    /\ Working("RNC") => RNCProofs!Inv
    /\ Working("CGR") => CGRInv

------------------------------------------------------------------------------
(* The module of RedundantGatesCleaner_ has the notions of Circuits as its  *)
(* own: they are the same.                                                  *)
LEMMA RGCNotions ==
    ASSUME NEW c, NEW cnames, NEW d, NEW dnames
    PROVE  /\ RGCProofs!WellFormed(c) <=> WellFormed(c)
           /\ RGCProofs!NamesGates(c, cnames) <=> NamesGates(c, cnames)
           /\ RGCProofs!SameFunction(c, cnames, d, dnames) <=> SameFunction(c, cnames, d, dnames)
           /\ RGCProofs!Usable(c) <=> Usable(c)
           /\ RGCProofs!AreNames(cnames) <=> AreNames(cnames)
<1>1. RGCProofs!NamesGates(c, cnames) <=> NamesGates(c, cnames)
  BY DEF NamesGates, RGCProofs!NamesGates, GateIds, RGCProofs!GateIds
<1>2. RGCProofs!WellFormed(c) <=> WellFormed(c)
  BY DEF GateIds, RGCProofs!GateIds, Type, RGCProofs!Type, Operands, RGCProofs!Operands,
         OperandSet, RGCProofs!OperandSet, OutputSet, RGCProofs!OutputSet, InputGates,
         RGCProofs!InputGates, Cone, RGCProofs!Cone, Cardinality, RGCProofs!Cardinality,
         GateTypes, RGCProofs!GateTypes, OperatorTypes, RGCProofs!OperatorTypes, FoldTypes,
         RGCProofs!FoldTypes, WellFormed, RGCProofs!WellFormed, IdsInRange,
         RGCProofs!IdsInRange, IsAcyclic, RGCProofs!IsAcyclic, IsRanking, RGCProofs!IsRanking,
         ConeSizes, RGCProofs!ConeSizes, GateInfos, RGCProofs!GateInfos, ArityOk,
         RGCProofs!ArityOk
<1>3. RGCProofs!SameFunction(c, cnames, d, dnames) <=> SameFunction(c, cnames, d, dnames)
  BY DEF GateIds, RGCProofs!GateIds, Type, RGCProofs!Type, Operands, RGCProofs!Operands,
         OperandSet, RGCProofs!OperandSet, OutputSet, RGCProofs!OutputSet, InputGates,
         RGCProofs!InputGates, Cone, RGCProofs!Cone, Cardinality, RGCProofs!Cardinality,
         GateTypes, RGCProofs!GateTypes, OperatorTypes, RGCProofs!OperatorTypes, FoldTypes,
         RGCProofs!FoldTypes, SameFunction, RGCProofs!SameFunction, InputNames,
         RGCProofs!InputNames, Assignment, RGCProofs!Assignment, OutputStates,
         RGCProofs!OutputStates, EvaluateCircuit, RGCProofs!EvaluateCircuit, CutAtGiven,
         RGCProofs!CutAtGiven, NoGateInfo, RGCProofs!NoGateInfo, StatesOf, RGCProofs!StatesOf,
         Operator, RGCProofs!Operator, NOT, RGCProofs!NOT, IFF, RGCProofs!IFF, AND,
         RGCProofs!AND, OR, RGCProofs!OR, XOR, RGCProofs!XOR, MUX, RGCProofs!MUX, Lookup1,
         RGCProofs!Lookup1, Lookup2, RGCProofs!Lookup2, Lookup3, RGCProofs!Lookup3, StFalse,
         RGCProofs!StFalse, StTrue, RGCProofs!StTrue, StUndef, RGCProofs!StUndef, GateStates,
         RGCProofs!GateStates, FunctionOf, RGCProofs!FunctionOf, FoldMap, RGCProofs!FoldMap
<1>4. RGCProofs!Usable(c) <=> Usable(c)
  BY DEF Usable, RGCProofs!Usable, IsUsable, RGCProofs!IsUsable, GateIds, RGCProofs!GateIds, OperatorTypes,
         RGCProofs!OperatorTypes, FoldTypes, RGCProofs!FoldTypes
<1>5. RGCProofs!AreNames(cnames) <=> AreNames(cnames)
  BY DEF AreNames, RGCProofs!AreNames
<1>. QED
  BY <1>1, <1>2, <1>3, <1>4, <1>5

(* The steps of RedundantGatesCleaner_ here are those of its module, and so *)
(* are its properties; it works on one circuit until it is done.            *)
LEMMA RGCSteps ==
    /\ RGC!Next => RGCProofs!Next
    /\ RGC!Next => UNCHANGED <<circuit, names>> /\ pc # "done" /\ pc' # "ready"
    /\ pc = "ready" /\ RGC!Next => RGCProofs!Start
    /\ RGC!TypeOK <=> RGCProofs!TypeOK
    /\ RGC!NothingRedundant <=> RGCProofs!NothingRedundant
<1>1. RGC!Next => RGCProofs!Next
  BY DEF RGC!Next, RGCProofs!Next, RGC!Start, RGCProofs!Start, RGC!EncodeKept,
         RGCProofs!EncodeKept, RGC!AllocateGates, RGCProofs!AllocateGates, RGC!RebuildGate,
         RGCProofs!RebuildGate, RGC!SkipRemoved, RGCProofs!SkipRemoved, RGC!RebuildOutputs,
         RGCProofs!RebuildOutputs, RGC!Return, RGCProofs!Return, RGC!IsKept, RGCProofs!IsKept,
         RGC!mask_use_output, RGCProofs!mask_use_output, RGC!GateIds, RGCProofs!GateIds,
         RGC!Type, RGCProofs!Type, RGC!Operands, RGCProofs!Operands, RGC!OperandSet,
         RGCProofs!OperandSet, RGC!OutputSet, RGCProofs!OutputSet, RGC!InputGates,
         RGCProofs!InputGates, RGC!InputNames, RGCProofs!InputNames, RGC!Cone, RGCProofs!Cone,
         RGC!GateInfo, RGCProofs!GateInfo, RGC!SymmetricOperatorQ, RGCProofs!SymmetricOperatorQ,
         RGC!Sorted, RGCProofs!Sorted, RGC!Precedes, RGCProofs!Precedes, RGC!Cardinality,
         RGCProofs!Cardinality, RGC!NoGateInfo, RGCProofs!NoGateInfo, RGC!GateTypes,
         RGCProofs!GateTypes, RGC!OperatorTypes, RGCProofs!OperatorTypes, RGC!FoldTypes,
         RGCProofs!FoldTypes, RGC!NoEncoder, RGCProofs!NoEncoder, RGC!KeyExists,
         RGCProofs!KeyExists, RGC!EncodeGate, RGCProofs!EncodeGate, RGC!IdOf, RGCProofs!IdOf,
         RGC!EncodeGates, RGCProofs!EncodeGates, RGC!MergeGateEncoders,
         RGCProofs!MergeGateEncoders, RGC!DecodeGate, RGCProofs!DecodeGate
<1>2. RGC!Next => UNCHANGED <<circuit, names>> /\ pc # "done" /\ pc' # "ready"
  BY DEF RGC!Next, RGC!Start, RGC!EncodeKept, RGC!AllocateGates, RGC!RebuildGate,
         RGC!SkipRemoved, RGC!RebuildOutputs, RGC!Return
<1>3. pc = "ready" /\ RGCProofs!Next => RGCProofs!Start
  BY DEF RGCProofs!Next, RGCProofs!EncodeKept, RGCProofs!AllocateGates, RGCProofs!RebuildGate,
         RGCProofs!SkipRemoved, RGCProofs!RebuildOutputs, RGCProofs!Return
<1>4. RGC!TypeOK <=> RGCProofs!TypeOK
  BY DEF RGC!TypeOK, RGCProofs!TypeOK, RGC!GateIds, RGCProofs!GateIds, RGC!Type, RGCProofs!Type,
         RGC!Operands, RGCProofs!Operands, RGC!OperandSet, RGCProofs!OperandSet, RGC!OutputSet,
         RGCProofs!OutputSet, RGC!InputGates, RGCProofs!InputGates, RGC!InputNames,
         RGCProofs!InputNames, RGC!Cone, RGCProofs!Cone, RGC!GateInfo, RGCProofs!GateInfo,
         RGC!SymmetricOperatorQ, RGCProofs!SymmetricOperatorQ, RGC!Sorted, RGCProofs!Sorted,
         RGC!Precedes, RGCProofs!Precedes, RGC!Cardinality, RGCProofs!Cardinality,
         RGC!NoGateInfo, RGCProofs!NoGateInfo, RGC!GateTypes, RGCProofs!GateTypes,
         RGC!OperatorTypes, RGCProofs!OperatorTypes, RGC!FoldTypes, RGCProofs!FoldTypes,
         RGC!NoEncoder, RGCProofs!NoEncoder, RGC!KeyExists, RGCProofs!KeyExists, RGC!EncodeGate,
         RGCProofs!EncodeGate, RGC!IdOf, RGCProofs!IdOf, RGC!EncodeGates, RGCProofs!EncodeGates,
         RGC!MergeGateEncoders, RGCProofs!MergeGateEncoders, RGC!DecodeGate,
         RGCProofs!DecodeGate
<1>5. RGC!NothingRedundant <=> RGCProofs!NothingRedundant
  BY DEF RGC!NothingRedundant, RGCProofs!NothingRedundant, RGC!Result, RGCProofs!Result,
         RGC!GateIds, RGCProofs!GateIds, RGC!Type, RGCProofs!Type, RGC!Operands,
         RGCProofs!Operands, RGC!OperandSet, RGCProofs!OperandSet, RGC!OutputSet,
         RGCProofs!OutputSet, RGC!InputGates, RGCProofs!InputGates, RGC!InputNames,
         RGCProofs!InputNames, RGC!Cone, RGCProofs!Cone, RGC!GateInfo, RGCProofs!GateInfo,
         RGC!SymmetricOperatorQ, RGCProofs!SymmetricOperatorQ, RGC!Sorted, RGCProofs!Sorted,
         RGC!Precedes, RGCProofs!Precedes, RGC!Cardinality, RGCProofs!Cardinality,
         RGC!NoGateInfo, RGCProofs!NoGateInfo, RGC!GateTypes, RGCProofs!GateTypes,
         RGC!OperatorTypes, RGCProofs!OperatorTypes, RGC!FoldTypes, RGCProofs!FoldTypes,
         RGC!NoEncoder, RGCProofs!NoEncoder, RGC!KeyExists, RGCProofs!KeyExists, RGC!EncodeGate,
         RGCProofs!EncodeGate, RGC!IdOf, RGCProofs!IdOf, RGC!EncodeGates, RGCProofs!EncodeGates,
         RGC!MergeGateEncoders, RGCProofs!MergeGateEncoders, RGC!DecodeGate,
         RGCProofs!DecodeGate
<1>. QED
  BY <1>1, <1>2, <1>3, <1>4, <1>5

(* The invariant of the strategy through a step of RedundantGatesCleaner_:  *)
(* its first step meets the circuit handed over to it, the others keep its  *)
(* own invariant.                                                           *)
LEMMA RGCStep ==
    ASSUME Inv, Running("RGC"), RGC!Next, UNCHANGED <<given, strategy, stage>> PROVE Inv'
<1>1. UNCHANGED <<circuit, names>> /\ pc' # "ready" /\ RGCProofs!Next
  BY RGCSteps
<1>2. RGCProofs!Inv'
  <2>1. CASE pc = "ready"
    <3>1. RGCProofs!Given
      BY RGCNotions DEF Inv, HandsOverCircuits, RGCProofs!Given
    <3>. QED
      BY <2>1, <3>1, RGCSteps, RGCProofs!StartStep
  <2>2. CASE pc # "ready"
    BY <1>1, <2>2, RGCProofs!NextHolds DEF Inv, Working
  <2>. QED
    BY <2>1, <2>2
<1>. QED
  BY <1>1, <1>2 DEF Inv, HandsOverCircuits, Working, Running

(* What RedundantGatesCleaner_ returns is what its module says.             *)
LEMMA RGCReturns ==
    ASSUME Inv, Running("RGC"), pc = "done" PROVE ReturnsCorrect
<1>1. RGCProofs!Inv
  BY DEF Inv, Working
<1>2. RGCProofs!Result = Result /\ new_names = ResultNames
  BY DEF RGCProofs!Result, Result, ResultNames, Running, RNC!Result
<1>3. /\ RGCProofs!WellFormed(RGCProofs!Result) /\ RGCProofs!NamesGates(RGCProofs!Result, new_names)
      /\ RGCProofs!SameFunction(circuit, names, RGCProofs!Result, new_names)
  BY <1>1, RGCProofs!ResultIsCorrect
<1>4. (RGCProofs!Usable(circuit) => RGCProofs!Usable(RGCProofs!Result)) /\ RGCProofs!AreNames(new_names)
  BY <1>1, RGCProofs!ResultIsUsable
<1>5. Usable(Result) /\ AreNames(ResultNames)
  BY <1>2, <1>4, RGCNotions DEF Inv
<1>. QED
  BY <1>2, <1>3, <1>5, RGCNotions DEF ReturnsCorrect

------------------------------------------------------------------------------
(* The module of RedundantGatesCleaner_<true> has the notions of Circuits   *)
(* as its own: they are the same.                                           *)
LEMMA RGC_trueNotions ==
    ASSUME NEW c, NEW cnames, NEW d, NEW dnames
    PROVE  /\ RGC_trueProofs!WellFormed(c) <=> WellFormed(c)
           /\ RGC_trueProofs!NamesGates(c, cnames) <=> NamesGates(c, cnames)
           /\ RGC_trueProofs!SameFunction(c, cnames, d, dnames) <=> SameFunction(c, cnames, d, dnames)
           /\ RGC_trueProofs!Usable(c) <=> Usable(c)
           /\ RGC_trueProofs!AreNames(cnames) <=> AreNames(cnames)
<1>1. RGC_trueProofs!NamesGates(c, cnames) <=> NamesGates(c, cnames)
  BY DEF NamesGates, RGC_trueProofs!NamesGates, GateIds, RGC_trueProofs!GateIds
<1>2. RGC_trueProofs!WellFormed(c) <=> WellFormed(c)
  BY DEF GateIds, RGC_trueProofs!GateIds, Type, RGC_trueProofs!Type, Operands,
         RGC_trueProofs!Operands, OperandSet, RGC_trueProofs!OperandSet, OutputSet,
         RGC_trueProofs!OutputSet, InputGates, RGC_trueProofs!InputGates, Cone,
         RGC_trueProofs!Cone, Cardinality, RGC_trueProofs!Cardinality, GateTypes,
         RGC_trueProofs!GateTypes, OperatorTypes, RGC_trueProofs!OperatorTypes, FoldTypes,
         RGC_trueProofs!FoldTypes, WellFormed, RGC_trueProofs!WellFormed, IdsInRange,
         RGC_trueProofs!IdsInRange, IsAcyclic, RGC_trueProofs!IsAcyclic, IsRanking,
         RGC_trueProofs!IsRanking, ConeSizes, RGC_trueProofs!ConeSizes, GateInfos,
         RGC_trueProofs!GateInfos, ArityOk, RGC_trueProofs!ArityOk
<1>3. RGC_trueProofs!SameFunction(c, cnames, d, dnames) <=> SameFunction(c, cnames, d, dnames)
  BY DEF GateIds, RGC_trueProofs!GateIds, Type, RGC_trueProofs!Type, Operands,
         RGC_trueProofs!Operands, OperandSet, RGC_trueProofs!OperandSet, OutputSet,
         RGC_trueProofs!OutputSet, InputGates, RGC_trueProofs!InputGates, Cone,
         RGC_trueProofs!Cone, Cardinality, RGC_trueProofs!Cardinality, GateTypes,
         RGC_trueProofs!GateTypes, OperatorTypes, RGC_trueProofs!OperatorTypes, FoldTypes,
         RGC_trueProofs!FoldTypes, SameFunction, RGC_trueProofs!SameFunction, InputNames,
         RGC_trueProofs!InputNames, Assignment, RGC_trueProofs!Assignment, OutputStates,
         RGC_trueProofs!OutputStates, EvaluateCircuit, RGC_trueProofs!EvaluateCircuit,
         CutAtGiven, RGC_trueProofs!CutAtGiven, NoGateInfo, RGC_trueProofs!NoGateInfo, StatesOf,
         RGC_trueProofs!StatesOf, Operator, RGC_trueProofs!Operator, NOT, RGC_trueProofs!NOT,
         IFF, RGC_trueProofs!IFF, AND, RGC_trueProofs!AND, OR, RGC_trueProofs!OR, XOR,
         RGC_trueProofs!XOR, MUX, RGC_trueProofs!MUX, Lookup1, RGC_trueProofs!Lookup1, Lookup2,
         RGC_trueProofs!Lookup2, Lookup3, RGC_trueProofs!Lookup3, StFalse,
         RGC_trueProofs!StFalse, StTrue, RGC_trueProofs!StTrue, StUndef, RGC_trueProofs!StUndef,
         GateStates, RGC_trueProofs!GateStates, FunctionOf, RGC_trueProofs!FunctionOf, FoldMap,
         RGC_trueProofs!FoldMap
<1>4. RGC_trueProofs!Usable(c) <=> Usable(c)
  BY DEF Usable, RGC_trueProofs!Usable, IsUsable, RGC_trueProofs!IsUsable, GateIds, RGC_trueProofs!GateIds, OperatorTypes,
         RGC_trueProofs!OperatorTypes, FoldTypes, RGC_trueProofs!FoldTypes
<1>5. RGC_trueProofs!AreNames(cnames) <=> AreNames(cnames)
  BY DEF AreNames, RGC_trueProofs!AreNames
<1>. QED
  BY <1>1, <1>2, <1>3, <1>4, <1>5

(* The steps of RedundantGatesCleaner_<true> here are those of its module,  *)
(* and so are its properties; it works on one circuit until it is done.     *)
LEMMA RGC_trueSteps ==
    /\ RGC_true!Next => RGC_trueProofs!Next
    /\ RGC_true!Next => UNCHANGED <<circuit, names>> /\ pc # "done" /\ pc' # "ready"
    /\ pc = "ready" /\ RGC_true!Next => RGC_trueProofs!Start
    /\ RGC_true!TypeOK <=> RGC_trueProofs!TypeOK
    /\ RGC_true!NothingRedundant <=> RGC_trueProofs!NothingRedundant
<1>1. RGC_true!Next => RGC_trueProofs!Next
  BY DEF RGC_true!Next, RGC_trueProofs!Next, RGC_true!Start, RGC_trueProofs!Start,
         RGC_true!EncodeKept, RGC_trueProofs!EncodeKept, RGC_true!AllocateGates,
         RGC_trueProofs!AllocateGates, RGC_true!RebuildGate, RGC_trueProofs!RebuildGate,
         RGC_true!SkipRemoved, RGC_trueProofs!SkipRemoved, RGC_true!RebuildOutputs,
         RGC_trueProofs!RebuildOutputs, RGC_true!Return, RGC_trueProofs!Return, RGC_true!IsKept,
         RGC_trueProofs!IsKept, RGC_true!mask_use_output, RGC_trueProofs!mask_use_output,
         RGC_true!GateIds, RGC_trueProofs!GateIds, RGC_true!Type, RGC_trueProofs!Type,
         RGC_true!Operands, RGC_trueProofs!Operands, RGC_true!OperandSet,
         RGC_trueProofs!OperandSet, RGC_true!OutputSet, RGC_trueProofs!OutputSet,
         RGC_true!InputGates, RGC_trueProofs!InputGates, RGC_true!InputNames,
         RGC_trueProofs!InputNames, RGC_true!Cone, RGC_trueProofs!Cone, RGC_true!GateInfo,
         RGC_trueProofs!GateInfo, RGC_true!SymmetricOperatorQ,
         RGC_trueProofs!SymmetricOperatorQ, RGC_true!Sorted, RGC_trueProofs!Sorted,
         RGC_true!Precedes, RGC_trueProofs!Precedes, RGC_true!Cardinality,
         RGC_trueProofs!Cardinality, RGC_true!NoGateInfo, RGC_trueProofs!NoGateInfo,
         RGC_true!GateTypes, RGC_trueProofs!GateTypes, RGC_true!OperatorTypes,
         RGC_trueProofs!OperatorTypes, RGC_true!FoldTypes, RGC_trueProofs!FoldTypes,
         RGC_true!NoEncoder, RGC_trueProofs!NoEncoder, RGC_true!KeyExists,
         RGC_trueProofs!KeyExists, RGC_true!EncodeGate, RGC_trueProofs!EncodeGate,
         RGC_true!IdOf, RGC_trueProofs!IdOf, RGC_true!EncodeGates, RGC_trueProofs!EncodeGates,
         RGC_true!MergeGateEncoders, RGC_trueProofs!MergeGateEncoders, RGC_true!DecodeGate,
         RGC_trueProofs!DecodeGate
<1>2. RGC_true!Next => UNCHANGED <<circuit, names>> /\ pc # "done" /\ pc' # "ready"
  BY DEF RGC_true!Next, RGC_true!Start, RGC_true!EncodeKept, RGC_true!AllocateGates,
         RGC_true!RebuildGate, RGC_true!SkipRemoved, RGC_true!RebuildOutputs, RGC_true!Return
<1>3. pc = "ready" /\ RGC_trueProofs!Next => RGC_trueProofs!Start
  BY DEF RGC_trueProofs!Next, RGC_trueProofs!EncodeKept, RGC_trueProofs!AllocateGates,
         RGC_trueProofs!RebuildGate, RGC_trueProofs!SkipRemoved, RGC_trueProofs!RebuildOutputs,
         RGC_trueProofs!Return
<1>4. RGC_true!TypeOK <=> RGC_trueProofs!TypeOK
  BY DEF RGC_true!TypeOK, RGC_trueProofs!TypeOK, RGC_true!GateIds, RGC_trueProofs!GateIds,
         RGC_true!Type, RGC_trueProofs!Type, RGC_true!Operands, RGC_trueProofs!Operands,
         RGC_true!OperandSet, RGC_trueProofs!OperandSet, RGC_true!OutputSet,
         RGC_trueProofs!OutputSet, RGC_true!InputGates, RGC_trueProofs!InputGates,
         RGC_true!InputNames, RGC_trueProofs!InputNames, RGC_true!Cone, RGC_trueProofs!Cone,
         RGC_true!GateInfo, RGC_trueProofs!GateInfo, RGC_true!SymmetricOperatorQ,
         RGC_trueProofs!SymmetricOperatorQ, RGC_true!Sorted, RGC_trueProofs!Sorted,
         RGC_true!Precedes, RGC_trueProofs!Precedes, RGC_true!Cardinality,
         RGC_trueProofs!Cardinality, RGC_true!NoGateInfo, RGC_trueProofs!NoGateInfo,
         RGC_true!GateTypes, RGC_trueProofs!GateTypes, RGC_true!OperatorTypes,
         RGC_trueProofs!OperatorTypes, RGC_true!FoldTypes, RGC_trueProofs!FoldTypes,
         RGC_true!NoEncoder, RGC_trueProofs!NoEncoder, RGC_true!KeyExists,
         RGC_trueProofs!KeyExists, RGC_true!EncodeGate, RGC_trueProofs!EncodeGate,
         RGC_true!IdOf, RGC_trueProofs!IdOf, RGC_true!EncodeGates, RGC_trueProofs!EncodeGates,
         RGC_true!MergeGateEncoders, RGC_trueProofs!MergeGateEncoders, RGC_true!DecodeGate,
         RGC_trueProofs!DecodeGate
<1>5. RGC_true!NothingRedundant <=> RGC_trueProofs!NothingRedundant
  BY DEF RGC_true!NothingRedundant, RGC_trueProofs!NothingRedundant, RGC_true!Result,
         RGC_trueProofs!Result, RGC_true!GateIds, RGC_trueProofs!GateIds, RGC_true!Type,
         RGC_trueProofs!Type, RGC_true!Operands, RGC_trueProofs!Operands, RGC_true!OperandSet,
         RGC_trueProofs!OperandSet, RGC_true!OutputSet, RGC_trueProofs!OutputSet,
         RGC_true!InputGates, RGC_trueProofs!InputGates, RGC_true!InputNames,
         RGC_trueProofs!InputNames, RGC_true!Cone, RGC_trueProofs!Cone, RGC_true!GateInfo,
         RGC_trueProofs!GateInfo, RGC_true!SymmetricOperatorQ,
         RGC_trueProofs!SymmetricOperatorQ, RGC_true!Sorted, RGC_trueProofs!Sorted,
         RGC_true!Precedes, RGC_trueProofs!Precedes, RGC_true!Cardinality,
         RGC_trueProofs!Cardinality, RGC_true!NoGateInfo, RGC_trueProofs!NoGateInfo,
         RGC_true!GateTypes, RGC_trueProofs!GateTypes, RGC_true!OperatorTypes,
         RGC_trueProofs!OperatorTypes, RGC_true!FoldTypes, RGC_trueProofs!FoldTypes,
         RGC_true!NoEncoder, RGC_trueProofs!NoEncoder, RGC_true!KeyExists,
         RGC_trueProofs!KeyExists, RGC_true!EncodeGate, RGC_trueProofs!EncodeGate,
         RGC_true!IdOf, RGC_trueProofs!IdOf, RGC_true!EncodeGates, RGC_trueProofs!EncodeGates,
         RGC_true!MergeGateEncoders, RGC_trueProofs!MergeGateEncoders, RGC_true!DecodeGate,
         RGC_trueProofs!DecodeGate
<1>. QED
  BY <1>1, <1>2, <1>3, <1>4, <1>5

(* The invariant of the strategy through a step of                          *)
(* RedundantGatesCleaner_<true>: its first step meets the circuit handed    *)
(* over to it, the others keep its own invariant.                           *)
LEMMA RGC_trueStep ==
    ASSUME Inv, Running("RGC_true"), RGC_true!Next, UNCHANGED <<given, strategy, stage>> PROVE Inv'
<1>1. UNCHANGED <<circuit, names>> /\ pc' # "ready" /\ RGC_trueProofs!Next
  BY RGC_trueSteps
<1>2. RGC_trueProofs!Inv'
  <2>1. CASE pc = "ready"
    <3>1. RGC_trueProofs!Given
      BY RGC_trueNotions DEF Inv, HandsOverCircuits, RGC_trueProofs!Given
    <3>. QED
      BY <2>1, <3>1, RGC_trueSteps, RGC_trueProofs!StartStep
  <2>2. CASE pc # "ready"
    BY <1>1, <2>2, RGC_trueProofs!NextHolds DEF Inv, Working
  <2>. QED
    BY <2>1, <2>2
<1>. QED
  BY <1>1, <1>2 DEF Inv, HandsOverCircuits, Working, Running

(* What RedundantGatesCleaner_<true> returns is what its module says.       *)
LEMMA RGC_trueReturns ==
    ASSUME Inv, Running("RGC_true"), pc = "done" PROVE ReturnsCorrect
<1>1. RGC_trueProofs!Inv
  BY DEF Inv, Working
<1>2. RGC_trueProofs!Result = Result /\ new_names = ResultNames
  BY DEF RGC_trueProofs!Result, Result, ResultNames, Running, RNC!Result
<1>3. /\ RGC_trueProofs!WellFormed(RGC_trueProofs!Result) /\ RGC_trueProofs!NamesGates(RGC_trueProofs!Result, new_names)
      /\ RGC_trueProofs!SameFunction(circuit, names, RGC_trueProofs!Result, new_names)
  BY <1>1, RGC_trueProofs!ResultIsCorrect
<1>4. (RGC_trueProofs!Usable(circuit) => RGC_trueProofs!Usable(RGC_trueProofs!Result)) /\ RGC_trueProofs!AreNames(new_names)
  BY <1>1, RGC_trueProofs!ResultIsUsable
<1>5. Usable(Result) /\ AreNames(ResultNames)
  BY <1>2, <1>4, RGC_trueNotions DEF Inv
<1>. QED
  BY <1>2, <1>3, <1>5, RGC_trueNotions DEF ReturnsCorrect

------------------------------------------------------------------------------
(* The module of DuplicateGatesCleaner_ has the notions of Circuits as its  *)
(* own: they are the same.                                                  *)
LEMMA DGCNotions ==
    ASSUME NEW c, NEW cnames, NEW d, NEW dnames
    PROVE  /\ DGCProofs!WellFormed(c) <=> WellFormed(c)
           /\ DGCProofs!NamesGates(c, cnames) <=> NamesGates(c, cnames)
           /\ DGCProofs!SameFunction(c, cnames, d, dnames) <=> SameFunction(c, cnames, d, dnames)
           /\ DGCProofs!Usable(c) <=> Usable(c)
           /\ DGCProofs!AreNames(cnames) <=> AreNames(cnames)
<1>1. DGCProofs!NamesGates(c, cnames) <=> NamesGates(c, cnames)
  BY DEF NamesGates, DGCProofs!NamesGates, GateIds, DGCProofs!GateIds
<1>2. DGCProofs!WellFormed(c) <=> WellFormed(c)
  BY DEF GateIds, DGCProofs!GateIds, Type, DGCProofs!Type, Operands, DGCProofs!Operands,
         OperandSet, DGCProofs!OperandSet, OutputSet, DGCProofs!OutputSet, InputGates,
         DGCProofs!InputGates, Cone, DGCProofs!Cone, Cardinality, DGCProofs!Cardinality,
         GateTypes, DGCProofs!GateTypes, OperatorTypes, DGCProofs!OperatorTypes, FoldTypes,
         DGCProofs!FoldTypes, WellFormed, DGCProofs!WellFormed, IdsInRange,
         DGCProofs!IdsInRange, IsAcyclic, DGCProofs!IsAcyclic, IsRanking, DGCProofs!IsRanking,
         ConeSizes, DGCProofs!ConeSizes, GateInfos, DGCProofs!GateInfos, ArityOk,
         DGCProofs!ArityOk
<1>3. DGCProofs!SameFunction(c, cnames, d, dnames) <=> SameFunction(c, cnames, d, dnames)
  BY DEF GateIds, DGCProofs!GateIds, Type, DGCProofs!Type, Operands, DGCProofs!Operands,
         OperandSet, DGCProofs!OperandSet, OutputSet, DGCProofs!OutputSet, InputGates,
         DGCProofs!InputGates, Cone, DGCProofs!Cone, Cardinality, DGCProofs!Cardinality,
         GateTypes, DGCProofs!GateTypes, OperatorTypes, DGCProofs!OperatorTypes, FoldTypes,
         DGCProofs!FoldTypes, SameFunction, DGCProofs!SameFunction, InputNames,
         DGCProofs!InputNames, Assignment, DGCProofs!Assignment, OutputStates,
         DGCProofs!OutputStates, EvaluateCircuit, DGCProofs!EvaluateCircuit, CutAtGiven,
         DGCProofs!CutAtGiven, NoGateInfo, DGCProofs!NoGateInfo, StatesOf, DGCProofs!StatesOf,
         Operator, DGCProofs!Operator, NOT, DGCProofs!NOT, IFF, DGCProofs!IFF, AND,
         DGCProofs!AND, OR, DGCProofs!OR, XOR, DGCProofs!XOR, MUX, DGCProofs!MUX, Lookup1,
         DGCProofs!Lookup1, Lookup2, DGCProofs!Lookup2, Lookup3, DGCProofs!Lookup3, StFalse,
         DGCProofs!StFalse, StTrue, DGCProofs!StTrue, StUndef, DGCProofs!StUndef, GateStates,
         DGCProofs!GateStates, FunctionOf, DGCProofs!FunctionOf, FoldMap, DGCProofs!FoldMap
<1>4. DGCProofs!Usable(c) <=> Usable(c)
  BY DEF Usable, DGCProofs!Usable, IsUsable, DGCProofs!IsUsable, GateIds, DGCProofs!GateIds, OperatorTypes,
         DGCProofs!OperatorTypes, FoldTypes, DGCProofs!FoldTypes
<1>5. DGCProofs!AreNames(cnames) <=> AreNames(cnames)
  BY DEF AreNames, DGCProofs!AreNames
<1>. QED
  BY <1>1, <1>2, <1>3, <1>4, <1>5

(* The steps of DuplicateGatesCleaner_ here are those of its module, and so *)
(* are its properties; it works on one circuit until it is done.            *)
LEMMA DGCSteps ==
    /\ DGC!Next => DGCProofs!Next
    /\ DGC!Next => UNCHANGED <<circuit, names>> /\ pc # "done" /\ pc' # "ready"
    /\ pc = "ready" /\ DGC!Next => DGCProofs!Start
    /\ DGC!TypeOK <=> DGCProofs!TypeOK
    /\ DGC!EncodersAgree <=> DGCProofs!EncodersAgree
<1>1. DGC!Next => DGCProofs!Next
  BY DEF DGC!Next, DGCProofs!Next, DGC!Start, DGCProofs!Start, DGC!NameDuplicate,
         DGCProofs!NameDuplicate, DGC!NameNew, DGCProofs!NameNew, DGC!AllocateGates,
         DGCProofs!AllocateGates, DGC!BuildGate, DGCProofs!BuildGate, DGC!RebuildOutputs,
         DGCProofs!RebuildOutputs, DGC!Return, DGCProofs!Return, DGC!NewOperands,
         DGCProofs!NewOperands, DGC!get_gate_auxiliary_name_,
         DGCProofs!get_gate_auxiliary_name_, DGC!gateId, DGCProofs!gateId, DGC!encoded_name,
         DGCProofs!encoded_name, DGC!Visited, DGCProofs!Visited, DGC!NoGate, DGCProofs!NoGate,
         DGC!GateIds, DGCProofs!GateIds, DGC!Type, DGCProofs!Type, DGC!Operands,
         DGCProofs!Operands, DGC!OperandSet, DGCProofs!OperandSet, DGC!OutputSet,
         DGCProofs!OutputSet, DGC!InputGates, DGCProofs!InputGates, DGC!InputNames,
         DGCProofs!InputNames, DGC!Cone, DGCProofs!Cone, DGC!GateInfo, DGCProofs!GateInfo,
         DGC!SymmetricOperatorQ, DGCProofs!SymmetricOperatorQ, DGC!Sorted, DGCProofs!Sorted,
         DGC!Precedes, DGCProofs!Precedes, DGC!Cardinality, DGCProofs!Cardinality,
         DGC!NoGateInfo, DGCProofs!NoGateInfo, DGC!GateTypes, DGCProofs!GateTypes,
         DGC!OperatorTypes, DGCProofs!OperatorTypes, DGC!FoldTypes, DGCProofs!FoldTypes,
         DGC!NoEncoder, DGCProofs!NoEncoder, DGC!KeyExists, DGCProofs!KeyExists, DGC!EncodeGate,
         DGCProofs!EncodeGate, DGC!IdOf, DGCProofs!IdOf, DGC!EncodeGates, DGCProofs!EncodeGates,
         DGC!MergeGateEncoders, DGCProofs!MergeGateEncoders, DGC!DecodeGate,
         DGCProofs!DecodeGate, DGC!DFSTopSort, DGCProofs!DFSTopSort, DGC!SortFrom,
         DGCProofs!SortFrom, DGC!Sources, DGCProofs!Sources, DGC!HasUsers, DGCProofs!HasUsers,
         DGC!Postorder, DGCProofs!Postorder, DGC!VisitAll, DGCProofs!VisitAll, DGC!Leaves,
         DGCProofs!Leaves, DGC!Backwards, DGCProofs!Backwards
<1>2. DGC!Next => UNCHANGED <<circuit, names>> /\ pc # "done" /\ pc' # "ready"
  BY DEF DGC!Next, DGC!Start, DGC!NameDuplicate, DGC!NameNew, DGC!AllocateGates, DGC!BuildGate,
         DGC!RebuildOutputs, DGC!Return
<1>3. pc = "ready" /\ DGCProofs!Next => DGCProofs!Start
  BY DEF DGCProofs!Next, DGCProofs!NameDuplicate, DGCProofs!NameNew, DGCProofs!AllocateGates,
         DGCProofs!BuildGate, DGCProofs!RebuildOutputs, DGCProofs!Return
<1>4. DGC!TypeOK <=> DGCProofs!TypeOK
  BY DEF DGC!TypeOK, DGCProofs!TypeOK, DGC!GateIds, DGCProofs!GateIds, DGC!Type, DGCProofs!Type,
         DGC!Operands, DGCProofs!Operands, DGC!OperandSet, DGCProofs!OperandSet, DGC!OutputSet,
         DGCProofs!OutputSet, DGC!InputGates, DGCProofs!InputGates, DGC!InputNames,
         DGCProofs!InputNames, DGC!Cone, DGCProofs!Cone, DGC!GateInfo, DGCProofs!GateInfo,
         DGC!SymmetricOperatorQ, DGCProofs!SymmetricOperatorQ, DGC!Sorted, DGCProofs!Sorted,
         DGC!Precedes, DGCProofs!Precedes, DGC!Cardinality, DGCProofs!Cardinality,
         DGC!NoGateInfo, DGCProofs!NoGateInfo, DGC!GateTypes, DGCProofs!GateTypes,
         DGC!OperatorTypes, DGCProofs!OperatorTypes, DGC!FoldTypes, DGCProofs!FoldTypes,
         DGC!NoEncoder, DGCProofs!NoEncoder, DGC!KeyExists, DGCProofs!KeyExists, DGC!EncodeGate,
         DGCProofs!EncodeGate, DGC!IdOf, DGCProofs!IdOf, DGC!EncodeGates, DGCProofs!EncodeGates,
         DGC!MergeGateEncoders, DGCProofs!MergeGateEncoders, DGC!DecodeGate,
         DGCProofs!DecodeGate, DGC!DFSTopSort, DGCProofs!DFSTopSort, DGC!SortFrom,
         DGCProofs!SortFrom, DGC!Sources, DGCProofs!Sources, DGC!HasUsers, DGCProofs!HasUsers,
         DGC!Postorder, DGCProofs!Postorder, DGC!VisitAll, DGCProofs!VisitAll, DGC!Leaves,
         DGCProofs!Leaves, DGC!Backwards, DGCProofs!Backwards
<1>5. DGC!EncodersAgree <=> DGCProofs!EncodersAgree
  BY DEF DGC!EncodersAgree, DGCProofs!EncodersAgree, DGC!GateIds, DGCProofs!GateIds, DGC!Type,
         DGCProofs!Type, DGC!Operands, DGCProofs!Operands, DGC!OperandSet, DGCProofs!OperandSet,
         DGC!OutputSet, DGCProofs!OutputSet, DGC!InputGates, DGCProofs!InputGates,
         DGC!InputNames, DGCProofs!InputNames, DGC!Cone, DGCProofs!Cone, DGC!GateInfo,
         DGCProofs!GateInfo, DGC!SymmetricOperatorQ, DGCProofs!SymmetricOperatorQ, DGC!Sorted,
         DGCProofs!Sorted, DGC!Precedes, DGCProofs!Precedes, DGC!Cardinality,
         DGCProofs!Cardinality, DGC!NoGateInfo, DGCProofs!NoGateInfo, DGC!GateTypes,
         DGCProofs!GateTypes, DGC!OperatorTypes, DGCProofs!OperatorTypes, DGC!FoldTypes,
         DGCProofs!FoldTypes, DGC!NoEncoder, DGCProofs!NoEncoder, DGC!KeyExists,
         DGCProofs!KeyExists, DGC!EncodeGate, DGCProofs!EncodeGate, DGC!IdOf, DGCProofs!IdOf,
         DGC!EncodeGates, DGCProofs!EncodeGates, DGC!MergeGateEncoders,
         DGCProofs!MergeGateEncoders, DGC!DecodeGate, DGCProofs!DecodeGate, DGC!DFSTopSort,
         DGCProofs!DFSTopSort, DGC!SortFrom, DGCProofs!SortFrom, DGC!Sources, DGCProofs!Sources,
         DGC!HasUsers, DGCProofs!HasUsers, DGC!Postorder, DGCProofs!Postorder, DGC!VisitAll,
         DGCProofs!VisitAll, DGC!Leaves, DGCProofs!Leaves, DGC!Backwards, DGCProofs!Backwards
<1>. QED
  BY <1>1, <1>2, <1>3, <1>4, <1>5

(* The invariant of the strategy through a step of DuplicateGatesCleaner_:  *)
(* its first step meets the circuit handed over to it, the others keep its  *)
(* own invariant.                                                           *)
LEMMA DGCStep ==
    ASSUME Inv, Running("DGC"), DGC!Next, UNCHANGED <<given, strategy, stage>> PROVE Inv'
<1>1. UNCHANGED <<circuit, names>> /\ pc' # "ready" /\ DGCProofs!Next
  BY DGCSteps
<1>2. DGCProofs!Inv'
  <2>1. CASE pc = "ready"
    <3>1. DGCProofs!Given
      BY DGCNotions DEF Inv, HandsOverCircuits, DGCProofs!Given
    <3>. QED
      BY <2>1, <3>1, DGCSteps, DGCProofs!StartStep
  <2>2. CASE pc # "ready"
    BY <1>1, <2>2, DGCProofs!NextHolds DEF Inv, Working
  <2>. QED
    BY <2>1, <2>2
<1>. QED
  BY <1>1, <1>2 DEF Inv, HandsOverCircuits, Working, Running

(* What DuplicateGatesCleaner_ returns is what its module says.             *)
LEMMA DGCReturns ==
    ASSUME Inv, Running("DGC"), pc = "done" PROVE ReturnsCorrect
<1>1. DGCProofs!Inv
  BY DEF Inv, Working
<1>2. DGCProofs!Result = Result /\ new_names = ResultNames
  BY DEF DGCProofs!Result, Result, ResultNames, Running, RNC!Result
<1>3. /\ DGCProofs!WellFormed(DGCProofs!Result) /\ DGCProofs!NamesGates(DGCProofs!Result, new_names)
      /\ DGCProofs!SameFunction(circuit, names, DGCProofs!Result, new_names)
  BY <1>1, DGCProofs!ResultIsCorrect
<1>4. (DGCProofs!Usable(circuit) => DGCProofs!Usable(DGCProofs!Result)) /\ DGCProofs!AreNames(new_names)
  BY <1>1, DGCProofs!ResultIsUsable
<1>5. Usable(Result) /\ AreNames(ResultNames)
  BY <1>2, <1>4, DGCNotions DEF Inv
<1>. QED
  BY <1>2, <1>3, <1>5, DGCNotions DEF ReturnsCorrect

------------------------------------------------------------------------------
(* The module of ReduceNotComposition_ has the notions of Circuits as its   *)
(* own: they are the same.                                                  *)
LEMMA RNCNotions ==
    ASSUME NEW c, NEW cnames, NEW d, NEW dnames
    PROVE  /\ RNCProofs!WellFormed(c) <=> WellFormed(c)
           /\ RNCProofs!NamesGates(c, cnames) <=> NamesGates(c, cnames)
           /\ RNCProofs!SameFunction(c, cnames, d, dnames) <=> SameFunction(c, cnames, d, dnames)
           /\ RNCProofs!Usable(c) <=> Usable(c)
           /\ RNCProofs!AreNames(cnames) <=> AreNames(cnames)
<1>1. RNCProofs!NamesGates(c, cnames) <=> NamesGates(c, cnames)
  BY DEF NamesGates, RNCProofs!NamesGates, GateIds, RNCProofs!GateIds
<1>2. RNCProofs!WellFormed(c) <=> WellFormed(c)
  BY DEF GateIds, RNCProofs!GateIds, Type, RNCProofs!Type, Operands, RNCProofs!Operands,
         OperandSet, RNCProofs!OperandSet, OutputSet, RNCProofs!OutputSet, InputGates,
         RNCProofs!InputGates, Cone, RNCProofs!Cone, Cardinality, RNCProofs!Cardinality,
         GateTypes, RNCProofs!GateTypes, OperatorTypes, RNCProofs!OperatorTypes, FoldTypes,
         RNCProofs!FoldTypes, WellFormed, RNCProofs!WellFormed, IdsInRange,
         RNCProofs!IdsInRange, IsAcyclic, RNCProofs!IsAcyclic, IsRanking, RNCProofs!IsRanking,
         ConeSizes, RNCProofs!ConeSizes, GateInfos, RNCProofs!GateInfos, ArityOk,
         RNCProofs!ArityOk
<1>3. RNCProofs!SameFunction(c, cnames, d, dnames) <=> SameFunction(c, cnames, d, dnames)
  BY DEF GateIds, RNCProofs!GateIds, Type, RNCProofs!Type, Operands, RNCProofs!Operands,
         OperandSet, RNCProofs!OperandSet, OutputSet, RNCProofs!OutputSet, InputGates,
         RNCProofs!InputGates, Cone, RNCProofs!Cone, Cardinality, RNCProofs!Cardinality,
         GateTypes, RNCProofs!GateTypes, OperatorTypes, RNCProofs!OperatorTypes, FoldTypes,
         RNCProofs!FoldTypes, SameFunction, RNCProofs!SameFunction, InputNames,
         RNCProofs!InputNames, Assignment, RNCProofs!Assignment, OutputStates,
         RNCProofs!OutputStates, EvaluateCircuit, RNCProofs!EvaluateCircuit, CutAtGiven,
         RNCProofs!CutAtGiven, NoGateInfo, RNCProofs!NoGateInfo, StatesOf, RNCProofs!StatesOf,
         Operator, RNCProofs!Operator, NOT, RNCProofs!NOT, IFF, RNCProofs!IFF, AND,
         RNCProofs!AND, OR, RNCProofs!OR, XOR, RNCProofs!XOR, MUX, RNCProofs!MUX, Lookup1,
         RNCProofs!Lookup1, Lookup2, RNCProofs!Lookup2, Lookup3, RNCProofs!Lookup3, StFalse,
         RNCProofs!StFalse, StTrue, RNCProofs!StTrue, StUndef, RNCProofs!StUndef, GateStates,
         RNCProofs!GateStates, FunctionOf, RNCProofs!FunctionOf, FoldMap, RNCProofs!FoldMap
<1>4. RNCProofs!Usable(c) <=> Usable(c)
  BY DEF Usable, RNCProofs!Usable, IsUsable, RNCProofs!IsUsable, GateIds, RNCProofs!GateIds, OperatorTypes,
         RNCProofs!OperatorTypes, FoldTypes, RNCProofs!FoldTypes
<1>5. RNCProofs!AreNames(cnames) <=> AreNames(cnames)
  BY DEF AreNames, RNCProofs!AreNames
<1>. QED
  BY <1>1, <1>2, <1>3, <1>4, <1>5

(* The steps of ReduceNotComposition_ here are those of its module, and so  *)
(* are its properties; it works on one circuit until it is done.            *)
LEMMA RNCSteps ==
    /\ RNC!Next => RNCProofs!Next
    /\ RNC!Next => UNCHANGED <<circuit, names>> /\ pc # "done" /\ pc' # "ready"
    /\ pc = "ready" /\ RNC!Next => RNCProofs!Start
    /\ RNC!TypeOK <=> RNCProofs!TypeOK
    /\ RNC!ChainsAreReduced <=> RNCProofs!ChainsAreReduced
<1>1. RNC!Next => RNCProofs!Next
  BY DEF RNC!Next, RNCProofs!Next, RNC!Start, RNCProofs!Start, RNC!KeepOperand,
         RNCProofs!KeepOperand, RNC!EnterChain, RNCProofs!EnterChain, RNC!PassNot,
         RNCProofs!PassNot, RNC!LeaveChain, RNCProofs!LeaveChain, RNC!Throw, RNCProofs!Throw,
         RNC!RebuildGate, RNCProofs!RebuildGate, RNC!Return, RNCProofs!Return, RNC!gateId,
         RNCProofs!gateId, RNC!operand, RNCProofs!operand, RNC!HasOperandLeft,
         RNCProofs!HasOperandLeft, RNC!IsNot, RNCProofs!IsNot, RNC!HasOperand,
         RNCProofs!HasOperand, RNC!check_gate, RNCProofs!check_gate, RNC!NoGate,
         RNCProofs!NoGate, RNC!GateIds, RNCProofs!GateIds, RNC!Type, RNCProofs!Type,
         RNC!Operands, RNCProofs!Operands, RNC!OperandSet, RNCProofs!OperandSet, RNC!OutputSet,
         RNCProofs!OutputSet, RNC!InputGates, RNCProofs!InputGates, RNC!InputNames,
         RNCProofs!InputNames, RNC!Cone, RNCProofs!Cone, RNC!GateInfo, RNCProofs!GateInfo,
         RNC!SymmetricOperatorQ, RNCProofs!SymmetricOperatorQ, RNC!Sorted, RNCProofs!Sorted,
         RNC!Precedes, RNCProofs!Precedes, RNC!Cardinality, RNCProofs!Cardinality,
         RNC!NoGateInfo, RNCProofs!NoGateInfo, RNC!GateTypes, RNCProofs!GateTypes,
         RNC!OperatorTypes, RNCProofs!OperatorTypes, RNC!FoldTypes, RNCProofs!FoldTypes,
         RNC!DFSTopSort, RNCProofs!DFSTopSort, RNC!SortFrom, RNCProofs!SortFrom, RNC!Sources,
         RNCProofs!Sources, RNC!HasUsers, RNCProofs!HasUsers, RNC!Postorder,
         RNCProofs!Postorder, RNC!VisitAll, RNCProofs!VisitAll, RNC!Leaves, RNCProofs!Leaves,
         RNC!Backwards, RNCProofs!Backwards
<1>2. RNC!Next => UNCHANGED <<circuit, names>> /\ pc # "done" /\ pc' # "ready"
  BY DEF RNC!Next, RNC!Start, RNC!KeepOperand, RNC!EnterChain, RNC!PassNot, RNC!LeaveChain,
         RNC!Throw, RNC!RebuildGate, RNC!Return
<1>3. pc = "ready" /\ RNCProofs!Next => RNCProofs!Start
  BY DEF RNCProofs!Next, RNCProofs!KeepOperand, RNCProofs!EnterChain, RNCProofs!PassNot,
         RNCProofs!LeaveChain, RNCProofs!Throw, RNCProofs!RebuildGate, RNCProofs!Return
<1>4. RNC!TypeOK <=> RNCProofs!TypeOK
  BY DEF RNC!TypeOK, RNCProofs!TypeOK, RNC!GateIds, RNCProofs!GateIds, RNC!Type, RNCProofs!Type,
         RNC!Operands, RNCProofs!Operands, RNC!OperandSet, RNCProofs!OperandSet, RNC!OutputSet,
         RNCProofs!OutputSet, RNC!InputGates, RNCProofs!InputGates, RNC!InputNames,
         RNCProofs!InputNames, RNC!Cone, RNCProofs!Cone, RNC!GateInfo, RNCProofs!GateInfo,
         RNC!SymmetricOperatorQ, RNCProofs!SymmetricOperatorQ, RNC!Sorted, RNCProofs!Sorted,
         RNC!Precedes, RNCProofs!Precedes, RNC!Cardinality, RNCProofs!Cardinality,
         RNC!NoGateInfo, RNCProofs!NoGateInfo, RNC!GateTypes, RNCProofs!GateTypes,
         RNC!OperatorTypes, RNCProofs!OperatorTypes, RNC!FoldTypes, RNCProofs!FoldTypes,
         RNC!DFSTopSort, RNCProofs!DFSTopSort, RNC!SortFrom, RNCProofs!SortFrom, RNC!Sources,
         RNCProofs!Sources, RNC!HasUsers, RNCProofs!HasUsers, RNC!Postorder,
         RNCProofs!Postorder, RNC!VisitAll, RNCProofs!VisitAll, RNC!Leaves, RNCProofs!Leaves,
         RNC!Backwards, RNCProofs!Backwards
<1>5. RNC!ChainsAreReduced <=> RNCProofs!ChainsAreReduced
  BY DEF RNC!ChainsAreReduced, RNCProofs!ChainsAreReduced, RNC!IsReduced, RNCProofs!IsReduced,
         RNC!Result, RNCProofs!Result, RNC!IsNot, RNCProofs!IsNot, RNC!GateIds,
         RNCProofs!GateIds, RNC!Type, RNCProofs!Type, RNC!Operands, RNCProofs!Operands,
         RNC!OperandSet, RNCProofs!OperandSet, RNC!OutputSet, RNCProofs!OutputSet,
         RNC!InputGates, RNCProofs!InputGates, RNC!InputNames, RNCProofs!InputNames, RNC!Cone,
         RNCProofs!Cone, RNC!GateInfo, RNCProofs!GateInfo, RNC!SymmetricOperatorQ,
         RNCProofs!SymmetricOperatorQ, RNC!Sorted, RNCProofs!Sorted, RNC!Precedes,
         RNCProofs!Precedes, RNC!Cardinality, RNCProofs!Cardinality, RNC!NoGateInfo,
         RNCProofs!NoGateInfo, RNC!GateTypes, RNCProofs!GateTypes, RNC!OperatorTypes,
         RNCProofs!OperatorTypes, RNC!FoldTypes, RNCProofs!FoldTypes, RNC!DFSTopSort,
         RNCProofs!DFSTopSort, RNC!SortFrom, RNCProofs!SortFrom, RNC!Sources, RNCProofs!Sources,
         RNC!HasUsers, RNCProofs!HasUsers, RNC!Postorder, RNCProofs!Postorder, RNC!VisitAll,
         RNCProofs!VisitAll, RNC!Leaves, RNCProofs!Leaves, RNC!Backwards, RNCProofs!Backwards
<1>. QED
  BY <1>1, <1>2, <1>3, <1>4, <1>5

(* The invariant of the strategy through a step of ReduceNotComposition_:   *)
(* its first step meets the circuit handed over to it, the others keep its  *)
(* own invariant.                                                           *)
LEMMA RNCStep ==
    ASSUME Inv, Running("RNC"), RNC!Next, UNCHANGED <<given, strategy, stage>> PROVE Inv'
<1>1. UNCHANGED <<circuit, names>> /\ pc' # "ready" /\ RNCProofs!Next
  BY RNCSteps
<1>2. RNCProofs!Inv'
  <2>1. CASE pc = "ready"
    <3>1. RNCProofs!Given
      BY RNCNotions DEF Inv, HandsOverCircuits, RNCProofs!Given
    <3>. QED
      BY <2>1, <3>1, RNCSteps, RNCProofs!StartStep
  <2>2. CASE pc # "ready"
    BY <1>1, <2>2, RNCProofs!NextHolds DEF Inv, Working
  <2>. QED
    BY <2>1, <2>2
<1>. QED
  BY <1>1, <1>2 DEF Inv, HandsOverCircuits, Working, Running

(* What ReduceNotComposition_ returns is what its module says.              *)
LEMMA RNCReturns ==
    ASSUME Inv, Running("RNC"), pc = "done" PROVE ReturnsCorrect
<1>1. RNCProofs!Inv
  BY DEF Inv, Working
<1>2. RNCProofs!Result = Result /\ names = ResultNames
  BY DEF RNCProofs!Result, Result, ResultNames, Running, RNC!Result
<1>3. /\ RNCProofs!WellFormed(RNCProofs!Result) /\ RNCProofs!NamesGates(RNCProofs!Result, names)
      /\ RNCProofs!SameFunction(circuit, names, RNCProofs!Result, names)
  BY <1>1, RNCProofs!ResultIsCorrect
<1>4. RNCProofs!Usable(circuit) => RNCProofs!Usable(RNCProofs!Result)
  BY <1>1, RNCProofs!ResultIsUsable
<1>5. Usable(Result) /\ AreNames(ResultNames)
  BY <1>2, <1>4, RNCNotions DEF Inv
<1>. QED
  BY <1>2, <1>3, <1>5, RNCNotions DEF ReturnsCorrect

------------------------------------------------------------------------------
(* The two transformers of which no module of proofs is used work on one    *)
(* circuit until they are done, too.                                        *)
LEMMA OthersSteps ==
    DOC!Next \/ CGR!Next => UNCHANGED <<circuit, names>> /\ pc # "done" /\ pc' # "ready"
<1>1. DOC!Next => UNCHANGED <<circuit, names>> /\ pc # "done" /\ pc' # "ready"
  BY DEF DOC!Next, DOC!Visit, DOC!Start, DOC!LinkToOperand, DOC!LinkToNegation,
         DOC!LinkToConstant, DOC!KeepGate, DOC!Return
<1>2. CGR!Next => UNCHANGED <<circuit, names>> /\ pc # "done" /\ pc' # "ready"
  BY DEF CGR!Next, CGR!Visit, CGR!AtOutput, CGR!Start, CGR!LinkToOperand, CGR!LinkToNegation,
         CGR!LinkMux, CGR!KeepGate, CGR!ReplaceByConstant, CGR!GatesDone, CGR!MoveOutput,
         CGR!BuildGadget, CGR!Abort, CGR!Return
<1>. QED
  BY <1>1, <1>2

(* The steps of ConstantGateReducer_: what it is given is what it needs.    *)
LEMMA CGRStep ==
    ASSUME Inv, PrefixIsFree, Running("CGR"), CGR!Next, UNCHANGED <<given, strategy, stage>> PROVE Inv'
<1>1. UNCHANGED <<circuit, names>> /\ pc' # "ready"
  BY OthersSteps
<1>2. CGRGiven
  BY DEF Inv, HandsOverCircuits, CGRGiven
<1>3. CGRInv'
  <2>1. CASE pc = "ready"
    <3>1. CGR!Start
      BY <2>1 DEF CGR!Next, CGR!Visit, CGR!AtOutput, CGR!LinkToOperand, CGR!LinkToNegation,
                  CGR!LinkMux, CGR!KeepGate, CGR!ReplaceByConstant, CGR!GatesDone, CGR!MoveOutput,
                  CGR!BuildGadget, CGR!Abort, CGR!Return
    <3>2. \E p \in UniqueIds : PrefixFree(p, names)
      BY <2>1 DEF PrefixIsFree
    <3>. QED
      BY <1>2, <3>1, <3>2, CGRStart
  <2>2. CASE pc # "ready"
    BY <1>2, <2>2, CGRNextHolds DEF Inv, Working
  <2>. QED
    BY <2>1, <2>2
<1>. QED
  BY <1>1, <1>3 DEF Inv, HandsOverCircuits, Working, Running

(* What it returns is correct.                                              *)
LEMMA CGRReturns ==
    ASSUME Inv, Running("CGR"), pc = "done" PROVE ReturnsCorrect
<1>1. CGRGiven
  BY DEF Inv, HandsOverCircuits, CGRGiven
<1>2. CGRInv
  BY DEF Inv, Working
<1>. QED
  BY <1>1, <1>2, CGRReturned

------------------------------------------------------------------------------
(* A strategy begins with the circuit of a task.                            *)
LEMMA InitHolds ==
    ASSUME CircuitsFit, Init PROVE Inv
<1>1. PICK task \in Tasks : given = task.circuit /\ strategy = task.strategy
  BY DEF Init
<1>2. /\ stage = 1 /\ pc = "ready" /\ circuit = given /\ names = NaturalNames(given)
  BY DEF Init
<1>3. strategy \in Seq(Transformers) /\ 1 \in DOMAIN strategy
  BY <1>1, TasksAssumption
<1>4. WellFormed(given) /\ Usable(given) /\ Len(given.gates) \in Nat
  <2>1. WellFormed(given) /\ Usable(given)
    BY <1>1 DEF CircuitsFit, Circuits
  <2>. QED
    BY <2>1 DEF WellFormed, IdsInRange
<1>5. NamesGates(given, NaturalNames(given)) /\ AreNames(NaturalNames(given))
  BY <1>4, NaturalNamesFit, NaturalNamesAre
<1>6. SameFunction(given, NaturalNames(given), circuit, names)
  BY <1>2 DEF SameFunction
<1>. QED
  BY <1>2, <1>3, <1>4, <1>5, <1>6 DEF Inv, HandsOverCircuits, Working

(* Every transformer returns a circuit that is correct.                     *)
LEMMA AllReturnCorrect ==
    ASSUME Inv, OthersReturnCorrect, pc = "done" PROVE ReturnsCorrect
<1>1. strategy[stage] \in Transformers
  BY DEF Inv
<1>2. CASE Running("DOC")
  BY <1>2 DEF OthersReturnCorrect
<1>3. CASE Running("RGC")
  BY <1>3, RGCReturns
<1>4. CASE Running("RGC_true")
  BY <1>4, RGC_trueReturns
<1>5. CASE Running("DGC")
  BY <1>5, DGCReturns
<1>6. CASE Running("RNC")
  BY <1>6, RNCReturns
<1>7. CASE Running("CGR")
  BY <1>7, CGRReturns
<1>. QED
  BY <1>1, <1>2, <1>3, <1>4, <1>5, <1>6, <1>7 DEF Running, Transformers

(* It has computed the function of the circuit given all along.             *)
LEMMA ResultKeepsFunction ==
    ASSUME Inv, OthersReturnCorrect, pc = "done"
    PROVE  /\ WellFormed(Result) /\ NamesGates(Result, ResultNames)
           /\ SameFunction(given, NaturalNames(given), Result, ResultNames)
           /\ Usable(Result) /\ AreNames(ResultNames)
<1>1. ReturnsCorrect /\ SameFunction(given, NaturalNames(given), circuit, names)
  BY AllReturnCorrect DEF Inv
<1>. QED
  BY <1>1, SameFunctionTransitive DEF ReturnsCorrect

(* The next transformer is given what it needs.                             *)
LEMMA HandOverStep ==
    ASSUME Inv, OthersReturnCorrect, HandOver PROVE Inv'
<1>1. /\ pc = "done" /\ pc' = "ready" /\ UNCHANGED <<given, strategy>>
      /\ stage < Len(strategy) /\ stage' = stage + 1
      /\ circuit' = Result /\ names' = ResultNames
  BY DEF HandOver
<1>2. /\ WellFormed(circuit') /\ NamesGates(circuit', names') /\ Usable(circuit') /\ AreNames(names')
      /\ SameFunction(given, NaturalNames(given), circuit', names')
  BY <1>1, ResultKeepsFunction
<1>3. strategy' \in Seq(Transformers) /\ stage' \in DOMAIN strategy'
  BY <1>1 DEF Inv
<1>. QED
  BY <1>1, <1>2, <1>3 DEF Inv, HandsOverCircuits, Working

(* Nothing changes.                                                         *)
LEMMA StutterHolds ==
    ASSUME Inv, UNCHANGED vars PROVE Inv'
<1>1. UNCHANGED <<given, strategy, stage, circuit, names, pc>>
  BY DEF vars, locals
<1>2. Working("RGC") => RGCProofs!Inv'
  <2>1. UNCHANGED RGCProofs!vars
    BY DEF vars, locals, shared, rgc_locals, dgc_locals, rnc_locals, RGCProofs!vars
  <2>. QED
    BY <2>1, RGCProofs!StutterHolds DEF Inv
<1>3. Working("RGC_true") => RGC_trueProofs!Inv'
  <2>1. UNCHANGED RGC_trueProofs!vars
    BY DEF vars, locals, shared, rgc_locals, dgc_locals, rnc_locals, RGC_trueProofs!vars
  <2>. QED
    BY <2>1, RGC_trueProofs!StutterHolds DEF Inv
<1>4. Working("DGC") => DGCProofs!Inv'
  <2>1. UNCHANGED DGCProofs!vars
    BY DEF vars, locals, shared, rgc_locals, dgc_locals, rnc_locals, DGCProofs!vars
  <2>. QED
    BY <2>1, DGCProofs!StutterHolds DEF Inv
<1>5. Working("RNC") => RNCProofs!Inv'
  <2>1. UNCHANGED RNCProofs!vars
    BY DEF vars, locals, shared, rgc_locals, dgc_locals, rnc_locals, RNCProofs!vars
  <2>. QED
    BY <2>1, RNCProofs!StutterHolds DEF Inv
<1>6. Working("CGR") => CGRInv'
  <2>1. UNCHANGED <<circuit, names, pc, shared, result_assignment>>
    BY DEF vars, locals, cgr_locals
  <2>. QED
    BY <2>1, CGRStutter DEF Inv
<1>. QED
  BY <1>1, <1>2, <1>3, <1>4, <1>5, <1>6 DEF Inv, HandsOverCircuits, Working, Running

(* The invariant is inductive.                                              *)
LEMMA NextHolds ==
    ASSUME Inv, OthersReturnCorrect, PrefixIsFree, [Next]_vars PROVE Inv'
<1>1. CASE CleanRedundant
  BY <1>1, RGCStep, RGC_trueStep DEF CleanRedundant
<1>2. CASE CleanDuplicateGates
  BY <1>2, DGCStep DEF CleanDuplicateGates
<1>3. CASE ReduceNots
  BY <1>3, RNCStep DEF ReduceNots
<1>4. CASE CleanDuplicateOperands
  <2>1. Running("DOC") /\ UNCHANGED <<given, strategy, stage, circuit, names>>
    BY <1>4, OthersSteps DEF CleanDuplicateOperands
  <2>. QED
    BY <2>1 DEF Inv, HandsOverCircuits, Working, Running
<1>7. CASE ReduceConstants
  BY <1>7, CGRStep DEF ReduceConstants
<1>5. CASE HandOver
  BY <1>5, HandOverStep
<1>6. CASE UNCHANGED vars
  BY <1>6, StutterHolds
<1>. QED
  BY <1>1, <1>2, <1>3, <1>4, <1>5, <1>6, <1>7 DEF Next

(* The invariant holds in every run of a strategy whose circuits given are  *)
(* well formed.                                                             *)
THEOREM InvAlways ==
    ASSUME CircuitsFit PROVE Spec /\ []PrefixIsFree /\ []OthersReturnCorrect => []Inv
<1>1. Init => Inv
  BY InitHolds
<1>2. Inv /\ OthersReturnCorrect /\ PrefixIsFree /\ [Next]_vars => Inv'
  BY NextHolds
<1>. QED
  BY <1>1, <1>2, PTL DEF Spec

(* Every transformer of every strategy works on a well-formed circuit and   *)
(* an encoder with the names of its gates in the order of their ids.        *)
THEOREM CircuitsHandedOver ==
    ASSUME CircuitsFit
    PROVE  Spec /\ []PrefixIsFree /\ []OthersReturnCorrect => []HandsOverCircuits
<1>1. Inv => HandsOverCircuits
  BY DEF Inv
<1>. QED
  BY <1>1, InvAlways, PTL

------------------------------------------------------------------------------
(* Transformer has the notions of Circuits as its own: they are the same.   *)
LEMMA SameNotions ==
    ASSUME NEW c, NEW cnames, NEW d, NEW dnames
    PROVE  /\ T!WellFormed(c) <=> WellFormed(c)
           /\ T!NamesGates(c, cnames) <=> NamesGates(c, cnames)
           /\ T!SameFunction(c, cnames, d, dnames) <=> SameFunction(c, cnames, d, dnames)
<1>1. T!NamesGates(c, cnames) <=> NamesGates(c, cnames)
  BY DEF NamesGates, T!NamesGates, GateIds, T!GateIds
<1>2. T!WellFormed(c) <=> WellFormed(c)
  BY DEF GateIds, T!GateIds, Type, T!Type, Operands, T!Operands, OperandSet, T!OperandSet,
         OutputSet, T!OutputSet, InputGates, T!InputGates, Cone, T!Cone, Cardinality,
         T!Cardinality, GateTypes, T!GateTypes, OperatorTypes, T!OperatorTypes, FoldTypes,
         T!FoldTypes, WellFormed, T!WellFormed, IdsInRange, T!IdsInRange, IsAcyclic,
         T!IsAcyclic, IsRanking, T!IsRanking, ConeSizes, T!ConeSizes, GateInfos, T!GateInfos,
         ArityOk, T!ArityOk
<1>3. T!SameFunction(c, cnames, d, dnames) <=> SameFunction(c, cnames, d, dnames)
  BY DEF GateIds, T!GateIds, Type, T!Type, Operands, T!Operands, OperandSet, T!OperandSet,
         OutputSet, T!OutputSet, InputGates, T!InputGates, Cone, T!Cone, Cardinality,
         T!Cardinality, GateTypes, T!GateTypes, OperatorTypes, T!OperatorTypes, FoldTypes,
         T!FoldTypes, SameFunction, T!SameFunction, InputNames, T!InputNames, Assignment,
         T!Assignment, OutputStates, T!OutputStates, EvaluateCircuit, T!EvaluateCircuit,
         CutAtGiven, T!CutAtGiven, NoGateInfo, T!NoGateInfo, StatesOf, T!StatesOf, Operator,
         T!Operator, NOT, T!NOT, IFF, T!IFF, AND, T!AND, OR, T!OR, XOR, T!XOR, MUX, T!MUX,
         Lookup1, T!Lookup1, Lookup2, T!Lookup2, Lookup3, T!Lookup3, StFalse, T!StFalse, StTrue,
         T!StTrue, StUndef, T!StUndef, GateStates, T!GateStates, FunctionOf, T!FunctionOf,
         FoldMap, T!FoldMap
<1>. QED
  BY <1>1, <1>2, <1>3

(* Nothing moves once the last transformer is done.                         *)
LEMMA FinishedStays ==
    ASSUME Inv, Finished, Next PROVE FALSE
<1>1. CASE CleanRedundant
  BY <1>1, RGCSteps, RGC_trueSteps DEF CleanRedundant, Finished
<1>2. CASE CleanDuplicateGates
  BY <1>2, DGCSteps DEF CleanDuplicateGates, Finished
<1>3. CASE ReduceNots
  BY <1>3, RNCSteps DEF ReduceNots, Finished
<1>4. CASE CleanDuplicateOperands \/ ReduceConstants
  BY <1>4, OthersSteps DEF CleanDuplicateOperands, ReduceConstants, Finished
<1>5. CASE HandOver
  BY <1>5 DEF HandOver, Finished, Inv
<1>. QED
  BY <1>1, <1>2, <1>3, <1>4, <1>5 DEF Next

(* The circuit and the strategy given stay what they are.                   *)
LEMMA GivenStays ==
    ASSUME [Next]_vars PROVE UNCHANGED <<given, strategy>>
  BY DEF Next, CleanRedundant, CleanDuplicateGates, ReduceNots, CleanDuplicateOperands,
         ReduceConstants, HandOver, vars

(* What the strategy returns at its end is what Transformer asks for.       *)
CorrectAtEnd ==
    Finished => /\ WellFormed(Result) /\ NamesGates(Result, ResultNames)
                /\ SameFunction(given, NaturalNames(given), Result, ResultNames)

(* "Simplifies" and nothing else: a strategy of any length, whatever its    *)
(* order, returns once, and returns a well-formed circuit, with the names   *)
(* of its gates, that computes the function of the circuit it was given.    *)
THEOREM StrategyIsTransformer ==
    ASSUME CircuitsFit
    PROVE  Spec /\ []PrefixIsFree /\ []OthersReturnCorrect => ImplementsTransformer
<1>1. Init /\ Inv => T!Init
  <2> SUFFICES ASSUME Init, Inv PROVE T!Init
    OBVIOUS
  <2>1. ~Finished
    BY DEF Init, Finished
  <2>2. T!NamesGates(given, NaturalNames(given))
    BY SameNotions DEF Inv
  <2>. QED
    BY <2>1, <2>2 DEF T!Init, T!NoCircuit
<1>2. Inv /\ OthersReturnCorrect => CorrectAtEnd
  BY ResultKeepsFunction DEF CorrectAtEnd, Finished
<1>3. Inv /\ Inv' /\ CorrectAtEnd' /\ [Next]_vars => [T!Transform]_(T!vars)
  <2> SUFFICES ASSUME Inv, Inv', CorrectAtEnd', [Next]_vars PROVE T!Transform \/ UNCHANGED T!vars
    OBVIOUS
  <2>1. UNCHANGED <<given, NaturalNames(given)>>
    BY GivenStays
  <2>2. CASE UNCHANGED vars
    <3>1. UNCHANGED <<Finished, Result, ResultNames>>
      BY <2>2 DEF vars, locals, shared, rgc_locals, dgc_locals, rnc_locals, doc_locals, cgr_locals,
                  Finished, Result, ResultNames, RNC!Result, Running
    <3>. QED
      BY <2>1, <3>1 DEF T!vars
  <2>3. CASE Next /\ ~Finished /\ ~Finished'
    <3>1. UNCHANGED Finished
      BY <2>3 DEF Finished
    <3>. QED
      BY <2>1, <2>3, <3>1 DEF T!vars
  <2>4. CASE Next /\ ~Finished /\ Finished'
    <3>1. /\ WellFormed(Result') /\ NamesGates(Result', ResultNames')
          /\ SameFunction(given, NaturalNames(given), Result', ResultNames')
      BY <2>1, <2>4 DEF CorrectAtEnd
    <3>2. T!Correct(Result', ResultNames')
      BY <3>1, SameNotions DEF T!Correct
    <3>. QED
      BY <2>1, <2>4, <3>2 DEF T!Transform
  <2>. QED
    BY <2>2, <2>3, <2>4, FinishedStays
<1>. QED
  BY <1>1, <1>2, <1>3, InvAlways, PTL DEF Spec, ImplementsTransformer, T!Safety

(* RedundantGatesCleaner_ leaves nothing that no output needs, in whatever  *)
(* place of a strategy.                                                     *)
THEOREM NothingRedundantLeft ==
    ASSUME CircuitsFit
    PROVE  Spec /\ []PrefixIsFree /\ []OthersReturnCorrect => []NothingRedundant
<1>1. Inv => NothingRedundant
  <2> SUFFICES ASSUME Inv PROVE NothingRedundant
    OBVIOUS
  <2>1. Working("RGC") => RGC!NothingRedundant
    BY RGCSteps, RGCProofs!ResultHasNoMore DEF Inv
  <2>2. Working("RGC_true") => RGC_true!NothingRedundant
    BY RGC_trueSteps, RGC_trueProofs!ResultHasNoMore DEF Inv
  <2>. QED
    BY <2>1, <2>2 DEF NothingRedundant
<1>. QED
  BY <1>1, InvAlways, PTL

(* Its encoder gives no id after its first loop; no other transformer       *)
(* touches it.                                                              *)
THEOREM IdsOnlyLookedUp ==
    ASSUME CircuitsFit
    PROVE  Spec /\ []PrefixIsFree /\ []OthersReturnCorrect => EncoderIsComplete
<1>1. Inv /\ [Next]_vars => [pc \notin {"ready", "encode"} => UNCHANGED encoder_old_to_new]_(RGC!vars)
  <2> SUFFICES ASSUME Inv, [Next]_vars, pc \notin {"ready", "encode"} PROVE UNCHANGED encoder_old_to_new
    OBVIOUS
  <2>1. CASE Running("RGC") /\ RGC!Next
    BY <2>1, RGCSteps, RGCProofs!OnlyLookedUp DEF Inv, Working
  <2>2. CASE Running("RGC_true") /\ RGC_true!Next
    BY <2>2, RGC_trueSteps, RGC_trueProofs!OnlyLookedUp DEF Inv, Working
  <2>3. CASE CleanDuplicateGates \/ ReduceNots \/ CleanDuplicateOperands \/ ReduceConstants \/ HandOver
    BY <2>3 DEF CleanDuplicateGates, ReduceNots, CleanDuplicateOperands, ReduceConstants, HandOver, rgc_locals
  <2>4. CASE UNCHANGED vars
    BY <2>4 DEF vars, locals, rgc_locals
  <2>. QED
    BY <2>1, <2>2, <2>3, <2>4 DEF Next, CleanRedundant
<1>. QED
  BY <1>1, InvAlways, PTL DEF Spec, EncoderIsComplete, RGC!EncoderIsComplete

------------------------------------------------------------------------------
(* The transformers that are proved correct.  Strategies of them alone,     *)
(* RedundantGatesCleaner, DuplicateGatesCleaner, ReduceNotComposition and   *)
(* ConstantGateReducer of strategy.hpp among them, need no hypothesis about *)
(* the other one.                                                           *)
ProvedTransformers == {"RGC", "RGC_true", "DGC", "RNC", "CGR"}

(* Strategies of these alone.                                               *)
OnlyProved == strategy \in Seq(ProvedTransformers)

(* A strategy without the other one never meets what it would have to       *)
(* assume of it.                                                            *)
LEMMA OthersNeverRun ==
    ASSUME CircuitsFit,
           \A task \in Tasks : task.strategy \in Seq(ProvedTransformers)
    PROVE  Spec /\ []PrefixIsFree => []OthersReturnCorrect
<1>1. Init => Inv /\ OnlyProved
  BY InitHolds DEF Init, OnlyProved
<1>2. Inv /\ OnlyProved => OthersReturnCorrect
  <2> SUFFICES ASSUME Inv, OnlyProved PROVE OthersReturnCorrect
    OBVIOUS
  <2>1. strategy[stage] \in ProvedTransformers
    BY DEF Inv, OnlyProved
  <2>. QED
    BY <2>1 DEF ProvedTransformers, OthersReturnCorrect, Running
<1>3. Inv /\ OnlyProved /\ PrefixIsFree /\ [Next]_vars => (Inv /\ OnlyProved)'
  BY <1>2, NextHolds, GivenStays DEF OnlyProved
<1>. QED
  BY <1>1, <1>2, <1>3, PTL DEF Spec

(* Whatever their number and order, the proved transformers hand            *)
(* well-formed circuits on to each other, and simplify and nothing else.    *)
THEOREM ProvedStrategyIsTransformer ==
    ASSUME CircuitsFit,
           \A task \in Tasks : task.strategy \in Seq(ProvedTransformers)
    PROVE  Spec /\ []PrefixIsFree => []HandsOverCircuits /\ ImplementsTransformer
  BY OthersNeverRun, CircuitsHandedOver, StrategyIsTransformer, PTL

==============================================================================
