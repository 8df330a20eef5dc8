---------------------- MODULE ReduceNotCompositionProofs ----------------------
(****************************************************************************)
(* Proofs that ReduceNotComposition_ does, on every well-formed circuit,    *)
(* what its module says, and that it is a transformer unless get_operand    *)
(* throws, which only a NOT gate without operand that no output needs can   *)
(* make it do.  While a chain is walked, its gate has the state of the      *)
(* operand where the walk began, or the opposite one, as the flag says; so  *)
(* each operand is replaced by a gate of equal state that is computed       *)
(* before it, and the states of the source solve the equations of the       *)
(* result.                                                                  *)
(****************************************************************************)
EXTENDS ReduceNotComposition, CircuitLemmas, TLAPS

Rank == ConeSizes(circuit)
Live == Cone(circuit, OutputSet(circuit))
State(values) == StatesFor(circuit, names, values)

------------------------------------------------------------------------------
(* The inductive invariant.                                                 *)

Given == WellFormed(circuit) /\ NamesGates(circuit, names)

(* The gate p is computed no later than o, and if an output needs o, it     *)
(* always has the state of o ...                                            *)
StandsFor(p, o) ==
    /\ p \in GateIds(circuit) /\ Rank[p] <= Rank[o]
    /\ o \in Live =>
          /\ p \in Live
          /\ \A values \in Values(circuit, names) : State(values)[p] = State(values)[o]

(* ... or the opposite state.                                               *)
Negates(p, o) ==
    /\ p \in GateIds(circuit) /\ Rank[p] <= Rank[o]
    /\ o \in Live =>
          /\ p \in Live
          /\ \A values \in Values(circuit, names) : State(values)[o] = NOT(State(values)[p])

(* Replacements for the first operands of a gate.                           *)
Fits(ops, g) ==
    /\ ops \in Seq(GateIds(circuit))
    /\ Len(ops) <= Len(Operands(circuit, g))
    /\ \A i \in 1 .. Len(ops) : StandsFor(ops[i], Operands(circuit, g)[i]) /\ IsReduced(ops[i])

IsRebuilt(g) ==
    \E ops : /\ Fits(ops, g) /\ Len(ops) = Len(Operands(circuit, g))
             /\ gate_info[g] = GateInfo(Type(circuit, g), ops)

(* All gates that do not wait have been rebuilt.                            *)
GatesInv ==
    /\ gate_info \in [GateIds(circuit) -> GateInfos(Len(circuit.gates))]
    /\ \A g \in GateIds(circuit) :
          \/ IsRebuilt(g)
          \/ gate_info[g] = NoGateInfo /\ \E i \in 1 .. Len(todo) : todo[i] = g

OperandsInv ==
    IF todo = <<>> THEN new_operands_ = <<>> ELSE Fits(new_operands_, gateId)

WalkInv ==
    /\ chain_gate \in 0 .. Len(circuit.gates) /\ flag \in BOOLEAN
    /\ pc = "walk" => /\ todo # <<>> /\ HasOperandLeft
                      /\ chain_gate \in GateIds(circuit) /\ IsNot(chain_gate)
                      /\ IF flag THEN Negates(chain_gate, operand)
                                 ELSE StandsFor(chain_gate, operand)

Inv ==
    /\ Given
    /\ IF pc = "ready" THEN TypeOK /\ new_operands_ = <<>> /\ gate_info = <<>>
       ELSE /\ pc \in {"gate", "walk", "done", "aborted"}
            /\ todo \in Seq(GateIds(circuit))
            /\ GatesInv /\ OperandsInv /\ WalkInv
            /\ pc = "done" => todo = <<>>
            /\ pc = "aborted" => /\ chain_gate \in GateIds(circuit)
                                 /\ IsNot(chain_gate) /\ ~HasOperand(chain_gate)

------------------------------------------------------------------------------
(* What a well-formed circuit gives.                                        *)
LEMMA GivenFacts ==
    ASSUME Given
    PROVE  /\ OperandsInside(circuit) /\ IsAcyclic(circuit) /\ Len(circuit.gates) \in Nat
           /\ IsRanking(circuit, Rank)
           /\ \A g \in GateIds(circuit) :
                 /\ Type(circuit, g) \in GateTypes
                 /\ Operands(circuit, g) \in Seq(GateIds(circuit))
                 /\ Rank[g] \in Nat
           /\ circuit.outputs \in Seq(GateIds(circuit))
           /\ Live \subseteq GateIds(circuit) /\ IsClosed(circuit, Live)
           /\ OutputSet(circuit) \subseteq Live
           /\ \A g \in Live : ArityOk(Type(circuit, g), Len(Operands(circuit, g)))
<1>1. WellFormed(circuit)
  BY DEF Given
<1>2. IsRanking(circuit, Rank) /\ IsAcyclic(circuit)
  BY <1>1 DEF WellFormed, IsAcyclic, Rank
<1>3. \A g \in GateIds(circuit) : Rank[g] \in Nat
  BY <1>2 DEF IsRanking
<1>4. \A g \in Live : ArityOk(Type(circuit, g), Len(Operands(circuit, g)))
  BY <1>1 DEF WellFormed, Live
<1>. QED
  BY <1>1, <1>2, <1>3, <1>4, WellFormedFacts DEF OperandsInside, Live

(* The states of the gates that outputs need solve their equations.         *)
LEMMA LiveStates ==
    ASSUME Given, NEW values \in Values(circuit, names)
    PROVE  /\ Solves(circuit, names, values, GateIds(circuit), State(values))
           /\ \A g \in Live : State(values)[g] \in {StFalse, StTrue}
<1>1. /\ OperandsInside(circuit) /\ IsAcyclic(circuit)
      /\ Live \subseteq GateIds(circuit) /\ IsClosed(circuit, Live)
      /\ \A g \in Live : ArityOk(Type(circuit, g), Len(Operands(circuit, g)))
      /\ \A g \in Live : Operands(circuit, g) \in Seq(GateIds(circuit))
  BY GivenFacts
<1>2. Solves(circuit, names, values, GateIds(circuit), State(values))
  BY <1>1, StatesSolve DEF State
<1>3. \A g \in Live : State(values)[g] \in {StFalse, StTrue}
  <2> DEFINE S == Live
  <2> HIDE DEF S
  <2>1. /\ S \subseteq GateIds(circuit) /\ IsClosed(circuit, S)
        /\ \A g \in S : ArityOk(Type(circuit, g), Len(Operands(circuit, g)))
        /\ \A g \in S : Operands(circuit, g) \in Seq(GateIds(circuit))
    BY <1>1 DEF S
  <2>2. \A g \in S : StatesFor(circuit, names, values)[g] \in {StFalse, StTrue}
    BY <1>1, <2>1, StatesDefined
  <2>. QED
    BY <2>2 DEF S, State
<1>. QED
  BY <1>2, <1>3

(* A gate stands for itself.                                                *)
LEMMA StandsForItself ==
    ASSUME Given, NEW o \in GateIds(circuit) PROVE StandsFor(o, o)
<1>1. Rank[o] \in Nat
  BY GivenFacts
<1>. QED
  BY <1>1 DEF StandsFor

(* From a NOT gate to its operand the states turn into the opposite.        *)
LEMMA NotStep ==
    ASSUME Given, NEW p \in GateIds(circuit), IsNot(p), HasOperand(p),
           NEW k, k = Operands(circuit, p)[1], NEW o \in GateIds(circuit)
    PROVE  /\ k \in GateIds(circuit)
           /\ StandsFor(p, o) => Negates(k, o)
           /\ Negates(p, o) => StandsFor(k, o)
<1>1. Operands(circuit, p) \in Seq(GateIds(circuit)) /\ 1 \in DOMAIN Operands(circuit, p)
  <2>1. Operands(circuit, p) \in Seq(GateIds(circuit)) /\ Operands(circuit, p) # <<>>
    BY GivenFacts DEF HasOperand
  <2>. QED
    BY <2>1
<1>2. k \in GateIds(circuit) /\ k \in OperandSet(circuit, p)
  BY <1>1 DEF OperandSet
<1>3. Rank[k] < Rank[p] /\ Rank[k] \in Nat /\ Rank[p] \in Nat /\ Rank[o] \in Nat
  BY <1>2, GivenFacts DEF IsRanking
<1>4. p \in Live => k \in Live
  BY <1>2, GivenFacts DEF IsClosed
<1>5. ASSUME NEW values \in Values(circuit, names), p \in Live
      PROVE  /\ State(values)[p] = NOT(State(values)[k])
             /\ NOT(State(values)[p]) = State(values)[k]
  <2>1. State(values)[p] = Operator("NOT", [i \in DOMAIN Operands(circuit, p) |-> State(values)[Operands(circuit, p)[i]]])
    BY LiveStates DEF Solves, IsNot
  <2>2. State(values)[p] = NOT(State(values)[k])
    BY <1>1, <2>1, OperatorCases
  <2>3. State(values)[k] \in {StFalse, StTrue}
    BY <1>4, <1>5, LiveStates
  <2>4. \A x \in {StFalse, StTrue} : NOT(NOT(x)) = x
    BY DEF NOT, Lookup1, StFalse, StTrue
  <2>. QED
    BY <2>2, <2>3, <2>4
<1>6. StandsFor(p, o) => Negates(k, o)
  BY <1>2, <1>3, <1>4, <1>5 DEF StandsFor, Negates
<1>7. Negates(p, o) => StandsFor(k, o)
  BY <1>2, <1>3, <1>4, <1>5 DEF StandsFor, Negates
<1>. QED
  BY <1>2, <1>6, <1>7

(* One more replacement.                                                    *)
LEMMA FitsAppend ==
    ASSUME Given, NEW g \in GateIds(circuit), NEW ops, Fits(ops, g),
           Len(ops) < Len(Operands(circuit, g)),
           NEW p, StandsFor(p, Operands(circuit, g)[Len(ops) + 1]), IsReduced(p)
    PROVE  Fits(Append(ops, p), g)
<1>1. ops \in Seq(GateIds(circuit)) /\ p \in GateIds(circuit)
      /\ Len(Operands(circuit, g)) \in Nat
  BY GivenFacts DEF Fits, StandsFor
<1>2. /\ Append(ops, p) \in Seq(GateIds(circuit)) /\ Len(Append(ops, p)) = Len(ops) + 1
      /\ Append(ops, p)[Len(ops) + 1] = p
      /\ \A i \in 1 .. Len(ops) : Append(ops, p)[i] = ops[i]
  BY <1>1
<1>3. Len(ops) \in Nat
  BY <1>1
<1>4. \A i \in 1 .. Len(ops) + 1 :
         StandsFor(Append(ops, p)[i], Operands(circuit, g)[i]) /\ IsReduced(Append(ops, p)[i])
  <2>1. \A i \in 1 .. Len(ops) : StandsFor(ops[i], Operands(circuit, g)[i]) /\ IsReduced(ops[i])
    BY DEF Fits
  <2>2. \A i \in 1 .. Len(ops) + 1 : i \in 1 .. Len(ops) \/ i = Len(ops) + 1
    BY <1>3
  <2>. QED
    BY <1>2, <2>1, <2>2
<1>. QED
  BY <1>1, <1>2, <1>3, <1>4 DEF Fits

(* None of this depends on more than the circuit and its names.             *)
LEMMA NotionsUnchanged ==
    ASSUME UNCHANGED <<circuit, names>>
    PROVE  /\ Given' <=> Given
           /\ \A p, o : (StandsFor(p, o)' <=> StandsFor(p, o)) /\ (Negates(p, o)' <=> Negates(p, o))
           /\ \A o : IsReduced(o)' <=> IsReduced(o)
           /\ \A ops, g : Fits(ops, g)' <=> Fits(ops, g)
BY DEF Given, StandsFor, Negates, IsReduced, IsNot, Fits, Rank, Live, State

(* A gate counts as rebuilt as long as its place does not change.           *)
LEMMA RebuiltUnchanged ==
    ASSUME UNCHANGED <<circuit, names>>, NEW g, gate_info'[g] = gate_info[g]
    PROVE  IsRebuilt(g)' <=> IsRebuilt(g)
BY NotionsUnchanged DEF IsRebuilt

------------------------------------------------------------------------------
(* The types follow from the invariant.                                     *)
LEMMA InvTyped ==
    ASSUME Inv PROVE TypeOK
<1>1. CASE pc = "ready"
  BY <1>1 DEF Inv
<1>2. CASE pc # "ready"
  <2>1. /\ Given /\ GatesInv /\ OperandsInv /\ WalkInv
        /\ pc \in {"gate", "walk", "done", "aborted"} /\ todo \in Seq(GateIds(circuit))
    BY <1>2 DEF Inv
  <2>2. new_operands_ \in Seq(GateIds(circuit))
    BY <2>1 DEF OperandsInv, Fits
  <2>3. DOMAIN gate_info = GateIds(circuit) /\ \A g \in DOMAIN gate_info : gate_info[g].type \in GateTypes
    BY <2>1 DEF GatesInv, GateInfos
  <2>. QED
    BY <2>1, <2>2, <2>3 DEF TypeOK, WalkInv
<1>. QED
  BY <1>1, <1>2

(* No operand of a gate has been replaced yet.                              *)
LEMMA FitsNone ==
    ASSUME Given, NEW g \in GateIds(circuit) PROVE Fits(<<>>, g)
<1>1. Len(Operands(circuit, g)) \in Nat
  BY GivenFacts
<1>. QED
  BY <1>1 DEF Fits

(* What the operands collected after a step have to be.                     *)
LEMMA OperandsNext ==
    ASSUME UNCHANGED <<circuit, names>>,
           IF todo' = <<>> THEN new_operands_' = <<>> ELSE Fits(new_operands_', Head(todo'))
    PROVE  OperandsInv'
BY DEF OperandsInv, Fits, StandsFor, gateId, IsReduced, IsNot, Rank, Live, State

(* And the gate that has been reached on a chain.                           *)
LEMMA WalkNext ==
    ASSUME UNCHANGED <<circuit, names, todo, new_operands_>>, pc' = "walk",
           todo # <<>>, HasOperandLeft, flag' \in BOOLEAN,
           chain_gate' \in 0 .. Len(circuit.gates),
           chain_gate' \in GateIds(circuit), IsNot(chain_gate'),
           IF flag' THEN Negates(chain_gate', operand) ELSE StandsFor(chain_gate', operand)
    PROVE  WalkInv'
BY DEF WalkInv, HasOperandLeft, operand, gateId, StandsFor, Negates, IsNot, Rank, Live, State

(* Start: all gates wait.                                                   *)
LEMMA StartStep ==
    ASSUME Given, Start PROVE Inv'
<1>1. UNCHANGED <<circuit, names>> /\ pc' = "gate" /\ todo' = DFSTopSort(circuit)
      /\ new_operands_' = <<>> /\ chain_gate' = 0 /\ flag' = FALSE
      /\ gate_info' = [g \in GateIds(circuit) |-> NoGateInfo]
  BY DEF Start, NoGate
<1>2. Given'
  BY <1>1 DEF Given
<1>3. todo' \in Seq(GateIds(circuit)) /\ \A g \in GateIds(circuit) : \E i \in 1 .. Len(todo') : todo'[i] = g
  <2>1. DFSTopSort(circuit) \in Seq(GateIds(circuit)) /\ IsTopSort(circuit, DFSTopSort(circuit))
    BY GivenFacts, DFSTopSortFacts
  <2> DEFINE s == DFSTopSort(circuit)
  <2>2. s \in Seq(GateIds(circuit)) /\ {s[i] : i \in DOMAIN s} = GateIds(circuit)
    BY <2>1 DEF IsTopSort
  <2> HIDE DEF s
  <2>3. \A g \in GateIds(circuit) : \E i \in 1 .. Len(s) : s[i] = g
    BY <2>2
  <2>. QED
    BY <1>1, <2>2, <2>3 DEF s
<1>4. GatesInv'
  <2>1. NoGateInfo \in GateInfos(Len(circuit.gates))
    BY DEF NoGateInfo, GateInfos, GateTypes
  <2>. QED
    BY <1>1, <1>3, <2>1 DEF GatesInv
<1>5. OperandsInv'
  <2>1. CASE todo' = <<>>
    BY <1>1, <2>1 DEF OperandsInv
  <2>2. CASE todo' # <<>>
    <3>1. Head(todo') \in GateIds(circuit)
      BY <1>3, <2>2
    <3>2. Fits(<<>>, Head(todo'))
      BY <3>1, FitsNone
    <3>. QED
      BY <1>1, <2>2, <3>2, OperandsNext
  <2>. QED
    BY <2>1, <2>2
<1>6. WalkInv'
  <2>1. 0 \in 0 .. Len(circuit.gates)
    BY GivenFacts
  <2>. QED
    BY <1>1, <2>1 DEF WalkInv
<1>. QED
  BY <1>1, <1>2, <1>3, <1>4, <1>5, <1>6 DEF Inv

(* What holds of the gate whose operands are replaced, and of the next      *)
(* operand.                                                                 *)
LEMMA GateFacts ==
    ASSUME Given, todo \in Seq(GateIds(circuit)), OperandsInv, todo # <<>>
    PROVE  /\ gateId \in GateIds(circuit)
           /\ Fits(new_operands_, gateId) /\ new_operands_ \in Seq(GateIds(circuit))
           /\ HasOperandLeft => operand \in GateIds(circuit)
<1>1. gateId \in GateIds(circuit)
  BY DEF gateId
<1>2. Fits(new_operands_, gateId) /\ new_operands_ \in Seq(GateIds(circuit))
  BY DEF OperandsInv, Fits
<1>3. ASSUME HasOperandLeft PROVE operand \in GateIds(circuit)
  <2>1. /\ Operands(circuit, gateId) \in Seq(GateIds(circuit)) /\ Len(new_operands_) \in Nat
        /\ Len(new_operands_) + 1 \in 1 .. Len(Operands(circuit, gateId))
    BY <1>1, <1>2, <1>3, GivenFacts DEF HasOperandLeft
  <2>. QED
    BY <2>1 DEF operand
<1>. QED
  BY <1>1, <1>2, <1>3

(* What a step that does not rebuild a gate leaves as it was.               *)
LEMMA GatesUnchanged ==
    ASSUME GatesInv, UNCHANGED <<circuit, names, todo, gate_info>> PROVE GatesInv'
BY RebuiltUnchanged DEF GatesInv

(* An operand that is no NOT stays.                                         *)
LEMMA KeepOperandStep ==
    ASSUME Inv, KeepOperand PROVE Inv'
<1>1. /\ Given /\ GatesInv /\ OperandsInv /\ WalkInv /\ todo \in Seq(GateIds(circuit))
      /\ pc = "gate" /\ pc' = "gate" /\ todo # <<>> /\ HasOperandLeft /\ ~IsNot(operand)
      /\ new_operands_' = Append(new_operands_, operand)
      /\ UNCHANGED <<circuit, names, todo, chain_gate, flag, gate_info>>
  BY DEF Inv, KeepOperand
<1>2. Given' /\ GatesInv'
  BY <1>1, GatesUnchanged, NotionsUnchanged
<1>3. OperandsInv'
  <2>1. Fits(Append(new_operands_, operand), gateId)
    <3>1. StandsFor(operand, operand) /\ IsReduced(operand)
      BY <1>1, GateFacts, StandsForItself DEF IsReduced
    <3>2. /\ gateId \in GateIds(circuit) /\ Fits(new_operands_, gateId)
          /\ Len(new_operands_) < Len(Operands(circuit, gateId))
          /\ operand = Operands(circuit, gateId)[Len(new_operands_) + 1]
      BY <1>1, GateFacts DEF HasOperandLeft, operand
    <3>. QED
      BY <1>1, <3>1, <3>2, FitsAppend
  <2>. QED
    BY <1>1, <2>1, OperandsNext DEF gateId
<1>4. WalkInv'
  BY <1>1 DEF WalkInv
<1>. QED
  BY <1>1, <1>2, <1>3, <1>4 DEF Inv

(* The walk begins at an operand that is a NOT.                             *)
LEMMA EnterChainStep ==
    ASSUME Inv, EnterChain PROVE Inv'
<1>1. /\ Given /\ GatesInv /\ OperandsInv /\ WalkInv /\ todo \in Seq(GateIds(circuit))
      /\ pc = "gate" /\ pc' = "walk" /\ todo # <<>> /\ HasOperandLeft /\ IsNot(operand)
      /\ chain_gate' = operand /\ flag' = FALSE
      /\ UNCHANGED <<circuit, names, todo, new_operands_, gate_info>>
  BY DEF Inv, EnterChain
<1>2. Given' /\ GatesInv'
  BY <1>1, GatesUnchanged, NotionsUnchanged
<1>3. OperandsInv'
  BY <1>1, OperandsNext DEF OperandsInv, gateId
<1>4. WalkInv'
  <2>1. operand \in GateIds(circuit) /\ StandsFor(operand, operand)
    BY <1>1, GateFacts, StandsForItself
  <2>2. operand \in 0 .. Len(circuit.gates)
    BY <1>1, <2>1, GivenFacts DEF GateIds
  <2>. QED
    BY <1>1, <2>1, <2>2, WalkNext
<1>. QED
  BY <1>1, <1>2, <1>3, <1>4 DEF Inv

(* The walk goes on: the flag keeps count of the negations.                 *)
LEMMA PassNotStep ==
    ASSUME Inv, PassNot PROVE Inv'
<1>1. /\ Given /\ GatesInv /\ OperandsInv /\ WalkInv /\ todo \in Seq(GateIds(circuit))
      /\ pc = "walk" /\ pc' = "walk" /\ HasOperand(chain_gate) /\ IsNot(check_gate)
      /\ chain_gate' = check_gate /\ flag' = ~flag
      /\ UNCHANGED <<circuit, names, todo, new_operands_, gate_info>>
  BY DEF Inv, PassNot
<1>2. Given' /\ GatesInv'
  BY <1>1, GatesUnchanged, NotionsUnchanged
<1>3. OperandsInv'
  BY <1>1, OperandsNext DEF OperandsInv, gateId
<1>4. /\ todo # <<>> /\ HasOperandLeft /\ flag \in BOOLEAN
      /\ chain_gate \in GateIds(circuit) /\ IsNot(chain_gate)
      /\ IF flag THEN Negates(chain_gate, operand) ELSE StandsFor(chain_gate, operand)
  BY <1>1 DEF WalkInv
<1>5. operand \in GateIds(circuit)
  BY <1>1, <1>4, GateFacts
<1>6. /\ check_gate \in GateIds(circuit)
      /\ StandsFor(chain_gate, operand) => Negates(check_gate, operand)
      /\ Negates(chain_gate, operand) => StandsFor(check_gate, operand)
  BY <1>1, <1>4, <1>5, NotStep DEF check_gate
<1>7. check_gate \in 0 .. Len(circuit.gates)
  BY <1>1, <1>6, GivenFacts DEF GateIds
<1>8. flag' \in BOOLEAN /\ (flag' <=> ~flag)
  BY <1>1, <1>4
<1>9. WalkInv'
  <2>1. CASE flag
    BY <1>1, <1>4, <1>6, <1>7, <1>8, <2>1, WalkNext
  <2>2. CASE ~flag
    BY <1>1, <1>4, <1>6, <1>7, <1>8, <2>2, WalkNext
  <2>. QED
    BY <2>1, <2>2
<1>. QED
  BY <1>1, <1>2, <1>3, <1>9 DEF Inv

(* The walk ends: what is taken for the operand has its state and is no     *)
(* negation of a negation.                                                  *)
LEMMA LeaveChainStep ==
    ASSUME Inv, LeaveChain PROVE Inv'
<1> DEFINE p == IF flag THEN check_gate ELSE chain_gate
<1>1. /\ Given /\ GatesInv /\ OperandsInv /\ WalkInv /\ todo \in Seq(GateIds(circuit))
      /\ pc = "walk" /\ pc' = "gate" /\ HasOperand(chain_gate) /\ ~IsNot(check_gate)
      /\ new_operands_' = Append(new_operands_, p)
      /\ UNCHANGED <<circuit, names, todo, chain_gate, flag, gate_info>>
  BY DEF Inv, LeaveChain
<1>2. Given' /\ GatesInv'
  BY <1>1, GatesUnchanged, NotionsUnchanged
<1>3. /\ todo # <<>> /\ HasOperandLeft /\ flag \in BOOLEAN
      /\ chain_gate \in GateIds(circuit) /\ IsNot(chain_gate)
      /\ IF flag THEN Negates(chain_gate, operand) ELSE StandsFor(chain_gate, operand)
  BY <1>1 DEF WalkInv
<1>4. operand \in GateIds(circuit) /\ gateId \in GateIds(circuit) /\ Fits(new_operands_, gateId)
  BY <1>1, <1>3, GateFacts
<1>5. Negates(chain_gate, operand) => StandsFor(check_gate, operand)
  BY <1>1, <1>3, <1>4, NotStep DEF check_gate
<1>6. StandsFor(p, operand)
  BY <1>3, <1>5
<1>7. IsReduced(p)
  BY <1>1 DEF IsReduced, check_gate
<1> HIDE DEF p
<1>8. Fits(Append(new_operands_, p), gateId)
  <2>1. /\ Len(new_operands_) < Len(Operands(circuit, gateId))
        /\ operand = Operands(circuit, gateId)[Len(new_operands_) + 1]
    BY <1>3 DEF HasOperandLeft, operand
  <2>. QED
    BY <1>1, <1>4, <1>6, <1>7, <2>1, FitsAppend
<1>9. OperandsInv'
  BY <1>1, <1>3, <1>8, OperandsNext DEF gateId
<1>10. WalkInv'
  BY <1>1 DEF WalkInv
<1>. QED
  BY <1>1, <1>2, <1>9, <1>10 DEF Inv

(* get_operand throws.                                                      *)
LEMMA ThrowStep ==
    ASSUME Inv, Throw PROVE Inv'
<1>1. /\ Given /\ GatesInv /\ OperandsInv /\ WalkInv /\ todo \in Seq(GateIds(circuit))
      /\ pc = "walk" /\ pc' = "aborted" /\ ~HasOperand(chain_gate)
      /\ UNCHANGED <<circuit, names, todo, new_operands_, chain_gate, flag, gate_info>>
  BY DEF Inv, Throw
<1>2. Given' /\ GatesInv'
  BY <1>1, GatesUnchanged, NotionsUnchanged
<1>3. OperandsInv'
  BY <1>1, OperandsNext DEF OperandsInv, gateId
<1>4. /\ WalkInv' /\ chain_gate' \in GateIds(circuit') /\ IsNot(chain_gate)' /\ ~HasOperand(chain_gate)'
  BY <1>1 DEF WalkInv, IsNot, HasOperand
<1>. QED
  BY <1>1, <1>2, <1>3, <1>4 DEF Inv

(* All operands of the gate have been replaced.                             *)
LEMMA RebuildGateStep ==
    ASSUME Inv, RebuildGate PROVE Inv'
<1> DEFINE info == GateInfo(Type(circuit, gateId), new_operands_)
<1>1. /\ Given /\ GatesInv /\ OperandsInv /\ WalkInv /\ todo \in Seq(GateIds(circuit))
      /\ pc = "gate" /\ pc' = "gate" /\ todo # <<>> /\ ~HasOperandLeft
      /\ gate_info' = [gate_info EXCEPT ![gateId] = info]
      /\ new_operands_' = <<>> /\ todo' = Tail(todo)
      /\ UNCHANGED <<circuit, names, chain_gate, flag>>
  BY DEF Inv, RebuildGate
<1>2. Given'
  BY <1>1, NotionsUnchanged
<1>3. gateId \in GateIds(circuit) /\ Fits(new_operands_, gateId)
  BY <1>1, GateFacts
<1>4. Len(new_operands_) = Len(Operands(circuit, gateId))
  <2>1. Len(new_operands_) \in Nat /\ Len(Operands(circuit, gateId)) \in Nat
    BY <1>1, <1>3, GivenFacts DEF Fits
  <2>. QED
    BY <1>1, <1>3, <2>1 DEF Fits, HasOperandLeft
<1>5. info \in GateInfos(Len(circuit.gates))
  <2>1. Type(circuit, gateId) \in GateTypes /\ Len(circuit.gates) \in Nat
    BY <1>1, <1>3, GivenFacts
  <2>2. new_operands_ \in Seq(1 .. Len(circuit.gates))
    BY <1>3 DEF Fits, GateIds
  <2>. QED
    BY <2>1, <2>2, GateInfoTyped
<1>6. gate_info \in [GateIds(circuit) -> GateInfos(Len(circuit.gates))]
  BY <1>1 DEF GatesInv
<1> HIDE DEF info
<1>7. /\ gate_info' \in [GateIds(circuit) -> GateInfos(Len(circuit.gates))]
      /\ gate_info'[gateId] = info
      /\ \A g \in GateIds(circuit) : g # gateId => gate_info'[g] = gate_info[g]
  BY <1>1, <1>3, <1>5, <1>6
<1>8. /\ todo' \in Seq(GateIds(circuit))
      /\ \A i \in 1 .. Len(todo) : todo[i] = gateId \/ \E j \in 1 .. Len(todo') : todo'[j] = todo[i]
  <2>1. /\ Tail(todo) \in Seq(GateIds(circuit)) /\ Len(Tail(todo)) = Len(todo) - 1
        /\ Len(todo) \in Nat /\ todo[1] = gateId
        /\ \A j \in 1 .. Len(todo) - 1 : Tail(todo)[j] = todo[j + 1]
    BY <1>1 DEF gateId
  <2>2. ASSUME NEW i \in 1 .. Len(todo), i # 1
        PROVE  i - 1 \in 1 .. Len(todo) - 1 /\ Tail(todo)[i - 1] = todo[i]
    BY <2>1, <2>2
  <2>. QED
    BY <1>1, <2>1, <2>2
<1>9. GatesInv'
  <2>1. ASSUME NEW g \in GateIds(circuit)
        PROVE  \/ IsRebuilt(g)'
               \/ gate_info'[g] = NoGateInfo /\ \E i \in 1 .. Len(todo') : todo'[i] = g
    <3>1. CASE g = gateId
      <4>1. gate_info'[g] = GateInfo(Type(circuit, g), new_operands_)
        BY <1>7, <3>1 DEF info
      <4>2. \E ops : /\ Fits(ops, g) /\ Len(ops) = Len(Operands(circuit, g))
                     /\ gate_info'[g] = GateInfo(Type(circuit, g), ops)
        BY <1>3, <1>4, <3>1, <4>1
      <4>. QED
        BY <1>1, <4>2, NotionsUnchanged DEF IsRebuilt
    <3>2. CASE g # gateId
      <4>1. gate_info'[g] = gate_info[g]
        BY <1>7, <3>2
      <4>2. CASE IsRebuilt(g)
        BY <1>1, <4>1, <4>2, RebuiltUnchanged
      <4>3. CASE gate_info[g] = NoGateInfo /\ \E i \in 1 .. Len(todo) : todo[i] = g
        BY <1>8, <3>2, <4>1, <4>3
      <4>. QED
        BY <1>1, <4>2, <4>3 DEF GatesInv
    <3>. QED
      BY <3>1, <3>2
  <2>. QED
    BY <1>1, <1>7, <2>1 DEF GatesInv
<1>10. OperandsInv'
  <2>1. CASE todo' = <<>>
    BY <1>1, <2>1, OperandsNext
  <2>2. CASE todo' # <<>>
    <3>1. Head(todo') \in GateIds(circuit)
      BY <1>8, <2>2
    <3>2. Fits(<<>>, Head(todo'))
      BY <1>1, <3>1, FitsNone
    <3>. QED
      BY <1>1, <2>2, <3>2, OperandsNext
  <2>. QED
    BY <2>1, <2>2
<1>11. WalkInv'
  BY <1>1 DEF WalkInv
<1>. QED
  BY <1>1, <1>2, <1>8, <1>9, <1>10, <1>11 DEF Inv

(* No gate waits.                                                           *)
LEMMA ReturnStep ==
    ASSUME Inv, Return PROVE Inv'
<1>1. /\ Given /\ GatesInv /\ OperandsInv /\ WalkInv /\ todo \in Seq(GateIds(circuit))
      /\ pc = "gate" /\ pc' = "done" /\ todo = <<>>
      /\ UNCHANGED <<circuit, names, todo, new_operands_, chain_gate, flag, gate_info>>
  BY DEF Inv, Return
<1>2. Given' /\ GatesInv'
  BY <1>1, GatesUnchanged, NotionsUnchanged
<1>3. OperandsInv'
  BY <1>1, OperandsNext DEF OperandsInv, gateId
<1>4. WalkInv'
  BY <1>1 DEF WalkInv
<1>. QED
  BY <1>1, <1>2, <1>3, <1>4 DEF Inv

(* Nothing changes.                                                         *)
LEMMA StutterHolds ==
    ASSUME Inv, UNCHANGED vars PROVE Inv'
<1>1. UNCHANGED <<circuit, names, pc, todo, new_operands_, chain_gate, flag, gate_info>>
  BY DEF vars
<1>2. (Given' <=> Given) /\ (TypeOK' <=> TypeOK) /\ (GatesInv => GatesInv') /\ (WalkInv' <=> WalkInv)
  <2>1. GatesInv => GatesInv'
    BY <1>1, GatesUnchanged
  <2>2. WalkInv' <=> WalkInv
    BY <1>1 DEF WalkInv, HasOperandLeft, operand, gateId, StandsFor, Negates, IsNot, Rank, Live, State
  <2>. QED
    BY <1>1, <2>1, <2>2, NotionsUnchanged DEF TypeOK
<1>3. OperandsInv => OperandsInv'
  BY <1>1, OperandsNext DEF OperandsInv, gateId
<1>4. (HasOperand(chain_gate)' <=> HasOperand(chain_gate)) /\ (IsNot(chain_gate)' <=> IsNot(chain_gate))
  BY <1>1 DEF HasOperand, IsNot
<1>. QED
  BY <1>1, <1>2, <1>3, <1>4 DEF Inv

(* The invariant is inductive.                                              *)
LEMMA NextHolds ==
    ASSUME Inv, [Next]_vars PROVE Inv'
<1>1. CASE Start
  BY <1>1, StartStep DEF Inv
<1>2. CASE KeepOperand
  BY <1>2, KeepOperandStep
<1>3. CASE EnterChain
  BY <1>3, EnterChainStep
<1>4. CASE PassNot
  BY <1>4, PassNotStep
<1>5. CASE LeaveChain
  BY <1>5, LeaveChainStep
<1>6. CASE Throw
  BY <1>6, ThrowStep
<1>7. CASE RebuildGate
  BY <1>7, RebuildGateStep
<1>8. CASE Return
  BY <1>8, ReturnStep
<1>9. CASE UNCHANGED vars
  BY <1>9, StutterHolds
<1>. QED
  BY <1>1, <1>2, <1>3, <1>4, <1>5, <1>6, <1>7, <1>8, <1>9 DEF Next

------------------------------------------------------------------------------
(* What is returned: each gate with its type, over as many operands as      *)
(* before, each of which stands for the one before.                         *)
LEMMA ResultShape ==
    ASSUME Inv, pc = "done"
    PROVE  /\ GateIds(Result) = GateIds(circuit) /\ IdsInRange(Result)
           /\ Result.outputs = circuit.outputs
           /\ \A g \in GateIds(circuit) :
                 /\ Type(Result, g) = Type(circuit, g)
                 /\ \E ops : /\ Fits(ops, g) /\ Len(ops) = Len(Operands(circuit, g))
                             /\ Operands(Result, g) = GateInfo(Type(circuit, g), ops).operands
                             /\ IsReordering(Operands(Result, g), ops, Len(ops), Type(circuit, g))
<1>1. Given /\ GatesInv /\ todo = <<>>
  BY DEF Inv
<1>2. Len(circuit.gates) \in Nat /\ circuit.outputs \in Seq(GateIds(circuit))
  BY <1>1, GivenFacts
<1>3. /\ gate_info \in Seq(GateInfos(Len(circuit.gates))) /\ Len(gate_info) = Len(circuit.gates)
      /\ DOMAIN gate_info = GateIds(circuit)
  <2> DEFINE n == Len(circuit.gates)
             S == GateInfos(Len(circuit.gates))
             f == gate_info
  <2>1. n \in Nat /\ f \in [1 .. n -> S]
    BY <1>1, <1>2 DEF GatesInv, GateIds
  <2> HIDE DEF n, S, f
  <2>2. f \in Seq(S) /\ Len(f) = n /\ DOMAIN f = 1 .. n
    BY <2>1, FunctionIsSequence
  <2>. QED
    BY <2>2 DEF n, S, f, GateIds
<1>4. GateIds(Result) = GateIds(circuit) /\ IdsInRange(Result) /\ Result.outputs = circuit.outputs
  BY <1>2, <1>3 DEF Result, GateIds, IdsInRange
<1>5. ASSUME NEW g \in GateIds(circuit)
      PROVE  /\ Type(Result, g) = Type(circuit, g)
             /\ \E ops : /\ Fits(ops, g) /\ Len(ops) = Len(Operands(circuit, g))
                         /\ Operands(Result, g) = GateInfo(Type(circuit, g), ops).operands
                         /\ IsReordering(Operands(Result, g), ops, Len(ops), Type(circuit, g))
  <2>1. IsRebuilt(g)
    BY <1>1 DEF GatesInv
  <2>2. PICK ops : /\ Fits(ops, g) /\ Len(ops) = Len(Operands(circuit, g))
                   /\ gate_info[g] = GateInfo(Type(circuit, g), ops)
    BY <2>1 DEF IsRebuilt
  <2>3. ops \in [1 .. Len(ops) -> Nat] /\ Len(ops) \in Nat
    BY <1>2, <2>2 DEF Fits, GateIds
  <2>4. /\ GateInfo(Type(circuit, g), ops).type = Type(circuit, g)
        /\ IsReordering(GateInfo(Type(circuit, g), ops).operands, ops, Len(ops), Type(circuit, g))
    BY <2>3, InfoFacts
  <2>5. Type(Result, g) = Type(circuit, g) /\ Operands(Result, g) = GateInfo(Type(circuit, g), ops).operands
    BY <2>2, <2>4 DEF Type, Operands, Result
  <2>. QED
    BY <2>2, <2>4, <2>5
<1>. QED
  BY <1>4, <1>5

(* Operand by operand: it stands for an operand of the gate, and no two NOT *)
(* gates follow each other where a chain has been left.                     *)
LEMMA ResultOperands ==
    ASSUME Inv, pc = "done", NEW g \in GateIds(circuit)
    PROVE  /\ DOMAIN Operands(Result, g) = 1 .. Len(Operands(circuit, g))
           /\ Operands(Result, g) \in Seq(GateIds(circuit))
           /\ Len(Operands(Result, g)) = Len(Operands(circuit, g))
           /\ \A o \in OperandSet(Result, g) :
                 IsReduced(o) /\ \E k \in OperandSet(circuit, g) : StandsFor(o, k)
<1>1. PICK ops : /\ Fits(ops, g) /\ Len(ops) = Len(Operands(circuit, g))
                 /\ IsReordering(Operands(Result, g), ops, Len(ops), Type(circuit, g))
  BY ResultShape
<1>2. /\ Operands(circuit, g) \in Seq(GateIds(circuit)) /\ Len(ops) \in Nat
      /\ DOMAIN Operands(circuit, g) = 1 .. Len(ops)
  BY <1>1, GivenFacts DEF Inv
<1> DEFINE x == Operands(Result, g)
<1> HIDE DEF x
<1>3. /\ DOMAIN x = 1 .. Len(ops)
      /\ \A i \in 1 .. Len(ops) : \E k \in 1 .. Len(ops) : x[i] = ops[k]
  <2> DEFINE n == Len(ops)
             type == Type(circuit, g)
  <2>1. IsReordering(x, ops, n, type) /\ n \in Nat
    BY <1>1, <1>2 DEF x
  <2> HIDE DEF n, type
  <2>2. DOMAIN x = 1 .. n /\ \A i \in 1 .. n : \E k \in 1 .. n : x[i] = ops[k]
    BY <2>1, ReorderedSet
  <2>. QED
    BY <2>2 DEF n
<1>4. \A k \in 1 .. Len(ops) : StandsFor(ops[k], Operands(circuit, g)[k]) /\ IsReduced(ops[k])
  BY <1>1 DEF Fits
<1>5. \A k \in 1 .. Len(ops) : Operands(circuit, g)[k] \in OperandSet(circuit, g)
  BY <1>2 DEF OperandSet
<1>6. x \in Seq(GateIds(circuit)) /\ Len(x) = Len(ops)
  <2>1. IdsInRange(Result) /\ GateIds(Result) = GateIds(circuit)
    BY ResultShape
  <2>2. x \in Seq(GateIds(circuit))
    <3>1. Result.gates[g] \in GateInfos(Len(Result.gates))
      BY <2>1 DEF IdsInRange, GateIds
    <3>2. x \in Seq(GateIds(Result))
      BY <3>1 DEF GateInfos, GateIds, Operands, x
    <3>. QED
      BY <2>1, <3>2
  <2>. QED
    BY <1>2, <1>3, <2>2
<1>7. OperandSet(Result, g) = {x[i] : i \in DOMAIN x}
  BY DEF OperandSet, x
<1>8. ASSUME NEW o \in OperandSet(Result, g)
      PROVE  IsReduced(o) /\ \E k \in OperandSet(circuit, g) : StandsFor(o, k)
  <2>1. PICK i \in DOMAIN x : o = x[i]
    BY <1>7, <1>8
  <2>2. PICK k \in 1 .. Len(ops) : o = ops[k]
    BY <1>3, <2>1
  <2>. QED
    BY <1>4, <1>5, <2>2
<1>9. DOMAIN Operands(Result, g) = 1 .. Len(Operands(circuit, g))
  BY <1>2, <1>3 DEF x
<1>. QED
  BY <1>2, <1>6, <1>8, <1>9 DEF x

(* A gate of the result that outputs need computes of its operands what the *)
(* gate computed before.                                                    *)
LEMMA ResultSolved ==
    ASSUME Inv, pc = "done", NEW values \in Values(circuit, names)
    PROVE  Solves(Result, names, values, Live, State(values))
<1>1. Given
  BY DEF Inv
<1>2. ASSUME NEW g \in Live
      PROVE  State(values)[g] =
                IF Type(Result, g) = "INPUT" THEN values[names[g]]
                ELSE Operator(Type(Result, g),
                       [i \in DOMAIN Operands(Result, g) |-> State(values)[Operands(Result, g)[i]]])
  <2> DEFINE n == Len(Operands(circuit, g))
             val == State(values)
             type == Type(circuit, g)
             x == Operands(Result, g)
             o == Operands(circuit, g)
  <2>1. /\ g \in GateIds(circuit) /\ ArityOk(type, n) /\ n \in Nat /\ DOMAIN o = 1 .. n
        /\ \A i \in 1 .. n : o[i] \in Live
    BY <1>1, GivenFacts DEF IsClosed, OperandSet
  <2>2. /\ Type(Result, g) = type
        /\ \E ops : Fits(ops, g) /\ Len(ops) = n /\ x = GateInfo(type, ops).operands
    BY <2>1, ResultShape
  <2>3. PICK ops : Fits(ops, g) /\ Len(ops) = n /\ x = GateInfo(type, ops).operands
    BY <2>2
  <2>4. val[g] = IF type = "INPUT" THEN values[names[g]] ELSE Operator(type, [i \in DOMAIN o |-> val[o[i]]])
    BY <1>1, <2>1, LiveStates DEF Solves
  <2>5. \A i \in 1 .. n : ops[i] \in Live /\ val[ops[i]] = val[o[i]]
    BY <2>1, <2>3 DEF Fits, StandsFor
  <2>6. \A k \in Live : val[k] \in {StFalse, StTrue}
    BY <1>1, LiveStates
  <2>7. ops \in Seq(Nat) /\ DOMAIN ops = 1 .. n
    <3>1. ops \in Seq(GateIds(circuit)) /\ GateIds(circuit) \subseteq Nat
      BY <1>1, <2>3, GivenFacts DEF Fits, GateIds
    <3>. QED
      BY <2>3, <3>1
  <2>8. type # "INPUT" => type \in OperatorTypes
    BY <2>1, ArityCases
  <2> HIDE DEF n, val, type, x, o
  <2>9. ASSUME type # "INPUT"
        PROVE  Operator(type, [i \in DOMAIN x |-> val[x[i]]]) = Operator(type, [i \in DOMAIN o |-> val[o[i]]])
    <3>1. type \in OperatorTypes
      BY <2>8, <2>9
    <3>2. \A i \in DOMAIN ops : val[ops[i]] \in GateStates
      BY <2>5, <2>6, <2>7 DEF GateStates
    <3>3. Operator(type, OperandValues(x, val)) = Operator(type, OperandValues(ops, val))
      BY <2>1, <2>3, <2>7, <3>1, <3>2, InfoComputes
    <3>4. OperandValues(ops, val) = [i \in DOMAIN o |-> val[o[i]]]
      BY <2>1, <2>5, <2>7 DEF OperandValues
    <3>. QED
      BY <3>3, <3>4 DEF OperandValues
  <2>. QED
    BY <2>2, <2>4, <2>9 DEF val, type, x, o
<1>. QED
  BY <1>2 DEF Solves

(* What is returned is well formed and computes the function of what was    *)
(* given, under the same names.                                             *)
LEMMA ResultIsCorrect ==
    ASSUME Inv, pc = "done"
    PROVE  /\ WellFormed(Result) /\ NamesGates(Result, names)
           /\ SameFunction(circuit, names, Result, names)
<1>1. Given
  BY DEF Inv
<1>2. /\ GateIds(Result) = GateIds(circuit) /\ IdsInRange(Result) /\ Result.outputs = circuit.outputs
      /\ \A g \in GateIds(circuit) : Type(Result, g) = Type(circuit, g)
  BY ResultShape
<1>3. OperandsInside(Result)
  BY <1>2, InRangeInside
<1>4. IsAcyclic(Result)
  <2>1. ASSUME NEW g \in GateIds(circuit), NEW o \in OperandSet(Result, g) PROVE Rank[o] < Rank[g]
    <3>1. PICK k \in OperandSet(circuit, g) : StandsFor(o, k)
      BY ResultOperands
    <3>2. Rank[o] <= Rank[k] /\ Rank[k] < Rank[g] /\ o \in GateIds(circuit) /\ k \in GateIds(circuit)
      BY <1>1, <3>1, GivenFacts DEF StandsFor, IsRanking, OperandsInside
    <3>3. Rank[o] \in Nat /\ Rank[k] \in Nat /\ Rank[g] \in Nat
      BY <1>1, <3>2, GivenFacts
    <3>. QED
      BY <3>2, <3>3
  <2>2. IsRanking(Result, Rank)
    BY <1>1, <1>2, <2>1, GivenFacts DEF IsRanking
  <2> DEFINE d == Result
             r == Rank
  <2> HIDE DEF d, r
  <2>3. IsAcyclic(d)
    BY <1>3, <2>2, RankedIsAcyclic DEF d, r
  <2>. QED
    BY <2>3 DEF d
<1>5. InputGates(Result) = InputGates(circuit)
  BY <1>2 DEF InputGates
<1>6. \A g \in InputGates(Result) : Operands(Result, g) = <<>>
  <2>1. ASSUME NEW g \in InputGates(circuit) PROVE Operands(Result, g) = <<>>
    <3>1. g \in GateIds(circuit) /\ Len(Operands(circuit, g)) = 0
      BY <1>1 DEF InputGates, Given, WellFormed
    <3>. QED
      BY <3>1, ResultOperands
  <2>. QED
    BY <1>5, <2>1
<1>7. /\ Live \subseteq GateIds(Result) /\ IsClosed(Result, Live) /\ OutputSet(Result) \subseteq Live
      /\ \A g \in Live : ArityOk(Type(Result, g), Len(Operands(Result, g)))
  <2>1. OutputSet(Result) = OutputSet(circuit)
    BY <1>2 DEF OutputSet
  <2>2. ASSUME NEW g \in Live, NEW o \in OperandSet(Result, g) PROVE o \in Live
    <3>1. g \in GateIds(circuit)
      BY <1>1, GivenFacts
    <3>2. PICK k \in OperandSet(circuit, g) : StandsFor(o, k)
      BY <3>1, ResultOperands
    <3>. QED
      BY <1>1, <3>2, GivenFacts DEF StandsFor, IsClosed
  <2>3. ASSUME NEW g \in Live PROVE ArityOk(Type(Result, g), Len(Operands(Result, g)))
    <3>1. g \in GateIds(circuit)
      BY <1>1, GivenFacts
    <3>. QED
      BY <1>1, <1>2, <3>1, GivenFacts, ResultOperands
  <2>. QED
    BY <1>1, <1>2, <2>1, <2>2, <2>3, GivenFacts DEF IsClosed
<1>8. InputNames(Result, names) = InputNames(circuit, names)
  BY <1>5 DEF InputNames
<1>9. \A values \in Values(circuit, names) :
         \E val : /\ Solves(Result, names, values, Live, val)
                  /\ \A k \in DOMAIN circuit.outputs :
                        val[Result.outputs[k]] = StatesFor(circuit, names, values)[circuit.outputs[k]]
  BY <1>2, ResultSolved DEF State
<1>10. NamesGates(Result, names)
  BY <1>1, <1>2 DEF Given, NamesGates, Result, GateIds, Inv, GatesInv, GateInfos
<1>11. WellFormed(Result) /\ SameFunction(circuit, names, Result, names)
  <2> DEFINE d == Result
             L == Live
  <2>1. /\ WellFormed(circuit) /\ IdsInRange(d) /\ IsAcyclic(d)
        /\ \A g \in InputGates(d) : Operands(d, g) = <<>>
        /\ L \subseteq GateIds(d) /\ IsClosed(d, L) /\ OutputSet(d) \subseteq L
        /\ \A g \in L : ArityOk(Type(d, g), Len(Operands(d, g)))
        /\ DOMAIN d.outputs = DOMAIN circuit.outputs
        /\ InputNames(d, names) \subseteq InputNames(circuit, names)
        /\ \A values \in Values(circuit, names) :
              \E val : /\ Solves(d, names, values, L, val)
                       /\ \A k \in DOMAIN circuit.outputs :
                             val[d.outputs[k]] = StatesFor(circuit, names, values)[circuit.outputs[k]]
    BY <1>1, <1>2, <1>4, <1>6, <1>7, <1>8, <1>9 DEF Given
  <2> HIDE DEF d, L
  <2>2. WellFormed(d) /\ SameFunction(circuit, names, d, names)
    BY <2>1, SolvedIsCorrect
  <2>. QED
    BY <2>2 DEF d
<1>. QED
  BY <1>10, <1>11

(* Gates keep their types and their numbers of operands.                    *)
LEMMA ResultKeepsShape ==
    ASSUME Inv, pc = "done"
    PROVE  /\ GateIds(Result) = GateIds(circuit)
           /\ \A g \in GateIds(circuit) :
                 /\ Type(Result, g) = Type(circuit, g)
                 /\ Len(Operands(Result, g)) = Len(Operands(circuit, g))
BY ResultShape, ResultOperands

(* The next transformer can work on it, if this one could on what it was    *)
(* given.                                                                   *)
LEMMA ResultIsUsable ==
    ASSUME Inv, pc = "done", Usable(circuit) PROVE Usable(Result)
  BY ResultIsCorrect, ResultKeepsShape, SameShapeIsUsable

------------------------------------------------------------------------------
(* A run begins with a circuit that was given.                              *)
LEMMA InitHolds ==
    ASSUME \A c \in Circuits : WellFormed(c), Init PROVE Inv
<1>1. WellFormed(circuit) /\ Len(circuit.gates) \in Nat
  BY DEF Init, WellFormed, IdsInRange
<1>2. Given
  BY <1>1, NaturalNamesFit DEF Init, Given
<1>3. TypeOK
  <2>1. 0 \in 0 .. Len(circuit.gates) /\ FALSE \in BOOLEAN
    BY <1>1
  <2>2. DOMAIN gate_info = {}
    BY DEF Init
  <2>3. /\ pc = "ready" /\ todo = <<>> /\ new_operands_ = <<>> /\ chain_gate = 0
        /\ flag \in BOOLEAN
    BY <2>1 DEF Init, NoGate
  <2>. QED
    BY <2>1, <2>2, <2>3 DEF TypeOK
<1>. QED
  BY <1>2, <1>3 DEF Inv, Init

(* The invariant holds whenever the circuits given are well formed.         *)
THEOREM InvAlways ==
    ASSUME \A c \in Circuits : WellFormed(c) PROVE Spec => []Inv
<1>1. Init => Inv
  BY InitHolds
<1>2. Inv /\ [Next]_vars => Inv'
  BY NextHolds
<1>. QED
  BY <1>1, <1>2, PTL DEF Spec

(* All variables keep their types: every operand that is looked up is a     *)
(* gate of the circuit.                                                     *)
THEOREM TypeCorrect ==
    ASSUME \A c \in Circuits : WellFormed(c) PROVE Spec => []TypeOK
<1>1. Inv => TypeOK
  BY InvTyped
<1>. QED
  BY <1>1, InvAlways, PTL

(* A gate made of replacements has reduced operands.                        *)
LEMMA InfoReduced ==
    ASSUME Given, NEW g \in GateIds(circuit), NEW ops, Fits(ops, g)
    PROVE  \A j \in DOMAIN GateInfo(Type(circuit, g), ops).operands :
              IsReduced(GateInfo(Type(circuit, g), ops).operands[j])
<1>1. ops \in Seq(Nat) /\ \A k \in DOMAIN ops : IsReduced(ops[k])
  <2>1. ops \in Seq(GateIds(circuit)) /\ GateIds(circuit) \subseteq Nat
    BY GivenFacts DEF Fits, GateIds
  <2>. QED
    BY <2>1 DEF Fits
<1> DEFINE type == Type(circuit, g)
           x == GateInfo(type, ops).operands
<1> HIDE DEF type
<1>0. ops \in Seq(Nat)
  BY <1>1
<1>2. DOMAIN x = DOMAIN ops
  BY <1>0, InfoOperands
<1>3. \A i \in DOMAIN ops : \E k \in DOMAIN ops : x[i] = ops[k]
  BY <1>0, InfoOperands
<1> HIDE DEF x
<1>4. \A j \in DOMAIN x : IsReduced(x[j])
  BY <1>1, <1>2, <1>3
<1>. QED
  BY <1>4 DEF x, type

(* The operands collected, and those of the gates rebuilt, are as the       *)
(* comment on get_operand says.                                             *)
LEMMA InvReduces ==
    ASSUME Inv PROVE ChainsAreReduced
<1>1. CASE pc = "ready"
  BY <1>1 DEF Inv, ChainsAreReduced
<1>2. CASE pc # "ready"
  <2>0. Given /\ GatesInv /\ OperandsInv /\ todo \in Seq(GateIds(circuit))
    BY <1>2 DEF Inv
  <2>1. \A i \in DOMAIN new_operands_ : IsReduced(new_operands_[i])
    <3>1. CASE todo = <<>>
      BY <2>0, <3>1 DEF OperandsInv
    <3>2. CASE todo # <<>>
      <4>1. Fits(new_operands_, gateId) /\ DOMAIN new_operands_ = 1 .. Len(new_operands_)
        BY <2>0, <3>2 DEF OperandsInv, Fits
      <4>. QED
        BY <4>1 DEF Fits
    <3>. QED
      BY <3>1, <3>2
  <2>2. ASSUME NEW g \in DOMAIN gate_info, NEW j \in DOMAIN gate_info[g].operands
        PROVE  IsReduced(gate_info[g].operands[j])
    <3>1. g \in GateIds(circuit)
      BY <2>0 DEF GatesInv
    <3>2. CASE gate_info[g] = NoGateInfo
      BY <2>2, <3>2 DEF NoGateInfo
    <3>3. CASE IsRebuilt(g)
      <4>1. PICK ops : /\ Fits(ops, g) /\ Len(ops) = Len(Operands(circuit, g))
                       /\ gate_info[g] = GateInfo(Type(circuit, g), ops)
        BY <3>3 DEF IsRebuilt
      <4>2. gate_info[g].operands = GateInfo(Type(circuit, g), ops).operands
        BY <4>1
      <4>. QED
        BY <2>0, <2>2, <3>1, <4>1, <4>2, InfoReduced
    <3>. QED
      BY <2>0, <3>1, <3>2, <3>3 DEF GatesInv
  <2>3. pc = "done" =>
           \A g \in GateIds(circuit) : Type(circuit, g) = "NOT" => Type(Result, g) = "NOT"
    BY ResultShape
  <2>. QED
    BY <2>1, <2>2, <2>3 DEF ChainsAreReduced
<1>. QED
  BY <1>1, <1>2

(* "its operand is definitely not NOT" (reduce_not_composition.hpp): for    *)
(* every gate, with the types of the result.                                *)
THEOREM ChainsReduced ==
    ASSUME \A c \in Circuits : WellFormed(c) PROVE Spec => []ChainsAreReduced
<1>1. Inv => ChainsAreReduced
  BY InvReduces
<1>. QED
  BY <1>1, InvAlways, PTL

(* The circuit returned is well formed, has the names of the gates given,   *)
(* and computes the function of the circuit given.                          *)
ReturnsCorrect ==
    pc = "done" =>
        /\ WellFormed(Result) /\ NamesGates(Result, names)
        /\ SameFunction(circuit, names, Result, names)

(* So it is at the end of every run that get_operand does not abort,        *)
(* whenever the circuits given are well formed.                             *)
THEOREM CorrectAtEnd ==
    ASSUME \A c \in Circuits : WellFormed(c) PROVE Spec => []ReturnsCorrect
<1>1. Inv => ReturnsCorrect
  BY ResultIsCorrect DEF ReturnsCorrect
<1>. QED
  BY <1>1, InvAlways, PTL

(* get_operand only throws at a NOT gate that has lost its operand, and     *)
(* such a gate is needed by no output: a well-formed circuit whose gates    *)
(* are all in use is never refused.                                         *)
ThrowsAtUnused ==
    pc = "aborted" =>
        \E g \in GateIds(circuit) \ Cone(circuit, OutputSet(circuit)) :
            Type(circuit, g) = "NOT" /\ Operands(circuit, g) = <<>>

(* So it is in all states of the invariant.                                 *)
LEMMA InvThrows ==
    ASSUME Inv PROVE ThrowsAtUnused
<1> SUFFICES ASSUME pc = "aborted"
             PROVE  \E g \in GateIds(circuit) \ Cone(circuit, OutputSet(circuit)) :
                       Type(circuit, g) = "NOT" /\ Operands(circuit, g) = <<>>
  BY DEF ThrowsAtUnused
<1>1. /\ Given /\ chain_gate \in GateIds(circuit)
      /\ Type(circuit, chain_gate) = "NOT" /\ Operands(circuit, chain_gate) = <<>>
  BY DEF Inv, IsNot, HasOperand
<1>2. chain_gate \notin Live
  <2>1. chain_gate \in Live => ArityOk("NOT", 0)
    BY <1>1, GivenFacts
  <2>. QED
    BY <2>1, ArityCases
<1>. QED
  BY <1>1, <1>2 DEF Live

(* No walk along a chain of a circuit in use ends in an exception.          *)
THEOREM ThrowsOnlyAtUnused ==
    ASSUME \A c \in Circuits : WellFormed(c) PROVE Spec => []ThrowsAtUnused
<1>1. Inv => ThrowsAtUnused
  BY InvThrows
<1>. QED
  BY <1>1, InvAlways, PTL

------------------------------------------------------------------------------
(* ReduceNotComposition_ is a transformer: its circuit is the source, and  *)
(* what it returns is the result, which it has once it is done.             *)
T == INSTANCE Transformer WITH
        source <- circuit, source_names <- names,
        result <- IF pc = "done" THEN Result ELSE [gates |-> <<>>, outputs |-> <<>>],
        result_names <- IF pc = "done" THEN names ELSE <<>>,
        done <- pc = "done"

(* Transformer has the notions of Circuits as its own: they are the same.   *)
LEMMA SameNotions ==
    ASSUME NEW c, NEW cnames, NEW d, NEW dnames
    PROVE  /\ T!WellFormed(c) <=> WellFormed(c)
           /\ T!NamesGates(c, cnames) <=> NamesGates(c, cnames)
           /\ T!SameFunction(c, cnames, d, dnames) <=> SameFunction(c, cnames, d, dnames)
<1>1. T!NamesGates(c, cnames) <=> NamesGates(c, cnames)
  BY DEF NamesGates, T!NamesGates, GateIds, T!GateIds
<1>2. ASSUME NEW e, NEW S, NEW g, NEW asmt
      PROVE  /\ T!GateIds(e) = GateIds(e) /\ T!Type(e, g) = Type(e, g)
             /\ T!Operands(e, g) = Operands(e, g) /\ T!OperandSet(e, g) = OperandSet(e, g)
             /\ T!InputGates(e) = InputGates(e) /\ T!OutputSet(e) = OutputSet(e)
             /\ T!Cone(e, S) = Cone(e, S)
  BY DEF T!GateIds, GateIds, T!Type, Type, T!Operands, Operands, T!OperandSet, OperandSet,
         T!InputGates, InputGates, T!OutputSet, OutputSet, T!Cone, Cone
<1>3. T!WellFormed(c) <=> WellFormed(c)
  <2>1. T!IdsInRange(c) <=> IdsInRange(c)
    BY DEF T!IdsInRange, IdsInRange, T!GateInfos, GateInfos, T!GateTypes, GateTypes, T!OperatorTypes, OperatorTypes, T!FoldTypes, FoldTypes, T!GateIds, GateIds
  <2>0. \A S : T!Cardinality(S) = Cardinality(S)
    BY DEF T!Cardinality, Cardinality
  <2>2. T!IsAcyclic(c) <=> IsAcyclic(c)
    BY <1>2, <2>0 DEF T!IsAcyclic, IsAcyclic, T!IsRanking, IsRanking, T!ConeSizes, ConeSizes
  <2>3. ASSUME NEW type, NEW n PROVE T!ArityOk(type, n) <=> ArityOk(type, n)
    BY ZenonT(60) DEF T!ArityOk, ArityOk, T!FoldTypes, FoldTypes
  <2>. QED
    BY <1>2, <2>1, <2>2, <2>3 DEF T!WellFormed, WellFormed
<1>4. ASSUME NEW e, NEW asmt PROVE T!StatesOf(e, asmt) = StatesOf(e, asmt)
  BY DEF T!StatesOf, StatesOf, T!GateIds, GateIds, T!Type, Type, T!Operands, Operands, T!Operator, Operator, T!NOT, NOT, T!IFF, IFF, T!AND, AND, T!OR, OR, T!XOR, XOR, T!MUX, MUX, T!Lookup1, Lookup1, T!Lookup2, Lookup2, T!Lookup3, Lookup3, T!StFalse, StFalse, T!StTrue, StTrue, T!StUndef, StUndef, T!GateStates, GateStates, T!FunctionOf, FunctionOf, T!FoldMap, FoldMap
<1>5. ASSUME NEW e, NEW asmt PROVE T!OutputStates(e, asmt) = OutputStates(e, asmt)
  <2>1. T!CutAtGiven(e, asmt) = CutAtGiven(e, asmt)
    BY DEF T!CutAtGiven, CutAtGiven, T!GateIds, GateIds, T!Type, Type, T!NoGateInfo, NoGateInfo, T!StUndef, StUndef
  <2>. QED
    BY <1>2, <1>4, <2>1 DEF T!OutputStates, OutputStates, T!EvaluateCircuit, EvaluateCircuit, T!StUndef, StUndef
<1>6. T!SameFunction(c, cnames, d, dnames) <=> SameFunction(c, cnames, d, dnames)
  <2>1. ASSUME NEW e, NEW n PROVE T!InputNames(e, n) = InputNames(e, n)
    BY <1>2 DEF T!InputNames, InputNames
  <2>2. ASSUME NEW e, NEW n, NEW v PROVE T!Assignment(e, n, v) = Assignment(e, n, v)
    BY <1>2 DEF T!Assignment, Assignment, T!StUndef, StUndef
  <2>. QED
    BY <1>5, <2>1, <2>2 DEF T!SameFunction, SameFunction, T!StFalse, StFalse, T!StTrue, StTrue
<1>. QED
  BY <1>1, <1>3, <1>6

(* Return is the step that Transformer allows; all other steps leave what   *)
(* it can see unchanged.                                                    *)
THEOREM IsTransformer ==
    ASSUME \A c \in Circuits : WellFormed(c) PROVE Spec => T!Safety
<1>1. Init /\ Inv => T!Init
  BY SameNotions DEF Init, Inv, Given, T!Init, T!NoCircuit
<1>2. Inv /\ ReturnsCorrect' /\ [Next]_vars => [T!Transform]_(T!vars)
  <2> SUFFICES ASSUME Inv, ReturnsCorrect', [Next]_vars PROVE T!Transform \/ UNCHANGED T!vars
    OBVIOUS
  <2>1. CASE Return
    <3>1. pc = "gate" /\ pc' = "done" /\ UNCHANGED <<circuit, names>>
      BY <2>1 DEF Return
    <3>2. /\ WellFormed(Result') /\ NamesGates(Result', names')
          /\ SameFunction(circuit, names, Result', names')
      BY <3>1 DEF ReturnsCorrect
    <3>. QED
      BY <3>1, <3>2, SameNotions DEF T!Transform, T!Correct
  <2>2. CASE pc' # "done" /\ pc # "done" /\ UNCHANGED <<circuit, names>>
    BY <2>2 DEF T!vars
  <2>3. CASE UNCHANGED vars
    BY <2>3 DEF vars, T!vars, Result
  <2>4. CASE Next /\ ~Return
    BY <2>2, <2>4 DEF Next, Start, KeepOperand, EnterChain, PassNot, LeaveChain, Throw, RebuildGate
  <2>. QED
    BY <2>1, <2>3, <2>4
<1>. QED
  BY <1>1, <1>2, InvAlways, CorrectAtEnd, PTL DEF Spec, T!Safety
==============================================================================
