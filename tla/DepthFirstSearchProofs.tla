----------------------- MODULE DepthFirstSearchProofs ------------------------
(****************************************************************************)
(* Proofs about DepthFirstSearch for every set of acyclic circuits.         *)
(****************************************************************************)
EXTENDS DepthFirstSearch, CircuitLemmas

(* The circuit searched never changes, so the assumption applies to it.     *)
TypeInv == TypeOK /\ circuit \in Circuits

(* The search starts with all variables in their types ...                  *)
LEMMA TypeInvInit == Init => TypeInv
<1> SUFFICES ASSUME Init PROVE TypeInv
  OBVIOUS
<1>1. /\ circuit \in Circuits /\ Len(circuit.gates) \in Nat
      /\ circuit.outputs \in Seq(GateIds(circuit))
  BY CircuitsAssumption DEF Init
<1>2. startGates \in Seq(GateIds(circuit))
  BY <1>1, SourcesFacts DEF Init
<1>. QED
  BY <1>1, <1>2 DEF Init, TypeInv, TypeOK, DFSStates

(* ... and every step keeps all variables in their types.                   *)
LEMMA TypeInvHolds == Spec => []TypeInv
<1> USE CircuitsAssumption
<1>1. Init => TypeInv
  BY TypeInvInit
<1>2. TypeInv /\ [Next]_vars => TypeInv'
  <2> SUFFICES ASSUME TypeInv, [Next]_vars PROVE TypeInv'
    OBVIOUS
  <2> USE DEF TypeInv, TypeOK
  <2>0. /\ \A g \in GateIds(circuit) : Operands(circuit, g) \in Seq(GateIds(circuit))
        /\ Len(circuit.gates) \in Nat
    OBVIOUS
  <2>1. CASE Start
    BY <2>1 DEF Start, Enqueue
  <2>2. CASE Enter
    BY <2>0, <2>2 DEF Enter, Top, DFSStates
  <2>3. CASE EnqueueOperand
    BY <2>3 DEF EnqueueOperand, Enqueue
  <2>4. CASE Leave
    BY <2>4 DEF Leave, Top, Pop, DFSStates
  <2>5. CASE Skip
    BY <2>5 DEF Skip, Top, Pop
  <2>6. CASE Over
    BY <2>6 DEF Over
  <2>7. CASE Rest
    <3>1. idx \in GateIds(circuit) /\ idx' \in 1 .. Len(circuit.gates) + 1
      BY <2>0, <2>7 DEF Rest, GateIds
    <3>2. gateSorting' \in Seq(GateIds(circuit))
      BY <2>7, <3>1 DEF Rest
    <3>. QED
      BY <2>7, <3>1, <3>2 DEF Rest
  <2>8. CASE Return
    BY <2>8 DEF Return
  <2>9. CASE UNCHANGED vars
    BY <2>9 DEF vars
  <2>. QED
    BY <2>1, <2>2, <2>3, <2>4, <2>5, <2>6, <2>7, <2>8, <2>9 DEF Next
<1>. QED
  BY <1>1, <1>2, PTL DEF Spec

(* The type invariant: the stack, the operands waiting to be enqueued and   *)
(* the record only ever hold gates of the circuit.                          *)
THEOREM TypeCorrect == Spec => []TypeOK
<1>1. TypeInv => TypeOK
  BY DEF TypeInv
<1>. QED
  BY <1>1, TypeInvHolds, PTL

------------------------------------------------------------------------------
(* What the induction needs besides the types: while searching, the stack   *)
(* invariants of EnteredOnStack and the order of the record; afterwards     *)
(* nothing is half-way and the record keeps its order.                      *)
VisitedRecorded ==
    \A g \in GateIds(circuit) :
        dfs_state[g] = "VISITED" => \E i \in DOMAIN gateSorting : gateSorting[i] = g

(* The search ends with no gate half-way.                                   *)
NothingEntered == pc # "search" =>
    \A g \in GateIds(circuit) : dfs_state[g] # "ENTERED"

(* A gate is left after its operands.                                       *)
OperandsVisited ==
    \A g \in GateIds(circuit) : dfs_state[g] = "VISITED" =>
        \A o \in OperandSet(circuit, g) : dfs_state[o] = "VISITED"

(* The first inductive invariant.                                           *)
SearchInv ==
    /\ TypeInv
    /\ EnteredOnStack
    /\ PendingBelowEntered
    /\ OperandsVisited
    /\ NothingEntered
    /\ VisitedRecorded
    /\ OperandBefore
    /\ SortIsTopological

(* The assumption on the circuits, instantiated for the circuit searched.   *)
LEMMA CircuitFacts ==
    ASSUME TypeInv
    PROVE  /\ \A g \in GateIds(circuit) : OperandSet(circuit, g) \subseteq GateIds(circuit)
           /\ \A g \in GateIds(circuit) : Rank(circuit)[g] \in Nat
           /\ \A g \in GateIds(circuit) : \A o \in OperandSet(circuit, g) :
                 Rank(circuit)[o] < Rank(circuit)[g]
           /\ \A g \in GateIds(circuit) : Operands(circuit, g) \in Seq(GateIds(circuit))
           /\ Len(circuit.gates) \in Nat
<1>1. \A g \in GateIds(circuit) : Operands(circuit, g) \in Seq(GateIds(circuit))
  BY CircuitsAssumption DEF TypeInv, TypeOK
<1>2. \A g \in GateIds(circuit) : OperandSet(circuit, g) \subseteq GateIds(circuit)
  BY <1>1 DEF OperandSet
<1>3. IsRanking(circuit, Rank(circuit)) /\ Len(circuit.gates) \in Nat
  BY CircuitsAssumption DEF TypeInv, TypeOK
<1>. QED
  BY <1>1, <1>2, <1>3 DEF IsRanking

(* When the entered gate on top is left, each of its operands was left      *)
(* before: an operand that is still entered would have its place below the  *)
(* gate, and then the gate would rank lower than its own operand.           *)
LEMMA OperandsLeftFirst ==
    ASSUME TypeInv, EnteredOnStack, Leave
    PROVE  \A o \in OperandSet(circuit, Top) : dfs_state[o] = "VISITED"
<1> SUFFICES ASSUME NEW o \in OperandSet(circuit, Top), dfs_state[o] # "VISITED"
             PROVE  FALSE
  OBVIOUS
<1>1. /\ Top \in GateIds(circuit) /\ o \in GateIds(circuit)
      /\ stack \in Seq(GateIds(circuit)) /\ Len(stack) \in Nat \ {0}
      /\ pending = <<>>
  BY CircuitFacts DEF Leave, TypeInv, TypeOK, Top
<1>2. PICK i \in 1 .. Len(stack) : HoldsPlace(Top, i)
  BY <1>1 DEF EnteredOnStack, Leave
<1>3. Rank(circuit)[o] < Rank(circuit)[Top] /\ Rank(circuit)[o] \in Nat /\ Rank(circuit)[Top] \in Nat
  BY <1>1, CircuitFacts
<1>4. i = Len(stack)
  <2>1. SUFFICES ASSUME i < Len(stack) PROVE FALSE
    BY <1>1
  <2>2. Rank(circuit)[stack[Len(stack)]] < Rank(circuit)[Top]
    BY <1>1, <1>2, <2>1 DEF HoldsPlace
  <2>. QED
    BY <1>3, <2>2 DEF Top
<1>5. dfs_state[o] = "ENTERED"
  BY <1>1, <1>2, <1>4 DEF HoldsPlace, TypeInv, TypeOK, DFSStates
<1>6. PICK k \in 1 .. Len(stack) : HoldsPlace(o, k)
  BY <1>1, <1>5 DEF EnteredOnStack
<1>7. k < Len(stack)
  BY <1>1, <1>3, <1>6 DEF HoldsPlace, Top
<1>8. Rank(circuit)[Top] < Rank(circuit)[o]
  BY <1>1, <1>6, <1>7 DEF HoldsPlace, Top
<1>. QED
  BY <1>3, <1>8

(* An empty stack holds no place for an entered gate.                       *)
LEMMA NothingEnteredOffStack ==
    ASSUME TypeInv, EnteredOnStack, stack = <<>>
    PROVE  \A g \in GateIds(circuit) : dfs_state[g] # "ENTERED"
  BY DEF TypeInv, TypeOK, EnteredOnStack

(* The invariant holds before the first start gate is taken ...             *)
LEMMA SearchInvInit == Init => SearchInv
<1> SUFFICES ASSUME Init PROVE SearchInv
  OBVIOUS
<1>1. TypeInv
  BY TypeInvInit
<1>. QED
  BY <1>1 DEF Init, SearchInv, EnteredOnStack, PendingBelowEntered, OperandsVisited,
              NothingEntered, VisitedRecorded, OperandBefore, SortIsTopological

(* ... and each step of the search keeps it.                                *)
LEMMA StartKeeps ==
    ASSUME SearchInv, TypeInv', Start
    PROVE  SearchInv'
<1> USE DEF SearchInv
<1>1. \A g \in GateIds(circuit) : dfs_state[g] # "ENTERED"
  BY NothingEnteredOffStack DEF Start
<1>2. UNCHANGED <<circuit, pending, dfs_state, gateSorting, pc>> /\ pc = "search"
  BY DEF Start
<1>3. EnteredOnStack' /\ PendingBelowEntered'
  BY <1>1, <1>2 DEF EnteredOnStack, PendingBelowEntered
<1>4. OperandsVisited' /\ NothingEntered' /\ VisitedRecorded'
  BY <1>2 DEF OperandsVisited, NothingEntered, VisitedRecorded
<1>5. OperandBefore' /\ SortIsTopological'
  BY <1>2 DEF OperandBefore, SortIsTopological
<1>. QED
  BY <1>3, <1>4, <1>5

(* Entering: the gate gets its place at the top, its operands are pending.  *)
LEMMA EnterKeeps ==
    ASSUME SearchInv, TypeInv', Enter
    PROVE  SearchInv'
<1> USE DEF SearchInv
<1>1. /\ UNCHANGED <<circuit, stack, gateSorting, pc>> /\ pc = "search"
      /\ stack \in Seq(GateIds(circuit)) /\ Len(stack) \in Nat \ {0} /\ Top \in GateIds(circuit)
      /\ pending = <<>> /\ pending' = Operands(circuit, Top)
      /\ dfs_state \in [GateIds(circuit) -> DFSStates]
      /\ dfs_state[Top] = "UNVISITED" /\ dfs_state' = [dfs_state EXCEPT ![Top] = "ENTERED"]
  BY DEF Enter, TypeInv, TypeOK, Top
<1>2. EnteredOnStack'
  <2> SUFFICES ASSUME NEW g \in GateIds(circuit), dfs_state'[g] = "ENTERED"
               PROVE  \E i \in 1 .. Len(stack) : HoldsPlace(g, i)'
    BY <1>1 DEF EnteredOnStack
  <2>1. CASE g = Top
    <3>1. \A o \in OperandSet(circuit, Top) : \E j \in DOMAIN pending' : pending'[j] = o
      BY <1>1 DEF OperandSet
    <3>2. HoldsPlace(Top, Len(stack))'
      BY <1>1, <3>1 DEF HoldsPlace, Top
    <3>3. Top' = Top
      BY <1>1 DEF Top
    <3>. QED
      BY <1>1, <2>1, <3>2, <3>3
  <2>2. CASE g # Top
    <3>1. dfs_state[g] = "ENTERED"
      BY <1>1, <2>2
    <3>2. PICK i \in 1 .. Len(stack) : HoldsPlace(g, i)
      BY <3>1 DEF EnteredOnStack
    <3>3. \A o \in GateIds(circuit) : dfs_state[o] # "UNVISITED" => dfs_state'[o] # "UNVISITED"
      BY <1>1
    <3>4. HoldsPlace(g, i)'
      BY <1>1, <3>2, <3>3, CircuitFacts DEF HoldsPlace
    <3>. QED
      BY <3>4
  <2>. QED
    BY <2>1, <2>2
<1>3. PendingBelowEntered'
  <2> SUFFICES ASSUME NEW j \in DOMAIN pending', NEW g \in GateIds(circuit),
                      dfs_state'[g] = "ENTERED"
               PROVE  Rank(circuit)[pending'[j]] < Rank(circuit)[g]
    BY <1>1 DEF PendingBelowEntered
  <2>1. pending'[j] \in OperandSet(circuit, Top) /\ pending'[j] \in GateIds(circuit)
    BY <1>1, CircuitFacts DEF OperandSet
  <2>2. Rank(circuit)[pending'[j]] < Rank(circuit)[Top]
    BY <1>1, <2>1, CircuitFacts
  <2>3. CASE g = Top
    BY <2>2, <2>3
  <2>4. CASE g # Top
    <3>1. PICK i \in 1 .. Len(stack) : HoldsPlace(g, i)
      BY <1>1, <2>4 DEF EnteredOnStack
    <3>2. i < Len(stack)
      BY <1>1, <2>4, <3>1 DEF HoldsPlace, Top
    <3>3. Rank(circuit)[Top] < Rank(circuit)[g]
      BY <1>1, <3>1, <3>2 DEF HoldsPlace, Top
    <3>4. /\ Rank(circuit)[pending'[j]] \in Nat /\ Rank(circuit)[Top] \in Nat
          /\ Rank(circuit)[g] \in Nat
      BY <1>1, <2>1, CircuitFacts
    <3>. QED
      BY <2>2, <3>3, <3>4
  <2>. QED
    BY <2>3, <2>4
<1>4. OperandsVisited'
  BY <1>1, CircuitFacts DEF OperandsVisited
<1>5. NothingEntered' /\ VisitedRecorded'
  BY <1>1 DEF NothingEntered, VisitedRecorded
<1>6. OperandBefore'
  <2>1. gateSorting \in Seq(GateIds(circuit))
    BY DEF TypeInv, TypeOK
  <2>. QED
    BY <1>1, <2>1 DEF OperandBefore
<1>7. SortIsTopological'
  BY <1>1 DEF SortIsTopological
<1>. QED
  BY <1>2, <1>3, <1>4, <1>5, <1>6, <1>7

(* Pushing an operand: it ranks below every gate entered.                   *)
LEMMA EnqueueOperandKeeps ==
    ASSUME SearchInv, TypeInv', EnqueueOperand
    PROVE  SearchInv'
<1> USE DEF SearchInv
<1> DEFINE last == pending[Len(pending)]
<1>1. /\ UNCHANGED <<circuit, dfs_state, gateSorting, pc>> /\ pc = "search"
      /\ stack \in Seq(GateIds(circuit)) /\ pending \in Seq(GateIds(circuit))
      /\ Len(pending) \in Nat \ {0} /\ last \in GateIds(circuit)
      /\ pending' = SubSeq(pending, 1, Len(pending) - 1)
      /\ stack' = IF dfs_state[last] = "UNVISITED" THEN Append(stack, last) ELSE stack
  BY DEF EnqueueOperand, Enqueue, TypeInv, TypeOK
<1>2. Len(stack) \in Nat /\ Len(stack') \in Nat /\ Len(stack) <= Len(stack')
  BY <1>1
<1>3. \A j \in 1 .. Len(stack) : stack'[j] = stack[j]
  BY <1>1
<1>4. \A j \in Len(stack) + 1 .. Len(stack') : stack'[j] = last
  BY <1>1
<1>5. /\ DOMAIN pending' = 1 .. Len(pending) - 1
      /\ \A j \in 1 .. Len(pending) - 1 : pending'[j] = pending[j]
  BY <1>1
<1>6. EnteredOnStack'
  <2> SUFFICES ASSUME NEW g \in GateIds(circuit), dfs_state[g] = "ENTERED"
               PROVE  \E i \in 1 .. Len(stack') : HoldsPlace(g, i)'
    BY <1>1 DEF EnteredOnStack
  <2>1. PICK i \in 1 .. Len(stack) : HoldsPlace(g, i)
    BY DEF EnteredOnStack
  <2>2. stack'[i] = g
    BY <1>3, <2>1 DEF HoldsPlace
  <2>3. \A j \in i + 1 .. Len(stack') : Rank(circuit)[stack'[j]] < Rank(circuit)[g]
    <3> SUFFICES ASSUME NEW j \in i + 1 .. Len(stack')
                 PROVE  Rank(circuit)[stack'[j]] < Rank(circuit)[g]
      OBVIOUS
    <3>1. CASE j <= Len(stack)
      BY <1>2, <1>3, <2>1, <3>1 DEF HoldsPlace
    <3>2. CASE j > Len(stack)
      BY <1>1, <1>2, <1>4, <3>2 DEF PendingBelowEntered
    <3>. QED
      BY <1>2, <3>1, <3>2
  <2>4. ASSUME NEW o \in OperandSet(circuit, g)
        PROVE  \/ dfs_state[o] # "UNVISITED"
               \/ \E j \in i + 1 .. Len(stack') : stack'[j] = o
               \/ \E j \in DOMAIN pending' : pending'[j] = o
    <3>1. CASE dfs_state[o] # "UNVISITED"
      BY <3>1
    <3>2. CASE \E j \in i + 1 .. Len(stack) : stack[j] = o
      BY <1>2, <1>3, <3>2
    <3>3. CASE dfs_state[o] = "UNVISITED" /\ \E j \in DOMAIN pending : pending[j] = o
      <4>1. PICK j \in DOMAIN pending : pending[j] = o
        BY <3>3
      <4>2. CASE j = Len(pending)
        <5>1. Len(stack') = Len(stack) + 1 /\ stack'[Len(stack) + 1] = o
          BY <1>1, <3>3, <4>1, <4>2
        <5>. QED
          BY <1>2, <2>1, <5>1
      <4>3. CASE j # Len(pending)
        <5>1. j \in DOMAIN pending'
          BY <1>1, <1>5, <4>1, <4>3
        <5>2. pending'[j] = o
          BY <1>1, <1>5, <4>1, <5>1
        <5>. QED
          BY <5>1, <5>2
      <4>. QED
        BY <4>2, <4>3
    <3>4. \/ dfs_state[o] # "UNVISITED"
          \/ \E j \in i + 1 .. Len(stack) : stack[j] = o
          \/ \E j \in DOMAIN pending : pending[j] = o
      BY <2>1 DEF HoldsPlace
    <3>. QED
      BY <3>1, <3>2, <3>3, <3>4
  <2>5. HoldsPlace(g, i)'
    BY <1>1, <2>2, <2>3, <2>4 DEF HoldsPlace
  <2>. QED
    BY <1>2, <2>5
<1>7. PendingBelowEntered'
  BY <1>1, <1>5 DEF PendingBelowEntered
<1>8. OperandsVisited' /\ NothingEntered' /\ VisitedRecorded'
  BY <1>1 DEF OperandsVisited, NothingEntered, VisitedRecorded
<1>9. OperandBefore' /\ SortIsTopological'
  BY <1>1 DEF OperandBefore, SortIsTopological
<1>. QED
  BY <1>6, <1>7, <1>8, <1>9

(* Leaving: the operands of the gate were left and recorded before.         *)
LEMMA LeaveKeeps ==
    ASSUME SearchInv, TypeInv', Leave
    PROVE  SearchInv'
<1> USE DEF SearchInv
<1>1. /\ UNCHANGED <<circuit, pending, pc>> /\ pc = "search" /\ pending = <<>>
      /\ stack \in Seq(GateIds(circuit)) /\ Len(stack) \in Nat \ {0} /\ Top \in GateIds(circuit)
      /\ stack' = SubSeq(stack, 1, Len(stack) - 1)
      /\ dfs_state \in [GateIds(circuit) -> DFSStates]
      /\ dfs_state[Top] = "ENTERED" /\ dfs_state' = [dfs_state EXCEPT ![Top] = "VISITED"]
      /\ gateSorting \in Seq(GateIds(circuit)) /\ gateSorting' = Append(gateSorting, Top)
  BY DEF Leave, TypeInv, TypeOK, Top, Pop
<1>2. \A o \in OperandSet(circuit, Top) : dfs_state[o] = "VISITED"
  BY OperandsLeftFirst
<1>3. /\ Len(stack') = Len(stack) - 1
      /\ \A j \in 1 .. Len(stack) - 1 : stack'[j] = stack[j]
  BY <1>1, PopFacts
<1>4. EnteredOnStack'
  <2> SUFFICES ASSUME NEW g \in GateIds(circuit), dfs_state'[g] = "ENTERED"
               PROVE  \E i \in 1 .. Len(stack') : HoldsPlace(g, i)'
    BY <1>1 DEF EnteredOnStack
  <2>1. g # Top /\ dfs_state[g] = "ENTERED"
    BY <1>1
  <2>2. PICK i \in 1 .. Len(stack) : HoldsPlace(g, i)
    BY <2>1 DEF EnteredOnStack
  <2>3. i \in 1 .. Len(stack')
    BY <1>1, <1>3, <2>1, <2>2 DEF HoldsPlace, Top
  <2>4. stack'[i] = g
    BY <1>1, <1>3, <2>2, <2>3 DEF HoldsPlace
  <2>5. \A j \in i + 1 .. Len(stack') : Rank(circuit)[stack'[j]] < Rank(circuit)[g]
    BY <1>1, <1>3, <2>2, <2>3 DEF HoldsPlace
  <2>6. ASSUME NEW o \in OperandSet(circuit, g), dfs_state'[o] = "UNVISITED"
        PROVE  \E j \in i + 1 .. Len(stack') : stack'[j] = o
    <3>1. dfs_state[o] = "UNVISITED" /\ o # Top
      BY <1>1, <2>6, CircuitFacts
    <3>2. PICK j \in i + 1 .. Len(stack) : stack[j] = o
      BY <1>1, <2>2, <3>1 DEF HoldsPlace
    <3>3. j # Len(stack)
      BY <3>1, <3>2 DEF Top
    <3>. QED
      BY <1>1, <1>3, <2>3, <3>2, <3>3, SMTT(60)
  <2>7. HoldsPlace(g, i)'
    BY <1>1, <2>4, <2>5, <2>6 DEF HoldsPlace
  <2>. QED
    BY <2>3, <2>7
<1>5. PendingBelowEntered' /\ NothingEntered'
  BY <1>1 DEF PendingBelowEntered, NothingEntered
<1>6. OperandsVisited'
  BY <1>1, <1>2, CircuitFacts DEF OperandsVisited
<1>7. DOMAIN gateSorting' = 1 .. Len(gateSorting) + 1 /\ Len(gateSorting) \in Nat
      /\ DOMAIN gateSorting = 1 .. Len(gateSorting)
      /\ gateSorting'[Len(gateSorting) + 1] = Top
      /\ \A i \in DOMAIN gateSorting : gateSorting'[i] = gateSorting[i]
  BY <1>1
<1>8. VisitedRecorded'
  <2> SUFFICES ASSUME NEW g \in GateIds(circuit), dfs_state'[g] = "VISITED"
               PROVE  \E i \in DOMAIN gateSorting' : gateSorting'[i] = g
    BY <1>1 DEF VisitedRecorded
  <2>1. CASE g = Top
    BY <1>7, <2>1
  <2>2. CASE g # Top
    <3>1. PICK i \in DOMAIN gateSorting : gateSorting[i] = g
      BY <1>1, <2>2 DEF VisitedRecorded
    <3>. QED
      BY <1>7, <3>1
  <2>. QED
    BY <2>1, <2>2
<1>9. OperandBefore'
  <2> SUFFICES ASSUME NEW i \in DOMAIN gateSorting'
               PROVE  /\ dfs_state'[gateSorting'[i]] = "VISITED"
                      /\ \A o \in OperandSet(circuit, gateSorting'[i]) :
                            \E j \in 1 .. i - 1 : gateSorting'[j] = o
    BY <1>1 DEF OperandBefore
  <2>1. CASE i \in DOMAIN gateSorting
    <3>1. gateSorting'[i] = gateSorting[i] /\ gateSorting[i] \in GateIds(circuit)
      BY <1>1, <1>7, <2>1
    <3>2. /\ dfs_state[gateSorting[i]] = "VISITED"
          /\ \A o \in OperandSet(circuit, gateSorting[i]) :
                \E j \in 1 .. i - 1 : gateSorting[j] = o
      BY <1>1, <2>1 DEF OperandBefore
    <3>3. \A j \in 1 .. i - 1 : gateSorting'[j] = gateSorting[j]
      BY <1>7, <2>1
    <3>. QED
      BY <1>1, <3>1, <3>2, <3>3
  <2>2. CASE i = Len(gateSorting) + 1
    <3>1. gateSorting'[i] = Top
      BY <1>7, <2>2
    <3>2. \A o \in OperandSet(circuit, Top) : \E j \in DOMAIN gateSorting : gateSorting[j] = o
      BY <1>1, <1>2, CircuitFacts DEF VisitedRecorded
    <3>3. \A o \in OperandSet(circuit, Top) : \E j \in 1 .. i - 1 : gateSorting'[j] = o
      BY <1>7, <2>2, <3>2
    <3>. QED
      BY <1>1, <3>1, <3>3
  <2>. QED
    BY <1>7, <2>1, <2>2
<1>10. SortIsTopological'
  BY <1>1 DEF SortIsTopological
<1>. QED
  BY <1>4, <1>5, <1>6, <1>8, <1>9, <1>10

(* Skipping: the copy on top is no entered gate's place.                    *)
LEMMA SkipKeeps ==
    ASSUME SearchInv, TypeInv', Skip
    PROVE  SearchInv'
<1> USE DEF SearchInv
<1>1. /\ UNCHANGED <<circuit, pending, dfs_state, gateSorting, pc>> /\ pc = "search"
      /\ stack \in Seq(GateIds(circuit)) /\ Len(stack) \in Nat \ {0} /\ Top \in GateIds(circuit)
      /\ stack' = SubSeq(stack, 1, Len(stack) - 1)
      /\ dfs_state[Top] = "VISITED"
  BY DEF Skip, TypeInv, TypeOK, Top, Pop
<1>2. /\ Len(stack') = Len(stack) - 1
      /\ \A j \in 1 .. Len(stack) - 1 : stack'[j] = stack[j]
  BY <1>1, PopFacts
<1>3. EnteredOnStack'
  <2> SUFFICES ASSUME NEW g \in GateIds(circuit), dfs_state[g] = "ENTERED"
               PROVE  \E i \in 1 .. Len(stack') : HoldsPlace(g, i)'
    BY <1>1 DEF EnteredOnStack
  <2>1. PICK i \in 1 .. Len(stack) : HoldsPlace(g, i)
    BY DEF EnteredOnStack
  <2>2. i \in 1 .. Len(stack')
    BY <1>1, <1>2, <2>1 DEF HoldsPlace, Top
  <2>3. stack'[i] = g
    BY <1>1, <1>2, <2>1, <2>2 DEF HoldsPlace
  <2>4. \A j \in i + 1 .. Len(stack') : Rank(circuit)[stack'[j]] < Rank(circuit)[g]
    BY <1>1, <1>2, <2>1, <2>2 DEF HoldsPlace
  <2>5. ASSUME NEW o \in OperandSet(circuit, g), dfs_state[o] = "UNVISITED"
        PROVE  \/ \E j \in i + 1 .. Len(stack') : stack'[j] = o
               \/ \E j \in DOMAIN pending' : pending'[j] = o
    <3>1. CASE \E j \in DOMAIN pending : pending[j] = o
      BY <1>1, <3>1
    <3>2. CASE \E j \in i + 1 .. Len(stack) : stack[j] = o
      <4>1. PICK j \in i + 1 .. Len(stack) : stack[j] = o
        BY <3>2
      <4>2. j # Len(stack)
        BY <1>1, <2>5, <4>1 DEF Top
      <4>. QED
        BY <1>1, <1>2, <2>2, <4>1, <4>2
    <3>. QED
      BY <2>1, <2>5, <3>1, <3>2 DEF HoldsPlace
  <2>6. HoldsPlace(g, i)'
    BY <1>1, <2>3, <2>4, <2>5 DEF HoldsPlace
  <2>. QED
    BY <2>2, <2>6
<1>4. PendingBelowEntered' /\ OperandsVisited' /\ NothingEntered' /\ VisitedRecorded'
  BY <1>1 DEF PendingBelowEntered, OperandsVisited, NothingEntered, VisitedRecorded
<1>5. OperandBefore' /\ SortIsTopological'
  BY <1>1 DEF OperandBefore, SortIsTopological
<1>. QED
  BY <1>3, <1>4, <1>5

(* Reversing the record turns operands-first into users-first.              *)
LEMMA OverKeeps ==
    ASSUME SearchInv, TypeInv', Over
    PROVE  SearchInv'
<1> USE DEF SearchInv
<1> DEFINE n == Len(gateSorting)
<1>1. /\ UNCHANGED <<circuit, stack, pending, dfs_state>> /\ pc = "search" /\ pc' = "rest"
      /\ gateSorting \in Seq(GateIds(circuit)) /\ n \in Nat
      /\ gateSorting' = [i \in 1 .. n |-> gateSorting[n - i + 1]]
  BY DEF Over, TypeInv, TypeOK
<1>2. \A g \in GateIds(circuit) : dfs_state[g] # "ENTERED"
  BY NothingEnteredOffStack DEF Over
<1>3. DOMAIN gateSorting = 1 .. n /\ DOMAIN gateSorting' = 1 .. n /\ Len(gateSorting') = n
  BY <1>1
<1>4. \A i \in 1 .. n : n - i + 1 \in 1 .. n /\ gateSorting'[n - i + 1] = gateSorting[i]
  BY <1>1
<1>5. EnteredOnStack' /\ PendingBelowEntered'
  BY <1>1, <1>2 DEF EnteredOnStack, PendingBelowEntered
<1>6. OperandsVisited' /\ NothingEntered'
  BY <1>1, <1>2 DEF OperandsVisited, NothingEntered
<1>7. VisitedRecorded'
  <2> SUFFICES ASSUME NEW g \in GateIds(circuit), dfs_state[g] = "VISITED"
               PROVE  \E i \in 1 .. n : gateSorting'[i] = g
    BY <1>1, <1>3 DEF VisitedRecorded
  <2>1. PICK i \in 1 .. n : gateSorting[i] = g
    BY <1>3 DEF VisitedRecorded
  <2>. QED
    BY <1>4, <2>1
<1>8. OperandBefore'
  BY <1>1 DEF OperandBefore
<1>9. SortIsTopological'
  <2> SUFFICES ASSUME NEW i \in 1 .. n, NEW o \in OperandSet(circuit, gateSorting'[i])
               PROVE  \E j \in i + 1 .. n : gateSorting'[j] = o
    BY <1>1, <1>3, SMTT(60) DEF SortIsTopological
  <2>1. n - i + 1 \in 1 .. n /\ gateSorting'[i] = gateSorting[n - i + 1]
    BY <1>1
  <2>2. PICK k \in 1 .. (n - i + 1) - 1 : gateSorting[k] = o
    BY <1>1, <1>3, <2>1 DEF OperandBefore
  <2>3. n - k + 1 \in i + 1 .. n /\ gateSorting'[n - k + 1] = o
    BY <1>1, <2>1, <2>2
  <2>. QED
    BY <2>3
<1>. QED
  BY <1>5, <1>6, <1>7, <1>8, <1>9

(* The gates appended were not visited and disturb no visited one.          *)
LEMMA RestKeeps ==
    ASSUME SearchInv, TypeInv', Rest
    PROVE  SearchInv'
<1> USE DEF SearchInv
<1>1. /\ UNCHANGED <<circuit, stack, pending, dfs_state, pc>> /\ pc = "rest"
      /\ gateSorting \in Seq(GateIds(circuit)) /\ gateSorting' \in Seq(GateIds(circuit))
      /\ gateSorting' = IF dfs_state[idx] = "UNVISITED"
                        THEN Append(gateSorting, idx) ELSE gateSorting
  BY DEF Rest, TypeInv, TypeOK
<1>2. /\ DOMAIN gateSorting = 1 .. Len(gateSorting) /\ Len(gateSorting) \in Nat
      /\ DOMAIN gateSorting' = 1 .. Len(gateSorting') /\ Len(gateSorting') \in Nat
      /\ Len(gateSorting) <= Len(gateSorting')
      /\ \A i \in 1 .. Len(gateSorting) : gateSorting'[i] = gateSorting[i]
      /\ \A i \in Len(gateSorting) + 1 .. Len(gateSorting') :
            dfs_state[gateSorting'[i]] = "UNVISITED"
  <2>1. CASE dfs_state[idx] = "UNVISITED"
    <3>1. gateSorting' = Append(gateSorting, idx)
      BY <1>1, <2>1
    <3>2. idx \in GateIds(circuit)
      BY DEF Rest, TypeInv, TypeOK, GateIds
    <3>3. Len(gateSorting') = Len(gateSorting) + 1
      BY <1>1, <3>1, <3>2
    <3>. QED
      BY <1>1, <2>1, <3>1, <3>2, <3>3
  <2>2. CASE dfs_state[idx] # "UNVISITED"
    BY <1>1, <2>2
  <2>. QED
    BY <2>1, <2>2
<1>3. EnteredOnStack' /\ PendingBelowEntered'
  BY <1>1 DEF EnteredOnStack, PendingBelowEntered, NothingEntered
<1>4. OperandsVisited' /\ NothingEntered' /\ OperandBefore'
  BY <1>1 DEF OperandsVisited, NothingEntered, OperandBefore
<1>5. VisitedRecorded'
  BY <1>1, <1>2 DEF VisitedRecorded
<1>6. SortIsTopological'
  <2> SUFFICES ASSUME NEW i \in DOMAIN gateSorting', dfs_state[gateSorting'[i]] = "VISITED",
                      NEW o \in OperandSet(circuit, gateSorting'[i])
               PROVE  \E j \in i + 1 .. Len(gateSorting') : gateSorting'[j] = o
    BY <1>1 DEF SortIsTopological
  <2>1. i \in 1 .. Len(gateSorting)
    BY <1>2
  <2>2. PICK j \in i + 1 .. Len(gateSorting) : gateSorting[j] = o
    BY <1>1, <1>2, <2>1 DEF SortIsTopological
  <2>. QED
    BY <1>2, <2>1, <2>2
<1>. QED
  BY <1>3, <1>4, <1>5, <1>6

(* One step of the search keeps the invariant.                              *)
LEMMA SearchInvStep == SearchInv /\ TypeInv' /\ [Next]_vars => SearchInv'
<1> SUFFICES ASSUME SearchInv, TypeInv', [Next]_vars
             PROVE  SearchInv'
  OBVIOUS
<1>1. CASE Return
  BY <1>1 DEF Return, SearchInv, EnteredOnStack, HoldsPlace, PendingBelowEntered, OperandsVisited,
              NothingEntered, VisitedRecorded, OperandBefore, SortIsTopological
<1>2. CASE UNCHANGED vars
  BY <1>2 DEF vars, SearchInv, EnteredOnStack, HoldsPlace, PendingBelowEntered, OperandsVisited,
              NothingEntered, VisitedRecorded, OperandBefore, SortIsTopological
<1>. QED
  BY <1>1, <1>2, StartKeeps, EnterKeeps, EnqueueOperandKeeps, LeaveKeeps, SkipKeeps,
     OverKeeps, RestKeeps DEF Next

(* The whole inductive invariant: at every moment of the search, whatever  *)
(* is on the stack several times, entered gates hold their place on it and  *)
(* the record has operands before users.                                    *)
THEOREM SearchCorrect == Spec => []SearchInv
<1>1. SearchInv /\ [Next]_vars /\ TypeInv' => SearchInv'
  BY SearchInvStep
<1>. QED
  BY <1>1, SearchInvInit, TypeInvHolds, PTL DEF Spec

(* For every acyclic circuit and all start gates, a visited gate stands     *)
(* before all of its operands in the sorting that the search returns.       *)
THEOREM SortingIsTopological == Spec => []SortIsTopological
<1>1. SearchInv => SortIsTopological
  BY DEF SearchInv
<1>. QED
  BY <1>1, SearchCorrect, PTL

------------------------------------------------------------------------------
(* The second invariant, on top of the first: what the search touches is    *)
(* reachable from the start gates, no start gate is forgotten, and each     *)
(* gate is recorded once.                                                   *)
StartSet == {startGates[i] : i \in DOMAIN startGates}
Reached  == Cone(circuit, StartSet)

(* The search meets no gate that no start gate leads to.                    *)
OnlyReached ==
    /\ \A k \in DOMAIN starts : starts[k] \in Reached
    /\ \A k \in DOMAIN stack : stack[k] \in Reached
    /\ \A k \in DOMAIN pending : pending[k] \in Reached
    /\ \A g \in GateIds(circuit) : dfs_state[g] # "UNVISITED" => g \in Reached

(* A start gate is waiting, on the stack, or entered.                       *)
StartsSeen ==
    \A g \in StartSet :
        \/ \E k \in DOMAIN starts : starts[k] = g
        \/ \E k \in DOMAIN stack : stack[k] = g
        \/ dfs_state[g] # "UNVISITED"

(* The search goes on until nothing is left to do.                          *)
SearchedAll == pc # "search" => stack = <<>> /\ starts = <<>>

(* g has its place in the order.                                            *)
IsRecorded(g) == \E i \in DOMAIN gateSorting : gateSorting[i] = g

(* No gate is recorded twice: the search records a gate when it leaves it,  *)
(* the last loop those it has not visited, by ascending id.                 *)
RecordedOnce ==
    /\ \A i, j \in DOMAIN gateSorting : gateSorting[i] = gateSorting[j] => i = j
    /\ \A i \in DOMAIN gateSorting :
          dfs_state[gateSorting[i]] = "VISITED" \/ (pc # "search" /\ gateSorting[i] < idx)
    /\ pc # "search" => \A g \in 1 .. idx - 1 : dfs_state[g] = "UNVISITED" => IsRecorded(g)
    /\ pc = "search" => idx = 1
    /\ pc = "done" => idx > Len(circuit.gates)

(* The second inductive invariant.                                          *)
ReachInv ==
    /\ SearchInv
    /\ OnlyReached
    /\ StartsSeen
    /\ SearchedAll
    /\ RecordedOnce

(* The gates reached from the start gates, as ConeProperties describes      *)
(* them.                                                                    *)
LEMMA ReachedFacts ==
    ASSUME TypeInv
    PROVE  /\ StartSet \subseteq Reached
           /\ Reached \subseteq GateIds(circuit)
           /\ \A g \in Reached : OperandSet(circuit, g) \subseteq Reached
           /\ \A T : StartSet \subseteq T /\ (\A g \in T : OperandSet(circuit, g) \subseteq T)
                       => Reached \subseteq T
<1>1. OperandsInside(circuit)
  BY CircuitFacts DEF OperandsInside
<1>2. StartSet \in SUBSET GateIds(circuit)
  BY DEF StartSet, TypeInv, TypeOK
<1>. QED
  BY <1>1, <1>2, ConeProperties DEF Reached, IsClosed

(* It holds before the search ...                                           *)
LEMMA ReachInvInit == Init => ReachInv
<1> SUFFICES ASSUME Init PROVE ReachInv
  OBVIOUS
<1>1. SearchInv /\ TypeInv
  BY SearchInvInit, TypeInvInit
<1>2. \A k \in DOMAIN startGates : startGates[k] \in Reached
  BY <1>1, ReachedFacts DEF StartSet
<1>3. OnlyReached
  BY <1>2 DEF Init, OnlyReached
<1>4. StartsSeen /\ SearchedAll /\ RecordedOnce
  BY DEF Init, StartsSeen, StartSet, SearchedAll, RecordedOnce
<1>. QED
  BY <1>1, <1>3, <1>4 DEF ReachInv

(* ... when a start gate is taken, ...                                      *)
LEMMA ReachStartKeeps ==
    ASSUME ReachInv, SearchInv', Start
    PROVE  ReachInv'
<1> USE DEF ReachInv
<1>1. /\ UNCHANGED <<circuit, startGates, pending, dfs_state, gateSorting, idx, pc>> /\ pc = "search"
      /\ starts \in Seq(GateIds(circuit)) /\ starts # <<>> /\ stack = <<>>
      /\ starts' = Tail(starts)
      /\ stack' = IF dfs_state[Head(starts)] = "UNVISITED" THEN <<Head(starts)>> ELSE <<>>
  BY DEF Start, Enqueue, SearchInv, TypeInv, TypeOK
<1>2. Reached' = Reached /\ StartSet' = StartSet
  BY <1>1 DEF Reached, StartSet
<1>3. /\ DOMAIN Tail(starts) = 1 .. Len(starts) - 1
      /\ \A k \in 1 .. Len(starts) - 1 : Tail(starts)[k] = starts[k + 1]
      /\ DOMAIN starts = 1 .. Len(starts) /\ Len(starts) \in Nat /\ Len(starts) > 0
      /\ Head(starts) = starts[1]
  BY <1>1
<1>4. OnlyReached'
  <2>1. \A k \in DOMAIN Tail(starts) : Tail(starts)[k] \in Reached
    BY <1>3 DEF OnlyReached
  <2>2. \A k \in DOMAIN stack' : stack'[k] \in Reached
    BY <1>1, <1>3 DEF OnlyReached
  <2>. QED
    BY <1>1, <1>2, <2>1, <2>2 DEF OnlyReached
<1>5. ASSUME NEW g \in StartSet
      PROVE  \/ \E k \in DOMAIN starts' : starts'[k] = g
             \/ \E k \in DOMAIN stack' : stack'[k] = g
             \/ dfs_state[g] # "UNVISITED"
  <2>1. CASE \E k \in DOMAIN starts : starts[k] = g
    <3>1. PICK k \in DOMAIN starts : starts[k] = g
      BY <2>1
    <3>2. CASE k = 1
      BY <1>1, <1>3, <3>1, <3>2
    <3>3. CASE k # 1
      <4>1. k - 1 \in 1 .. Len(starts) - 1 /\ (k - 1) + 1 = k
        BY <1>3, <3>3
      <4>2. k - 1 \in DOMAIN Tail(starts) /\ Tail(starts)[k - 1] = g
        BY <1>3, <3>1, <4>1
      <4>. QED
        BY <1>1, <4>2
    <3>. QED
      BY <3>2, <3>3
  <2>. QED
    BY <1>1, <2>1 DEF StartsSeen
<1>6. StartsSeen'
  BY <1>1, <1>2, <1>5 DEF StartsSeen
<1>7. SearchedAll' /\ RecordedOnce'
  BY <1>1 DEF SearchedAll, RecordedOnce, IsRecorded
<1>. QED
  BY <1>4, <1>6, <1>7

(* ... when a gate is entered, ...                                          *)
LEMMA ReachEnterKeeps ==
    ASSUME ReachInv, SearchInv', Enter
    PROVE  ReachInv'
<1> USE DEF ReachInv
<1>1. /\ UNCHANGED <<circuit, startGates, starts, stack, gateSorting, idx, pc>> /\ pc = "search"
      /\ Top \in GateIds(circuit) /\ Top \in Reached
      /\ pending' = Operands(circuit, Top)
      /\ dfs_state \in [GateIds(circuit) -> DFSStates]
      /\ dfs_state[Top] = "UNVISITED" /\ dfs_state' = [dfs_state EXCEPT ![Top] = "ENTERED"]
  BY DEF Enter, SearchInv, TypeInv, TypeOK, Top, OnlyReached
<1>2. Reached' = Reached /\ StartSet' = StartSet
  BY <1>1 DEF Reached, StartSet
<1>3. OnlyReached'
  <2>1. \A k \in DOMAIN pending' : pending'[k] \in Reached
    <3>1. OperandSet(circuit, Top) \subseteq Reached
      BY <1>1, ReachedFacts DEF SearchInv
    <3>. QED
      BY <1>1, <3>1 DEF OperandSet
  <2>. QED
    BY <1>1, <1>2, <2>1 DEF OnlyReached
<1>4. StartsSeen'
  <2>1. StartSet \subseteq GateIds(circuit)
    BY DEF StartSet, SearchInv, TypeInv, TypeOK
  <2>. QED
    BY <1>1, <1>2, <2>1 DEF StartsSeen
<1>5. SearchedAll' /\ RecordedOnce'
  <2>1. \A k \in DOMAIN gateSorting : gateSorting[k] \in GateIds(circuit)
    BY DEF SearchInv, TypeInv, TypeOK
  <2>. QED
    BY <1>1, <2>1 DEF SearchedAll, RecordedOnce, IsRecorded
<1>. QED
  BY <1>3, <1>4, <1>5

(* ... when an operand of the gate entered is put on the stack, ...         *)
LEMMA ReachEnqueueOperandKeeps ==
    ASSUME ReachInv, SearchInv', EnqueueOperand
    PROVE  ReachInv'
<1> USE DEF ReachInv
<1> DEFINE last == pending[Len(pending)]
<1>1. /\ UNCHANGED <<circuit, startGates, starts, dfs_state, gateSorting, idx, pc>> /\ pc = "search"
      /\ stack \in Seq(GateIds(circuit)) /\ pending \in Seq(GateIds(circuit))
      /\ Len(pending) \in Nat \ {0} /\ last \in GateIds(circuit)
      /\ pending' = SubSeq(pending, 1, Len(pending) - 1)
      /\ stack' = IF dfs_state[last] = "UNVISITED" THEN Append(stack, last) ELSE stack
  BY DEF EnqueueOperand, Enqueue, SearchInv, TypeInv, TypeOK
<1>2. Reached' = Reached /\ StartSet' = StartSet
  BY <1>1 DEF Reached, StartSet
<1>3. /\ DOMAIN pending' = 1 .. Len(pending) - 1
      /\ \A j \in 1 .. Len(pending) - 1 : pending'[j] = pending[j]
  BY <1>1
<1>4. /\ \A k \in DOMAIN stack : k \in DOMAIN stack' /\ stack'[k] = stack[k]
      /\ \A k \in DOMAIN stack' : k \in DOMAIN stack \/ stack'[k] = last
  BY <1>1
<1>5. OnlyReached'
  <2>1. \A k \in DOMAIN pending' : pending'[k] \in Reached
    BY <1>1, <1>3 DEF OnlyReached
  <2>2. \A k \in DOMAIN stack' : stack'[k] \in Reached
    BY <1>1, <1>4 DEF OnlyReached
  <2>. QED
    BY <1>1, <1>2, <2>1, <2>2 DEF OnlyReached
<1>6. StartsSeen'
  BY <1>1, <1>2, <1>4 DEF StartsSeen
<1>7. SearchedAll' /\ RecordedOnce'
  BY <1>1 DEF SearchedAll, RecordedOnce, IsRecorded
<1>. QED
  BY <1>5, <1>6, <1>7

(* What both kinds of pops keep: the gate that goes was visited.            *)
LEMMA ReachPopKeeps ==
    ASSUME ReachInv, SearchInv', stack # <<>>, stack' = Pop, pc = "search",
           dfs_state'[Top] = "VISITED",
           \A g \in GateIds(circuit) : g # Top => dfs_state'[g] = dfs_state[g],
           UNCHANGED <<circuit, startGates, starts, pending, idx, pc>>,
           dfs_state[Top] # "UNVISITED"
    PROVE  OnlyReached' /\ StartsSeen' /\ SearchedAll'
<1> USE DEF ReachInv
<1>1. /\ stack \in Seq(GateIds(circuit)) /\ Len(stack) \in Nat /\ Len(stack) # 0
      /\ Top \in GateIds(circuit) /\ Top = stack[Len(stack)]
      /\ StartSet \subseteq GateIds(circuit)
  BY DEF SearchInv, TypeInv, TypeOK, Top, StartSet
<1>2. Reached' = Reached /\ StartSet' = StartSet
  BY DEF Reached, StartSet
<1>3. /\ DOMAIN stack' = 1 .. Len(stack) - 1
      /\ \A k \in 1 .. Len(stack) - 1 : stack'[k] = stack[k]
      /\ DOMAIN stack = 1 .. Len(stack)
  <2>1. Len(stack') = Len(stack) - 1 /\ \A k \in 1 .. Len(stack) - 1 : stack'[k] = stack[k]
    BY <1>1, PopFacts DEF Pop
  <2>2. stack' \in Seq(GateIds(circuit)')
    BY DEF SearchInv, TypeInv, TypeOK
  <2>. QED
    BY <1>1, <2>1, <2>2
<1>4. OnlyReached'
  <2>1. \A k \in DOMAIN stack' : stack'[k] \in Reached
    BY <1>1, <1>3 DEF OnlyReached
  <2>2. Top \in Reached
    BY <1>1, <1>3 DEF OnlyReached
  <2>. QED
    BY <1>2, <2>1, <2>2 DEF OnlyReached
<1>5. StartsSeen'
  <2> SUFFICES ASSUME NEW g \in StartSet
               PROVE  \/ \E k \in DOMAIN starts : starts[k] = g
                      \/ \E k \in DOMAIN stack' : stack'[k] = g
                      \/ dfs_state'[g] # "UNVISITED"
    BY <1>2 DEF StartsSeen
  <2>1. CASE g = Top
    BY <2>1
  <2>2. CASE g # Top
    <3>1. \A k \in DOMAIN stack : stack[k] = g => k \in DOMAIN stack' /\ stack'[k] = g
      BY <1>1, <1>3, <2>2
    <3>2. dfs_state'[g] = dfs_state[g]
      BY <1>1, <2>2
    <3>. QED
      BY <3>1, <3>2 DEF StartsSeen
  <2>. QED
    BY <2>1, <2>2
<1>6. SearchedAll'
  BY DEF SearchedAll
<1>. QED
  BY <1>4, <1>5, <1>6

(* ... when a gate is left and recorded, ...                                *)
LEMMA ReachLeaveKeeps ==
    ASSUME ReachInv, SearchInv', Leave
    PROVE  ReachInv'
<1> USE DEF ReachInv
<1>1. /\ UNCHANGED <<circuit, startGates, starts, pending, idx, pc>> /\ pc = "search"
      /\ stack # <<>> /\ stack' = Pop /\ Top \in GateIds(circuit)
      /\ dfs_state \in [GateIds(circuit) -> DFSStates]
      /\ dfs_state[Top] = "ENTERED" /\ dfs_state' = [dfs_state EXCEPT ![Top] = "VISITED"]
      /\ gateSorting \in Seq(GateIds(circuit)) /\ gateSorting' = Append(gateSorting, Top)
  BY DEF Leave, SearchInv, TypeInv, TypeOK, Top
<1>2. OnlyReached' /\ StartsSeen' /\ SearchedAll'
  BY <1>1, ReachPopKeeps
<1>3. \A i \in DOMAIN gateSorting : gateSorting[i] # Top /\ dfs_state[gateSorting[i]] = "VISITED"
  BY <1>1 DEF RecordedOnce
<1>4. /\ DOMAIN gateSorting' = 1 .. Len(gateSorting) + 1
      /\ DOMAIN gateSorting = 1 .. Len(gateSorting) /\ Len(gateSorting) \in Nat
      /\ \A i \in 1 .. Len(gateSorting) : gateSorting'[i] = gateSorting[i]
      /\ gateSorting'[Len(gateSorting) + 1] = Top
  BY <1>1
<1>5. \A i, j \in DOMAIN gateSorting' : gateSorting'[i] = gateSorting'[j] => i = j
  <2> SUFFICES ASSUME NEW i \in DOMAIN gateSorting', NEW j \in DOMAIN gateSorting',
                      gateSorting'[i] = gateSorting'[j]
               PROVE  i = j
    OBVIOUS
  <2>1. (i \in DOMAIN gateSorting \/ i = Len(gateSorting) + 1)
        /\ (j \in DOMAIN gateSorting \/ j = Len(gateSorting) + 1)
    BY <1>4
  <2>2. CASE i \in DOMAIN gateSorting /\ j \in DOMAIN gateSorting
    BY <1>4, <2>2 DEF RecordedOnce
  <2>3. CASE i = Len(gateSorting) + 1 \/ j = Len(gateSorting) + 1
    BY <1>3, <1>4, <2>1, <2>3
  <2>. QED
    BY <2>1, <2>2, <2>3
<1>6. \A i \in DOMAIN gateSorting' : dfs_state'[gateSorting'[i]] = "VISITED"
  <2> SUFFICES ASSUME NEW i \in DOMAIN gateSorting' PROVE dfs_state'[gateSorting'[i]] = "VISITED"
    OBVIOUS
  <2>1. CASE i \in DOMAIN gateSorting
    BY <1>1, <1>3, <1>4, <2>1
  <2>2. CASE i = Len(gateSorting) + 1
    BY <1>1, <1>4, <2>2
  <2>. QED
    BY <1>4, <2>1, <2>2
<1>7. RecordedOnce'
  BY <1>1, <1>5, <1>6 DEF RecordedOnce
<1>. QED
  BY <1>2, <1>7

(* ... when a gate visited meanwhile is dropped, ...                        *)
LEMMA ReachSkipKeeps ==
    ASSUME ReachInv, SearchInv', Skip
    PROVE  ReachInv'
<1> USE DEF ReachInv
<1>1. /\ UNCHANGED <<circuit, startGates, starts, pending, dfs_state, gateSorting, idx, pc>>
      /\ pc = "search" /\ stack # <<>> /\ stack' = Pop /\ dfs_state[Top] = "VISITED"
  BY DEF Skip
<1>2. OnlyReached' /\ StartsSeen' /\ SearchedAll'
  BY <1>1, ReachPopKeeps
<1>3. RecordedOnce'
  BY <1>1 DEF RecordedOnce, IsRecorded
<1>. QED
  BY <1>2, <1>3

(* ... when nothing is left on the stack nor of the start gates, ...        *)
LEMMA ReachOverKeeps ==
    ASSUME ReachInv, SearchInv', Over
    PROVE  ReachInv'
<1> USE DEF ReachInv
<1> DEFINE n == Len(gateSorting)
<1>1. /\ UNCHANGED <<circuit, startGates, starts, stack, pending, dfs_state, idx>>
      /\ pc = "search" /\ pc' = "rest" /\ stack = <<>> /\ starts = <<>> /\ idx = 1
      /\ gateSorting' = [i \in 1 .. n |-> gateSorting[n - i + 1]]
      /\ gateSorting \in Seq(GateIds(circuit)) /\ n \in Nat /\ DOMAIN gateSorting = 1 .. n
  BY DEF Over, RecordedOnce, SearchInv, TypeInv, TypeOK
<1>2. Reached' = Reached /\ StartSet' = StartSet
  BY <1>1 DEF Reached, StartSet
<1>3. OnlyReached' /\ StartsSeen' /\ SearchedAll'
  BY <1>1, <1>2 DEF OnlyReached, StartsSeen, SearchedAll
<1>4. DOMAIN gateSorting' = 1 .. n
      /\ \A i \in 1 .. n : n - i + 1 \in 1 .. n /\ gateSorting'[i] = gateSorting[n - i + 1]
  BY <1>1
<1>5. \A i \in 1 .. n : dfs_state[gateSorting[i]] = "VISITED"
  BY <1>1 DEF RecordedOnce
<1>6. ASSUME NEW i \in 1 .. n, NEW j \in 1 .. n, gateSorting'[i] = gateSorting'[j] PROVE i = j
  <2>1. n - i + 1 = n - j + 1
    BY <1>1, <1>4, <1>6 DEF RecordedOnce
  <2>. QED
    BY <1>1, <2>1
<1>7. RecordedOnce'
  BY <1>1, <1>4, <1>5, <1>6 DEF RecordedOnce
<1>. QED
  BY <1>3, <1>7

(* ... and when the last loop appends what the search has not visited.      *)
LEMMA ReachRestKeeps ==
    ASSUME ReachInv, SearchInv', Rest
    PROVE  ReachInv'
<1> USE DEF ReachInv
<1> DEFINE n == Len(gateSorting)
<1>1. /\ UNCHANGED <<circuit, startGates, starts, stack, pending, dfs_state, pc>>
      /\ pc = "rest" /\ idx \in 1 .. Len(circuit.gates) + 1 /\ idx' = idx + 1
      /\ gateSorting' = IF dfs_state[idx] = "UNVISITED" THEN Append(gateSorting, idx) ELSE gateSorting
      /\ gateSorting \in Seq(GateIds(circuit)) /\ n \in Nat /\ DOMAIN gateSorting = 1 .. n
      /\ idx \in Nat /\ \A i \in 1 .. n : gateSorting[i] \in Nat
      /\ dfs_state \in [GateIds(circuit) -> DFSStates] /\ idx \in GateIds(circuit)
  <2>1. Len(circuit.gates) \in Nat
    BY CircuitFacts DEF SearchInv
  <2>2. /\ gateSorting \in Seq(GateIds(circuit)) /\ dfs_state \in [GateIds(circuit) -> DFSStates]
        /\ idx \in 1 .. Len(circuit.gates) + 1
    BY DEF SearchInv, TypeInv, TypeOK
  <2>3. n \in Nat /\ DOMAIN gateSorting = 1 .. n /\ \A i \in 1 .. n : gateSorting[i] \in GateIds(circuit)
    BY <2>2
  <2>4. idx \in Nat /\ idx \in GateIds(circuit) /\ GateIds(circuit) \subseteq Nat
    BY <2>1, <2>2 DEF Rest, GateIds
  <2>. QED
    BY <2>2, <2>3, <2>4 DEF Rest
<1>2. Reached' = Reached /\ StartSet' = StartSet
  BY <1>1 DEF Reached, StartSet
<1>3. OnlyReached' /\ StartsSeen' /\ SearchedAll'
  BY <1>1, <1>2 DEF OnlyReached, StartsSeen, SearchedAll
<1>4. /\ \A i, j \in 1 .. n : gateSorting[i] = gateSorting[j] => i = j
      /\ \A i \in 1 .. n : dfs_state[gateSorting[i]] = "VISITED" \/ gateSorting[i] < idx
      /\ \A g \in 1 .. idx - 1 : dfs_state[g] = "UNVISITED" => IsRecorded(g)
  BY <1>1 DEF RecordedOnce
<1>5. \A g \in 1 .. idx' - 1 : g \in 1 .. idx - 1 \/ g = idx
  BY <1>1
<1>6. CASE dfs_state[idx] = "UNVISITED"
  <2>1. /\ DOMAIN gateSorting' = 1 .. n + 1 /\ gateSorting'[n + 1] = idx
        /\ \A i \in 1 .. n : gateSorting'[i] = gateSorting[i]
        /\ \A i \in 1 .. n + 1 : i \in 1 .. n \/ i = n + 1
    BY <1>1, <1>6
  <2>2. \A i \in 1 .. n : gateSorting[i] # idx
    BY <1>1, <1>4, <1>6
  <2>3. ASSUME NEW i \in 1 .. n + 1, NEW j \in 1 .. n + 1, gateSorting'[i] = gateSorting'[j]
        PROVE  i = j
    <3>1. CASE i \in 1 .. n /\ j \in 1 .. n
      BY <1>4, <2>1, <2>3, <3>1
    <3>2. CASE i = n + 1 \/ j = n + 1
      BY <2>1, <2>2, <2>3, <3>2
    <3>. QED
      BY <2>1, <3>1, <3>2
  <2>4. ASSUME NEW i \in 1 .. n + 1
        PROVE  dfs_state[gateSorting'[i]] = "VISITED" \/ gateSorting'[i] < idx'
    <3>1. CASE i = n + 1
      BY <1>1, <2>1, <3>1
    <3>2. CASE i \in 1 .. n
      <4>1. gateSorting'[i] = gateSorting[i] /\ gateSorting[i] \in Nat
            /\ (dfs_state[gateSorting[i]] = "VISITED" \/ gateSorting[i] < idx)
        BY <1>1, <1>4, <2>1, <3>2
      <4>. QED
        BY <1>1, <4>1
    <3>. QED
      BY <2>1, <3>1, <3>2
  <2>5. ASSUME NEW g \in 1 .. idx' - 1, dfs_state[g] = "UNVISITED" PROVE IsRecorded(g)'
    <3>1. CASE g = idx
      <4>1. n + 1 \in DOMAIN gateSorting' /\ gateSorting'[n + 1] = g
        BY <1>1, <2>1, <3>1
      <4>. QED
        BY <4>1 DEF IsRecorded
    <3>2. CASE g \in 1 .. idx - 1
      <4>1. PICK i \in 1 .. n : gateSorting[i] = g
        BY <1>1, <1>4, <2>5, <3>2 DEF IsRecorded
      <4>2. i \in 1 .. n + 1 /\ gateSorting'[i] = g
        BY <1>1, <2>1, <4>1
      <4>. QED
        BY <2>1, <4>2 DEF IsRecorded
    <3>. QED
      BY <1>5, <3>1, <3>2
  <2>. QED
    BY <1>1, <1>3, <2>1, <2>3, <2>4, <2>5 DEF RecordedOnce
<1>7. CASE dfs_state[idx] # "UNVISITED"
  <2>1. gateSorting' = gateSorting
    BY <1>1, <1>7
  <2>2. ASSUME NEW i \in 1 .. n
        PROVE  dfs_state[gateSorting[i]] = "VISITED" \/ gateSorting[i] < idx'
    BY <1>1, <1>4
  <2>3. ASSUME NEW g \in 1 .. idx' - 1, dfs_state[g] = "UNVISITED" PROVE IsRecorded(g)'
    BY <1>4, <1>5, <1>7, <2>1, <2>3 DEF IsRecorded
  <2>. QED
    BY <1>1, <1>3, <1>4, <2>1, <2>2, <2>3 DEF RecordedOnce
<1>. QED
  BY <1>6, <1>7

(* Hence every step keeps it.                                               *)
LEMMA ReachInvStep == ReachInv /\ SearchInv' /\ [Next]_vars => ReachInv'
<1> SUFFICES ASSUME ReachInv, SearchInv', [Next]_vars
             PROVE  ReachInv'
  OBVIOUS
<1>1. CASE Return
  <2>1. /\ UNCHANGED <<circuit, startGates, starts, stack, pending, dfs_state, gateSorting, idx>>
        /\ pc = "rest" /\ pc' = "done" /\ idx > Len(circuit.gates)
    BY <1>1 DEF Return
  <2>. QED
    BY <2>1 DEF ReachInv, OnlyReached, StartsSeen, SearchedAll, RecordedOnce, IsRecorded, Reached, StartSet
<1>2. CASE UNCHANGED vars
  BY <1>2 DEF vars, ReachInv, OnlyReached, StartsSeen, SearchedAll, RecordedOnce, IsRecorded, Reached, StartSet
<1>. QED
  BY <1>1, <1>2, ReachStartKeeps, ReachEnterKeeps, ReachEnqueueOperandKeeps, ReachLeaveKeeps,
     ReachSkipKeeps, ReachOverKeeps, ReachRestKeeps DEF Next

(* The invariant of the whole search: only gates that the start gates need  *)
(* are touched, no start gate is forgotten, no gate is recorded twice.      *)
THEOREM SearchReaches == Spec => []ReachInv
<1>1. ReachInv /\ SearchInv' /\ [Next]_vars => ReachInv'
  BY ReachInvStep
<1>. QED
  BY <1>1, ReachInvInit, SearchCorrect, PTL DEF Spec

(* When the search is over the visited gates are the cone of the start      *)
(* gates: they hold the start gates and are closed, so they hold the least  *)
(* closed set that does.                                                    *)
LEMMA VisitedIsReached ==
    ASSUME ReachInv, pc # "search"
    PROVE  /\ \A g \in GateIds(circuit) : dfs_state[g] # "ENTERED"
           /\ {g \in GateIds(circuit) : dfs_state[g] # "UNVISITED"} = Reached
<1> USE DEF ReachInv, SearchInv
<1> DEFINE Visited == {g \in GateIds(circuit) : dfs_state[g] # "UNVISITED"}
<1>1. \A g \in GateIds(circuit) : dfs_state[g] # "ENTERED"
  BY DEF NothingEntered
<1>2. \A g \in Visited : dfs_state[g] = "VISITED"
  BY <1>1 DEF TypeInv, TypeOK, DFSStates
<1>3. StartSet \subseteq Visited
  <2>1. StartSet \subseteq GateIds(circuit)
    BY DEF StartSet, TypeInv, TypeOK
  <2>. QED
    BY <2>1 DEF StartsSeen, SearchedAll
<1>4. \A g \in Visited : OperandSet(circuit, g) \subseteq Visited
  BY <1>2, CircuitFacts DEF OperandsVisited
<1>5. Reached \subseteq Visited
  <2> HIDE DEF Visited
  <2>. QED
    BY <1>3, <1>4, ReachedFacts
<1>6. Visited \subseteq Reached
  BY DEF OnlyReached
<1>. QED
  BY <1>1, <1>5, <1>6

(* The mask of visited gates is exactly what the start gates need.          *)
THEOREM MaskOfCone == Spec => []MaskIsCone
<1>1. ReachInv => MaskIsCone
  BY VisitedIsReached DEF MaskIsCone, Reached, StartSet
<1>. QED
  BY <1>1, SearchReaches, PTL

(* On an acyclic circuit the sources reach every gate: from a gate that     *)
(* they do not reach one could climb from user to user for ever, although   *)
(* the ranks are bounded.                                                   *)
LEMMA SourcesReachAll ==
    ASSUME TypeInv, startGates = Sources(circuit)
    PROVE  Reached = GateIds(circuit)
<1> DEFINE n == Len(circuit.gates)
<1>1. n \in Nat /\ GateIds(circuit) = 1 .. n
  BY CircuitFacts DEF GateIds
<1>2. \A g \in 1 .. n : Rank(circuit)[g] \in Nat
  BY <1>1, CircuitFacts
<1>3. PICK b \in Nat : \A g \in 1 .. n : Rank(circuit)[g] <= b
  <2> HIDE DEF n
  <2>. QED
    BY <1>1, <1>2, BoundedRanks
<1> DEFINE height == [g \in GateIds(circuit) |-> b - Rank(circuit)[g]]
<1>4. \A g \in GateIds(circuit) : height[g] \in Nat
  BY <1>1, <1>2, <1>3
<1>5. ASSUME NEW g \in GateIds(circuit),
             \A u \in GateIds(circuit) : height[u] < height[g] => u \in Reached
      PROVE  g \in Reached
  <2>1. CASE HasUsers(circuit, g)
    <3>1. PICK u \in GateIds(circuit) : g \in OperandSet(circuit, u)
      BY <2>1 DEF HasUsers
    <3>2. /\ Rank(circuit)[g] < Rank(circuit)[u]
          /\ Rank(circuit)[g] \in Nat /\ Rank(circuit)[u] \in Nat
      BY <3>1, CircuitFacts
    <3>3. height[u] < height[g]
      BY <3>2
    <3>. QED
      BY <1>5, <3>1, <3>3, ReachedFacts
  <2>2. CASE ~HasUsers(circuit, g)
    <3>1. g \in StartSet
      BY <1>1, <2>2, SourcesFacts DEF StartSet
    <3>. QED
      BY <3>1, ReachedFacts
  <2>. QED
    BY <2>1, <2>2
<1>6. GateIds(circuit) \subseteq Reached
  <2> HIDE DEF height
  <2>. QED
    BY <1>4, <1>5, RankInduction
<1>. QED
  BY <1>6, ReachedFacts

(* From the sources the search returns every gate once, users before their  *)
(* operands: the order in which all the transformers go through a circuit.  *)
THEOREM SortsEveryGate == Spec => []SortsAllGates
<1>1. ReachInv => SortsAllGates
  <2> SUFFICES ASSUME ReachInv, pc = "done", startGates = Sources(circuit)
               PROVE  IsTopSort(circuit, gateSorting)
    BY DEF SortsAllGates
  <2> USE DEF ReachInv, SearchInv
  <2> DEFINE n == Len(circuit.gates)
             m == Len(gateSorting)
  <2>1. /\ n \in Nat /\ GateIds(circuit) = 1 .. n
        /\ gateSorting \in Seq(1 .. n) /\ m \in Nat /\ DOMAIN gateSorting = 1 .. m
    BY CircuitFacts DEF GateIds, TypeInv, TypeOK
  <2>2. \A g \in GateIds(circuit) : dfs_state[g] = "VISITED"
    BY SourcesReachAll, VisitedIsReached DEF TypeInv, TypeOK, DFSStates
  <2>3. \A g \in 1 .. n : \E i \in 1 .. m : gateSorting[i] = g
    BY <2>1, <2>2 DEF VisitedRecorded
  <2>4. \A i, j \in 1 .. m : gateSorting[i] = gateSorting[j] => i = j
    BY <2>1 DEF RecordedOnce
  <2>5. gateSorting \in [1 .. m -> 1 .. n]
    BY <2>1
  <2>6. m = n
    <3> HIDE DEF m, n
    <3>. QED
      BY <2>1, <2>3, <2>4, <2>5, PermutationLength, SMTT(60)
  <2>7. {gateSorting[i] : i \in DOMAIN gateSorting} = GateIds(circuit)
    BY <2>1, <2>3, <2>5
  <2>8. ASSUME NEW i \in DOMAIN gateSorting, NEW j \in DOMAIN gateSorting,
               gateSorting[j] \in OperandSet(circuit, gateSorting[i])
        PROVE  i < j
    <3>1. dfs_state[gateSorting[i]] = "VISITED"
      BY <2>1, <2>2, <2>5
    <3>2. PICK k \in i + 1 .. m : gateSorting[k] = gateSorting[j]
      BY <2>8, <3>1 DEF SortIsTopological
    <3>3. k \in 1 .. m /\ j \in 1 .. m /\ i \in 1 .. m
      BY <2>1, <3>2
    <3>4. k = j
      BY <2>4, <3>2, <3>3
    <3>. QED
      BY <2>1, <3>2, <3>3, <3>4
  <2>. QED
    BY <2>6, <2>7, <2>8 DEF IsTopSort
<1>. QED
  BY <1>1, SearchReaches, PTL

------------------------------------------------------------------------------
(* The third invariant: what is still to be done leads to the postorder     *)
(* that TopSort defines.  Of the entries of the stack, taken from the top,  *)
(* the uppermost of a gate that was entered is where the gate will be       *)
(* recorded; any other entry is a visit of its gate.                        *)
VisitOf(c) ==
    CHOOSE visit : /\ IsVisit(c, visit)
                   /\ \A s : Postorder(c, s) = VisitAll(visit, s, <<>>)

IsLeftAt(i) ==
    /\ dfs_state[stack[i]] = "ENTERED"
    /\ \A j \in i + 1 .. Len(stack) : stack[j] # stack[i]

(* plan[i] is the record when the entries above i will have been taken.     *)
IsPlan(plan) ==
    /\ plan \in [0 .. Len(stack) -> Seq(GateIds(circuit))]
    /\ plan[Len(stack)] = VisitAll(VisitOf(circuit), pending, gateSorting)
    /\ \A i \in 1 .. Len(stack) :
          plan[i - 1] = IF IsLeftAt(i) THEN Append(plan[i], stack[i])
                                       ELSE VisitOf(circuit)[stack[i]][plan[i]]

Planned == pc = "search" =>
    /\ stack = <<>> => pending = <<>>
    /\ \E plan : /\ IsPlan(plan)
                 /\ VisitAll(VisitOf(circuit), starts, plan[0]) = Postorder(circuit, startGates)

Reversal(left) == [i \in 1 .. Len(left) |-> left[Len(left) + 1 - i]]

(* After the search the loop over all gates appends what SortFrom does.     *)
Appended == pc # "search" =>
    LET left == Postorder(circuit, startGates)
    IN  /\ left \in Seq(GateIds(circuit))
        /\ \A g \in GateIds(circuit) : Leaves(left, g) <=> dfs_state[g] # "UNVISITED"
        /\ \E rest :
              /\ IsRest(rest, circuit, left)
              /\ rest[idx - 1] \in Seq(GateIds(circuit))
              /\ SortFrom(circuit, startGates) = Reversal(left) \o rest[Len(circuit.gates)]
              /\ gateSorting = Reversal(left) \o rest[idx - 1]

(* The third inductive invariant.                                           *)
ReturnInv == ReachInv /\ Planned /\ Appended

(* The function that visits the gates of the circuit.                       *)
LEMMA VisitOfFacts ==
    ASSUME TypeInv
    PROVE  /\ IsVisit(circuit, VisitOf(circuit))
           /\ VisitOf(circuit) \in Visits(GateIds(circuit))
           /\ \A s : Postorder(circuit, s) = VisitAll(VisitOf(circuit), s, <<>>)
           /\ \A g \in GateIds(circuit) : VisitsInOrder(circuit, VisitOf(circuit), Rank(circuit), g)
           /\ IsRanking(circuit, Rank(circuit))
<1>1. /\ \A g \in GateIds(circuit) : Operands(circuit, g) \in Seq(GateIds(circuit))
      /\ IsRanking(circuit, Rank(circuit))
  BY CircuitsAssumption DEF TypeInv
<1>2. \E visit : /\ IsVisit(circuit, visit)
                 /\ \A s : Postorder(circuit, s) = VisitAll(visit, s, <<>>)
  BY <1>1, VisitExists
<1>3. /\ IsVisit(circuit, VisitOf(circuit))
      /\ \A s : Postorder(circuit, s) = VisitAll(VisitOf(circuit), s, <<>>)
  BY <1>2 DEF VisitOf
<1>4. \A g \in GateIds(circuit) : VisitsInOrder(circuit, VisitOf(circuit), Rank(circuit), g)
  BY <1>1, <1>3, VisitInOrder
<1>. QED
  BY <1>1, <1>3, <1>4 DEF IsVisit

(* To visit a gate that has been left changes nothing.                      *)
LEMMA VisitAgain ==
    ASSUME NEW c, NEW visit, IsVisit(c, visit), NEW g \in GateIds(c), NEW left \in Seq(GateIds(c)),
           Leaves(left, g)
    PROVE  visit[g][left] = left
BY DEF IsVisit, VisitOnce

(* While searching, the record is in order and has exactly the gates        *)
(* visited.                                                                 *)
LEMMA RecordIsOrdered ==
    ASSUME ReachInv, pc = "search"
    PROVE  /\ IsOrdered(circuit, gateSorting)
           /\ \A g \in GateIds(circuit) : Leaves(gateSorting, g) <=> dfs_state[g] = "VISITED"
<1> USE DEF ReachInv, SearchInv
<1>1. gateSorting \in Seq(GateIds(circuit)) /\ DOMAIN gateSorting = 1 .. Len(gateSorting)
  BY DEF TypeInv, TypeOK
<1>2. IsOrdered(circuit, gateSorting)
  BY <1>1 DEF IsOrdered, RecordedOnce, OperandBefore
<1>3. \A g \in GateIds(circuit) : Leaves(gateSorting, g) => dfs_state[g] = "VISITED"
  BY DEF Leaves, OperandBefore
<1>4. \A g \in GateIds(circuit) : dfs_state[g] = "VISITED" => Leaves(gateSorting, g)
  BY DEF Leaves, VisitedRecorded
<1>. QED
  BY <1>2, <1>3, <1>4

(* At first all start gates are still to be visited.                        *)
LEMMA ReturnInit == Init => ReturnInv
<1> SUFFICES ASSUME Init PROVE ReturnInv
  OBVIOUS
<1>1. ReachInv /\ TypeInv
  BY ReachInvInit, TypeInvInit
<1>2. /\ stack = <<>> /\ pending = <<>> /\ gateSorting = <<>> /\ starts = startGates
      /\ pc = "search"
  BY DEF Init
<1> DEFINE plan == [i \in 0 .. 0 |-> <<>>]
<1>3. VisitAll(VisitOf(circuit), <<>>, <<>>) = <<>>
  <2>1. <<>> \in Seq(GateIds(circuit))
    OBVIOUS
  <2>. QED
    BY <1>1, <2>1, VisitNone, VisitOfFacts
<1>4. IsPlan(plan)
  BY <1>2, <1>3 DEF IsPlan
<1>5. plan[0] = <<>>
  OBVIOUS
<1> HIDE DEF plan
<1>6. Planned
  BY <1>1, <1>2, <1>4, <1>5, VisitOfFacts DEF Planned
<1>7. Appended
  BY <1>2 DEF Appended
<1>. QED
  BY <1>1, <1>6, <1>7 DEF ReturnInv

(* When a start gate is taken its visit is put on the stack, unless the     *)
(* gate was visited, when it would change nothing.                          *)
LEMMA ReturnStartKeeps ==
    ASSUME ReturnInv, ReachInv', Start
    PROVE  ReturnInv'
<1> USE DEF ReturnInv
<1> DEFINE h == Head(starts)
           V == VisitOf(circuit)
<1>1. /\ UNCHANGED <<circuit, startGates, pending, dfs_state, gateSorting, idx, pc>> /\ pc = "search"
      /\ starts \in Seq(GateIds(circuit)) /\ starts # <<>> /\ stack = <<>> /\ h \in GateIds(circuit)
      /\ starts' = Tail(starts) /\ gateSorting \in Seq(GateIds(circuit))
      /\ stack' = IF dfs_state[h] = "UNVISITED" THEN <<h>> ELSE <<>>
      /\ dfs_state \in [GateIds(circuit) -> DFSStates]
  BY DEF Start, Enqueue, ReachInv, SearchInv, TypeInv, TypeOK
<1>2. /\ TypeInv /\ IsVisit(circuit, V) /\ V \in Visits(GateIds(circuit))
  BY VisitOfFacts DEF ReachInv, SearchInv
<1>3. PICK plan : IsPlan(plan) /\ VisitAll(V, starts, plan[0]) = Postorder(circuit, startGates)
  BY <1>1 DEF Planned
<1>4. pending = <<>> /\ Len(stack) = 0
  BY <1>1 DEF Planned
<1>5. plan[0] = gateSorting
  BY <1>1, <1>2, <1>3, <1>4, VisitNone DEF IsPlan
<1> HIDE DEF h, V
<1>6. VisitAll(V, Tail(starts), V[h][gateSorting]) = Postorder(circuit, startGates)
  BY <1>1, <1>2, <1>3, <1>5, VisitHead DEF h
<1>7. Appended'
  BY <1>1 DEF Appended
<1>8. CASE dfs_state[h] = "UNVISITED"
  <2>1. V[h][gateSorting] \in Seq(GateIds(circuit))
    BY <1>1, <1>2 DEF Visits
  <2>2. PICK p : p = [i \in 0 .. 1 |-> IF i = 1 THEN gateSorting ELSE V[h][gateSorting]]
    OBVIOUS
  <2>3. /\ p \in [0 .. 1 -> Seq(GateIds(circuit))]
        /\ p[0] = V[h][gateSorting] /\ p[1] = gateSorting
    BY <1>1, <2>1, <2>2
  <2>4. stack' = <<h>> /\ Len(stack') = 1 /\ stack'[1] = h /\ stack' # <<>>
    BY <1>1, <1>8
  <2>5. ~IsLeftAt(1)'
    BY <1>1, <1>8, <2>4 DEF IsLeftAt
  <2>6. IsPlan(p)'
    <3>1. p[1] = VisitAll(V, pending, gateSorting)
      BY <1>3, <1>4, <1>5, <2>3 DEF IsPlan, V
    <3>2. \A i \in 1 .. 1 : i = 1 /\ i - 1 = 0
      OBVIOUS
    <3>. QED
      BY <1>1, <2>3, <2>4, <2>5, <3>1, <3>2 DEF IsPlan, V
  <2>. QED
    BY <1>1, <1>6, <1>7, <2>3, <2>4, <2>6 DEF Planned, V
<1>9. CASE dfs_state[h] # "UNVISITED"
  <2>1. dfs_state[h] = "VISITED"
    BY <1>1, <1>9, NothingEnteredOffStack DEF DFSStates, ReachInv, SearchInv
  <2>2. Leaves(gateSorting, h)
    BY <1>1, <2>1, RecordIsOrdered
  <2>3. V[h][gateSorting] = gateSorting
    BY <1>1, <1>2, <2>2, VisitAgain
  <2>4. stack' = stack
    BY <1>1, <1>9
  <2>5. IsPlan(plan)'
    BY <1>1, <1>3, <2>4 DEF IsPlan, IsLeftAt
  <2>. QED
    BY <1>1, <1>4, <1>5, <1>6, <1>7, <2>3, <2>5 DEF Planned, V
<1>. QED
  BY <1>8, <1>9

(* The visit of a gate that is entered is that of its operands, after which *)
(* the gate will be recorded.                                               *)
LEMMA ReturnEnterKeeps ==
    ASSUME ReturnInv, ReachInv', Enter
    PROVE  ReturnInv'
<1> USE DEF ReturnInv
<1> DEFINE n == Len(stack)
           ops == Operands(circuit, Top)
           V == VisitOf(circuit)
<1>1. /\ UNCHANGED <<circuit, startGates, starts, stack, gateSorting, idx, pc>> /\ pc = "search"
      /\ stack \in Seq(GateIds(circuit)) /\ stack # <<>> /\ n \in Nat /\ n # 0
      /\ Top = stack[n] /\ Top \in GateIds(circuit) /\ gateSorting \in Seq(GateIds(circuit))
      /\ pending = <<>> /\ pending' = ops
      /\ dfs_state \in [GateIds(circuit) -> DFSStates]
      /\ dfs_state[Top] = "UNVISITED" /\ dfs_state' = [dfs_state EXCEPT ![Top] = "ENTERED"]
  BY DEF Enter, ReachInv, SearchInv, TypeInv, TypeOK, Top
<1>2. /\ TypeInv /\ IsVisit(circuit, V) /\ V \in Visits(GateIds(circuit)) /\ ops \in Seq(GateIds(circuit))
  BY <1>1, VisitOfFacts, CircuitFacts DEF ReachInv, SearchInv
<1>3. PICK plan : IsPlan(plan) /\ VisitAll(V, starts, plan[0]) = Postorder(circuit, startGates)
  BY <1>1 DEF Planned
<1> HIDE DEF ops, V, n
<1>4. plan[n] = gateSorting /\ plan \in [0 .. n -> Seq(GateIds(circuit))]
  BY <1>1, <1>2, <1>3, VisitNone DEF IsPlan, n, V
<1>5. plan[n - 1] = V[Top][gateSorting]
  <2>1. n \in 1 .. n
    BY <1>1
  <2>2. ~IsLeftAt(n)
    BY <1>1 DEF IsLeftAt
  <2>. QED
    BY <1>1, <1>3, <1>4, <2>1, <2>2 DEF IsPlan, n, V
<1>6. plan[n - 1] = Append(VisitAll(V, ops, gateSorting), Top)
  <2>1. ~Leaves(gateSorting, Top)
    BY <1>1, RecordIsOrdered
  <2>. QED
    BY <1>1, <1>2, <1>5, <2>1 DEF IsVisit, VisitOnce, ops
<1>7. VisitAll(V, ops, gateSorting) \in Seq(GateIds(circuit))
  <2> DEFINE S == GateIds(circuit)
  <2>1. V \in Visits(S) /\ ops \in Seq(S) /\ gateSorting \in Seq(S)
    BY <1>1, <1>2
  <2>2. Len(ops) \in 0 .. Len(ops)
    BY <2>1
  <2> HIDE DEF S
  <2>3. PICK run \in [0 .. Len(ops) -> Seq(S)] : VisitAll(V, ops, gateSorting) = run[Len(ops)]
    BY <2>1, VisitAllLoop
  <2>. QED
    BY <2>2, <2>3 DEF S
<1>8. PICK p : p = [plan EXCEPT ![n] = VisitAll(V, ops, gateSorting)]
  OBVIOUS
<1>9. /\ p \in [0 .. n -> Seq(GateIds(circuit))]
      /\ p[n] = VisitAll(V, ops, gateSorting)
      /\ \A i \in 0 .. n : i # n => p[i] = plan[i]
  <2>1. n \in 0 .. n
    BY <1>1
  <2>. QED
    BY <1>4, <1>7, <1>8, <2>1
<1>10. ASSUME NEW i \in 1 .. n
       PROVE  p[i - 1] = IF IsLeftAt(i)' THEN Append(p[i], stack[i]) ELSE V[stack[i]][p[i]]
  <2>1. p[i - 1] = plan[i - 1]
    <3>1. i - 1 \in 0 .. n /\ i - 1 # n
      BY <1>1
    <3>. QED
      BY <1>9, <3>1
  <2>2. CASE i = n
    <3>1. IsLeftAt(i)'
      BY <1>1, <2>2 DEF IsLeftAt, n
    <3>. QED
      BY <1>1, <1>6, <1>9, <2>1, <2>2, <3>1
  <2>3. CASE i # n
    <3>1. p[i] = plan[i] /\ n \in i + 1 .. n /\ stack[i] \in GateIds(circuit)
      BY <1>1, <1>9, <2>3 DEF n
    <3>2. plan[i - 1] = IF IsLeftAt(i) THEN Append(plan[i], stack[i]) ELSE V[stack[i]][plan[i]]
      BY <1>3 DEF IsPlan, n, V
    <3>3. IsLeftAt(i)' <=> IsLeftAt(i)
      <4>1. CASE stack[i] = Top
        BY <1>1, <3>1, <4>1 DEF IsLeftAt, n
      <4>2. CASE stack[i] # Top
        <5>1. dfs_state'[stack[i]] = dfs_state[stack[i]]
          BY <1>1, <3>1, <4>2
        <5>. QED
          BY <1>1, <5>1 DEF IsLeftAt
      <4>. QED
        BY <4>1, <4>2
    <3>. QED
      BY <2>1, <3>1, <3>2, <3>3
  <2>. QED
    BY <2>2, <2>3
<1>11. IsPlan(p)'
  BY <1>1, <1>9, <1>10 DEF IsPlan, n, V, ops
<1>12. p[0] = plan[0]
  BY <1>1, <1>9
<1>. QED
  BY <1>1, <1>3, <1>11, <1>12 DEF Planned, Appended, V

(* An operand of the gate just entered that is put on the stack is visited  *)
(* after those that wait to be put above it; one that is not was visited.   *)
LEMMA ReturnEnqueueOperandKeeps ==
    ASSUME ReturnInv, ReachInv', EnqueueOperand
    PROVE  ReturnInv'
<1> USE DEF ReturnInv
<1> DEFINE n == Len(stack)
           S == GateIds(circuit)
           last == pending[Len(pending)]
           most == SubSeq(pending, 1, Len(pending) - 1)
           V == VisitOf(circuit)
           left == VisitAll(V, most, gateSorting)
<1>1. /\ UNCHANGED <<circuit, startGates, starts, dfs_state, gateSorting, idx, pc>> /\ pc = "search"
      /\ stack \in Seq(S) /\ n \in Nat /\ DOMAIN stack = 1 .. n
      /\ pending \in Seq(S) /\ pending # <<>> /\ last \in S /\ most \in Seq(S)
      /\ Len(pending) \in DOMAIN pending
      /\ pending' = most /\ gateSorting \in Seq(S)
      /\ stack' = IF dfs_state[last] = "UNVISITED" THEN Append(stack, last) ELSE stack
      /\ dfs_state \in [S -> DFSStates]
  BY DEF EnqueueOperand, Enqueue, ReachInv, SearchInv, TypeInv, TypeOK
<1>2. /\ TypeInv /\ IsVisit(circuit, V) /\ V \in Visits(S) /\ IsRanking(circuit, Rank(circuit))
      /\ \A g \in S : VisitsInOrder(circuit, V, Rank(circuit), g)
      /\ Len(circuit.gates) \in Nat
  BY VisitOfFacts, CircuitFacts DEF ReachInv, SearchInv
<1>3. PICK plan : IsPlan(plan) /\ VisitAll(V, starts, plan[0]) = Postorder(circuit, startGates)
  BY <1>1 DEF Planned
<1>4. plan \in [0 .. n -> Seq(S)]
  BY <1>3 DEF IsPlan
<1> HIDE DEF last, most, V, n, left
<1>5. plan[n] = V[last][left]
  <2>1. VisitAll(V, pending, gateSorting) = V[last][left]
    <3> HIDE DEF S
    <3>. QED
      BY <1>1, <1>2, VisitLast DEF last, most, left
  <2>. QED
    BY <1>3, <2>1 DEF IsPlan, n, V
<1>6. left \in Seq(S) /\ \A g : Leaves(gateSorting, g) => Leaves(left, g)
  BY <1>1, <1>2, RecordIsOrdered, VisitAllGrows DEF left
<1>7. Appended'
  BY <1>1 DEF Appended
<1>8. stack # <<>>
  BY <1>1 DEF Planned
<1>9. CASE dfs_state[last] = "UNVISITED"
  <2>1. /\ stack' = Append(stack, last) /\ Len(stack') = n + 1 /\ stack'[n + 1] = last
        /\ \A i \in 1 .. n : stack'[i] = stack[i] /\ stack[i] \in S
        /\ \A i \in 1 .. n + 1 : i = n + 1 \/ i \in 1 .. n
    BY <1>1, <1>9 DEF n
  <2>2. stack' # <<>>
    BY <1>1, <2>1
  <2>3. PICK p : p = [i \in 0 .. n + 1 |-> IF i = n + 1 THEN left ELSE plan[i]]
    OBVIOUS
  <2>4. /\ p \in [0 .. n + 1 -> Seq(S)] /\ p[n + 1] = left
        /\ \A i \in 0 .. n : p[i] = plan[i]
    <3>1. \A i \in 0 .. n + 1 : i # n + 1 => i \in 0 .. n
      BY <1>1
    <3>2. \A i \in 0 .. n : i \in 0 .. n + 1 /\ i # n + 1
      BY <1>1
    <3>3. n + 1 \in 0 .. n + 1
      BY <1>1
    <3> HIDE DEF S
    <3>. QED
      BY <1>4, <1>6, <2>3, <3>1, <3>2, <3>3
  <2>5. ASSUME NEW i \in 1 .. n + 1
        PROVE  p[i - 1] = IF IsLeftAt(i)' THEN Append(p[i], stack'[i]) ELSE V[stack'[i]][p[i]]
    <3>1. CASE i = n + 1
      <4>1. ~IsLeftAt(i)'
        BY <1>1, <1>9, <2>1, <3>1 DEF IsLeftAt
      <4>2. p[i - 1] = plan[n]
        <5>1. i - 1 = n /\ n \in 0 .. n
          BY <1>1, <3>1
        <5>. QED
          BY <2>4, <5>1
      <4>. QED
        BY <1>5, <2>1, <2>4, <3>1, <4>1, <4>2
    <3>2. CASE i # n + 1
      <4>1. i \in 1 .. n /\ i \in 0 .. n /\ i - 1 \in 0 .. n
        BY <1>1, <3>2
      <4>2. p[i - 1] = plan[i - 1] /\ p[i] = plan[i] /\ stack'[i] = stack[i]
        BY <2>1, <2>4, <4>1
      <4>3. plan[i - 1] = IF IsLeftAt(i) THEN Append(plan[i], stack[i]) ELSE V[stack[i]][plan[i]]
        BY <1>3, <4>1 DEF IsPlan, n, V
      <4>4. IsLeftAt(i)' <=> IsLeftAt(i)
        <5>1. \A j \in i + 1 .. n : stack'[j] = stack[j]
          <6>1. \A j \in i + 1 .. n : j \in 1 .. n
            BY <1>1, <4>1
          <6>. QED
            BY <2>1, <6>1
        <5>2. \A j \in i + 1 .. n + 1 : j = n + 1 \/ j \in i + 1 .. n
          BY <1>1, <4>1
        <5>3. \A j \in i + 1 .. n : j \in i + 1 .. n + 1
          BY <1>1, <4>1
        <5>4. dfs_state[stack[i]] = "ENTERED" => stack[i] # last
          BY <1>9
        <5>. QED
          BY <1>1, <2>1, <4>2, <5>1, <5>2, <5>3, <5>4 DEF IsLeftAt, n
      <4>. QED
        BY <4>2, <4>3, <4>4
    <3>. QED
      BY <3>1, <3>2
  <2>6. IsPlan(p)'
    BY <1>1, <2>1, <2>4, <2>5 DEF IsPlan, V, left
  <2>7. p[0] = plan[0]
    BY <1>1, <2>4
  <2>. QED
    BY <1>1, <1>3, <1>7, <2>2, <2>6, <2>7 DEF Planned, V
<1>10. CASE dfs_state[last] # "UNVISITED"
  <2>1. dfs_state[last] # "ENTERED"
    <3>1. ASSUME dfs_state[last] = "ENTERED" PROVE FALSE
      <4>1. Rank(circuit)[last] < Rank(circuit)[last]
        BY <1>1, <3>1 DEF last, ReachInv, SearchInv, PendingBelowEntered
      <4>2. Rank(circuit)[last] \in Nat
        BY <1>1, <1>2, CircuitFacts
      <4>. QED
        BY <4>1, <4>2
    <3>. QED
      BY <3>1
  <2>2. dfs_state[last] = "VISITED"
    BY <1>1, <1>10, <2>1 DEF DFSStates
  <2>3. V[last][left] = left
    <3>1. Leaves(left, last)
      BY <1>1, <1>6, <2>2, RecordIsOrdered
    <3>. QED
      BY <1>1, <1>2, <1>6, <3>1, VisitAgain
  <2>4. stack' = stack
    BY <1>1, <1>10
  <2>5. IsPlan(plan)'
    <3>1. plan[n] = VisitAll(V, most, gateSorting)
      BY <1>5, <2>3 DEF left
    <3>. QED
      <4>1. /\ circuit' = circuit /\ pending' = most /\ gateSorting' = gateSorting
            /\ dfs_state' = dfs_state /\ stack' = stack
        BY <1>1, <2>4
      <4>2. /\ plan \in [0 .. n -> Seq(S)]
            /\ \A i \in 1 .. n : plan[i - 1] = IF IsLeftAt(i) THEN Append(plan[i], stack[i])
                                                             ELSE V[stack[i]][plan[i]]
        BY <1>3 DEF IsPlan, n, V
      <4>3. \A i : IsLeftAt(i)' <=> IsLeftAt(i)
        BY <4>1 DEF IsLeftAt
      <4> HIDE DEF IsLeftAt
      <4>. QED
        BY <3>1, <4>1, <4>2, <4>3 DEF IsPlan, n, V
  <2>. QED
    BY <1>1, <1>3, <1>7, <1>8, <2>4, <2>5 DEF Planned, V
<1>. QED
  BY <1>9, <1>10

(* What the plan is after the top of the stack has been taken.              *)
LEMMA ReturnPopKeeps ==
    ASSUME ReturnInv, pc = "search", stack # <<>>, stack' = Pop, pending = <<>>,
           UNCHANGED <<circuit, startGates, starts, pending, pc>>,
           dfs_state' \in [GateIds(circuit) -> DFSStates], dfs_state'[Top] = "VISITED",
           \A g \in GateIds(circuit) : g # Top => dfs_state'[g] = dfs_state[g],
           gateSorting' = IF dfs_state[Top] = "ENTERED" THEN Append(gateSorting, Top) ELSE gateSorting,
           dfs_state[Top] \in {"ENTERED", "VISITED"}, ReachInv'
    PROVE  Planned'
<1> USE DEF ReturnInv
<1> DEFINE n == Len(stack)
           S == GateIds(circuit)
           V == VisitOf(circuit)
<1>1. /\ stack \in Seq(S) /\ n \in Nat /\ n # 0 /\ DOMAIN stack = 1 .. n
      /\ Top = stack[n] /\ Top \in S /\ gateSorting \in Seq(S) /\ gateSorting' \in Seq(S)
      /\ \A i \in 1 .. n : stack[i] \in S
  BY DEF ReachInv, SearchInv, TypeInv, TypeOK, Top
<1>2. /\ TypeInv /\ IsVisit(circuit, V) /\ V \in Visits(S)
  BY VisitOfFacts DEF ReachInv, SearchInv
<1>3. PICK plan : IsPlan(plan) /\ VisitAll(V, starts, plan[0]) = Postorder(circuit, startGates)
  BY DEF Planned
<1>4. /\ Len(stack') = n - 1 /\ \A i \in 1 .. n - 1 : stack'[i] = stack[i]
  BY <1>1, PopFacts DEF Pop
<1> HIDE DEF n, V
<1>5. plan[n] = gateSorting /\ plan \in [0 .. n -> Seq(S)]
  <2>1. VisitAll(V, <<>>, gateSorting) = gateSorting
    <3> HIDE DEF S
    <3>. QED
      BY <1>1, <1>2, VisitNone
  <2>. QED
    BY <1>3, <2>1 DEF IsPlan, n, V
<1>6. plan[n - 1] = gateSorting'
  <2>1. n \in 1 .. n
    BY <1>1
  <2>2. plan[n - 1] = IF IsLeftAt(n) THEN Append(gateSorting, Top) ELSE V[Top][gateSorting]
    BY <1>1, <1>3, <1>5, <2>1 DEF IsPlan, n, V
  <2>3. IsLeftAt(n) <=> dfs_state[Top] = "ENTERED"
    <3>1. ~ \E j \in n + 1 .. n : TRUE
      BY <1>1
    <3>. QED
      BY <1>1, <3>1 DEF IsLeftAt, n
  <2>4. CASE dfs_state[Top] = "ENTERED"
    BY <2>2, <2>3, <2>4
  <2>5. CASE dfs_state[Top] = "VISITED"
    <3>1. Leaves(gateSorting, Top)
      BY <1>1, <2>5, RecordIsOrdered
    <3>2. V[Top][gateSorting] = gateSorting
      BY <1>1, <1>2, <3>1, VisitAgain
    <3>. QED
      BY <2>2, <2>3, <2>5, <3>2
  <2>. QED
    BY <2>4, <2>5
<1>7. PICK p : p = [i \in 0 .. n - 1 |-> plan[i]]
  OBVIOUS
<1>8. /\ p \in [0 .. n - 1 -> Seq(S)] /\ \A i \in 0 .. n - 1 : p[i] = plan[i]
  <2>1. \A i \in 0 .. n - 1 : i \in 0 .. n
    BY <1>1
  <2> HIDE DEF S
  <2>. QED
    BY <1>5, <1>7, <2>1
<1>9. ASSUME NEW i \in 1 .. n - 1
      PROVE  p[i - 1] = IF IsLeftAt(i)' THEN Append(p[i], stack'[i]) ELSE V[stack'[i]][p[i]]
  <2>1. /\ i \in 1 .. n /\ i \in 0 .. n - 1 /\ i - 1 \in 0 .. n - 1 /\ n \in i + 1 .. n
        /\ \A j \in i + 1 .. n - 1 : j \in i + 1 .. n /\ j \in 1 .. n - 1
        /\ \A j \in i + 1 .. n : j = n \/ j \in i + 1 .. n - 1
    BY <1>1
  <2>2. p[i - 1] = plan[i - 1] /\ p[i] = plan[i] /\ stack'[i] = stack[i] /\ stack[i] \in S
    BY <1>1, <1>4, <1>8, <2>1
  <2>3. plan[i - 1] = IF IsLeftAt(i) THEN Append(plan[i], stack[i]) ELSE V[stack[i]][plan[i]]
    BY <1>3, <2>1 DEF IsPlan, n, V
  <2>4. IsLeftAt(i)' <=> IsLeftAt(i)
    <3>1. CASE stack[i] = Top
      BY <1>1, <2>1, <2>2, <3>1 DEF IsLeftAt, n
    <3>2. CASE stack[i] # Top
      <4>1. dfs_state'[stack[i]] = dfs_state[stack[i]]
        BY <2>2, <3>2
      <4>2. \A j \in i + 1 .. n - 1 : stack'[j] = stack[j]
        BY <1>4, <2>1
      <4>3. (\A j \in i + 1 .. n - 1 : stack'[j] # stack[i])
            <=> (\A j \in i + 1 .. n : stack[j] # stack[i])
        BY <1>1, <2>1, <3>2, <4>2
      <4>. QED
        BY <1>4, <2>2, <4>1, <4>3 DEF IsLeftAt, n
    <3>. QED
      BY <3>1, <3>2
  <2>. QED
    BY <2>2, <2>3, <2>4
<1>10. p[n - 1] = gateSorting' /\ p[0] = plan[0]
  <2>1. n - 1 \in 0 .. n - 1 /\ 0 \in 0 .. n - 1
    BY <1>1
  <2>. QED
    BY <1>6, <1>8, <2>1
<1>11. IsPlan(p)'
  <2>1. VisitAll(V, pending', gateSorting') = gateSorting'
    <3> HIDE DEF S
    <3>. QED
      BY <1>1, <1>2, VisitNone
  <2>. QED
    BY <1>4, <1>8, <1>9, <1>10, <2>1 DEF IsPlan, V
<1>. QED
  BY <1>3, <1>10, <1>11 DEF Planned, V

(* A gate that is left or was visited before is taken off the stack.        *)
LEMMA ReturnTakeKeeps ==
    ASSUME ReturnInv, ReachInv', Leave \/ Skip
    PROVE  ReturnInv'
<1> USE DEF ReturnInv
<1>1. /\ stack # <<>> /\ stack' = Pop /\ pending = <<>> /\ pc = "search"
      /\ UNCHANGED <<circuit, startGates, starts, pending, idx, pc>>
      /\ dfs_state[Top] \in {"ENTERED", "VISITED"}
      /\ dfs_state' = [dfs_state EXCEPT ![Top] = "VISITED"]
      /\ gateSorting' = IF dfs_state[Top] = "ENTERED" THEN Append(gateSorting, Top) ELSE gateSorting
  <2>1. dfs_state \in [GateIds(circuit) -> DFSStates]
    BY DEF ReachInv, SearchInv, TypeInv, TypeOK
  <2>2. CASE Leave
    BY <2>2 DEF Leave
  <2>3. CASE Skip
    BY <2>1, <2>3 DEF Skip
  <2>. QED
    BY <2>2, <2>3
<1>2. /\ dfs_state \in [GateIds(circuit) -> DFSStates] /\ Top \in GateIds(circuit)
  BY <1>1 DEF ReachInv, SearchInv, TypeInv, TypeOK, Top
<1>3. /\ dfs_state' \in [GateIds(circuit) -> DFSStates] /\ dfs_state'[Top] = "VISITED"
      /\ \A g \in GateIds(circuit) : g # Top => dfs_state'[g] = dfs_state[g]
  BY <1>1, <1>2 DEF DFSStates
<1>4. Planned'
  BY <1>1, <1>3, ReturnPopKeeps
<1>5. Appended'
  BY <1>1 DEF Appended
<1>. QED
  BY <1>4, <1>5

(* When nothing is left to do the record is the postorder, and it is        *)
(* reversed.                                                                *)
LEMMA ReturnOverKeeps ==
    ASSUME ReturnInv, ReachInv', Over
    PROVE  ReturnInv'
<1> USE DEF ReturnInv
<1> DEFINE n == Len(gateSorting)
           S == GateIds(circuit)
           V == VisitOf(circuit)
<1>1. /\ UNCHANGED <<circuit, startGates, starts, stack, pending, dfs_state, idx>>
      /\ pc = "search" /\ pc' = "rest" /\ stack = <<>> /\ starts = <<>> /\ pending = <<>> /\ idx = 1
      /\ gateSorting' = [i \in 1 .. n |-> gateSorting[n - i + 1]]
      /\ gateSorting \in Seq(S) /\ n \in Nat /\ Len(circuit.gates) \in Nat
      /\ dfs_state \in [S -> DFSStates]
  BY CircuitFacts DEF Over, Planned, ReachInv, RecordedOnce, SearchInv, TypeInv, TypeOK
<1>2. /\ TypeInv /\ V \in Visits(S)
  BY VisitOfFacts DEF ReachInv, SearchInv
<1>3. PICK plan : IsPlan(plan) /\ VisitAll(V, starts, plan[0]) = Postorder(circuit, startGates)
  BY <1>1 DEF Planned
<1>4. Postorder(circuit, startGates) = gateSorting
  <2>1. VisitAll(V, <<>>, gateSorting) = gateSorting
    <3> HIDE DEF S, V
    <3>. QED
      BY <1>1, <1>2, VisitNone
  <2>2. plan[0] = gateSorting
    BY <1>1, <1>3, <2>1 DEF IsPlan
  <2>. QED
    BY <1>1, <1>3, <2>1, <2>2
<1>5. \A g \in S : Leaves(gateSorting, g) <=> dfs_state[g] # "UNVISITED"
  BY <1>1, NothingEnteredOffStack, RecordIsOrdered DEF DFSStates, ReachInv, SearchInv
<1>6. gateSorting' = Reversal(gateSorting) /\ Reversal(gateSorting) \in Seq(S)
  <2>1. \A i \in 1 .. n : n - i + 1 \in 1 .. n /\ n - i + 1 = n + 1 - i
    BY <1>1
  <2>2. gateSorting' = Reversal(gateSorting)
    BY <1>1, <2>1 DEF Reversal
  <2>3. \A i \in 1 .. n : gateSorting[n - i + 1] \in S
    BY <1>1, <2>1
  <2> HIDE DEF n, S
  <2>4. gateSorting' \in [1 .. n -> S]
    BY <1>1, <2>3
  <2>. QED
    BY <1>1, <2>2, <2>4, FunctionIsSequence
<1>7. PICK rest : /\ IsRest(rest, circuit, gateSorting)
                  /\ SortFrom(circuit, startGates) = Reversal(gateSorting) \o rest[Len(circuit.gates)]
  BY <1>1, <1>4, SortFromFacts DEF Reversal
<1>8. rest[0] = <<>>
  BY <1>7 DEF IsRest
<1>9. gateSorting' = Reversal(gateSorting) \o rest[0]
  BY <1>6, <1>8
<1>10. Appended'
  <2>1. idx' - 1 = 0 /\ rest[0] \in Seq(S)
    BY <1>1, <1>8
  <2>. QED
    BY <1>1, <1>4, <1>5, <1>7, <1>9, <2>1 DEF Appended
<1>11. Planned'
  BY <1>1 DEF Planned
<1>. QED
  BY <1>10, <1>11

(* The last loop appends what SortFrom does.                                *)
LEMMA ReturnRestKeeps ==
    ASSUME ReturnInv, ReachInv', Rest
    PROVE  ReturnInv'
<1> USE DEF ReturnInv
<1> DEFINE S == GateIds(circuit)
           left == Postorder(circuit, startGates)
<1>1. /\ UNCHANGED <<circuit, startGates, starts, stack, pending, dfs_state, pc>>
      /\ pc = "rest" /\ idx' = idx + 1 /\ idx \in S /\ idx \in Nat
      /\ gateSorting' = IF dfs_state[idx] = "UNVISITED" THEN Append(gateSorting, idx) ELSE gateSorting
  <2>1. Len(circuit.gates) \in Nat /\ idx \in 1 .. Len(circuit.gates) + 1
    BY CircuitFacts DEF ReachInv, SearchInv, TypeInv, TypeOK
  <2>. QED
    BY <2>1 DEF Rest, GateIds
<1>2. /\ left \in Seq(S)
      /\ \A g \in S : Leaves(left, g) <=> dfs_state[g] # "UNVISITED"
  BY <1>1 DEF Appended
<1>3. PICK rest : /\ IsRest(rest, circuit, left)
                  /\ rest[idx - 1] \in Seq(S)
                  /\ SortFrom(circuit, startGates) = Reversal(left) \o rest[Len(circuit.gates)]
                  /\ gateSorting = Reversal(left) \o rest[idx - 1]
  BY <1>1 DEF Appended
<1> HIDE DEF left
<1>4. Reversal(left) \in Seq(S)
  <2> DEFINE n == Len(left)
  <2>1. n \in Nat /\ \A i \in 1 .. n : n + 1 - i \in 1 .. n /\ left[n + 1 - i] \in S
    BY <1>2
  <2> HIDE DEF n, S
  <2>2. [i \in 1 .. n |-> left[n + 1 - i]] \in [1 .. n -> S]
    BY <2>1
  <2>. QED
    BY <2>1, <2>2, FunctionIsSequence DEF Reversal, n
<1>5. rest[idx] = IF Leaves(left, idx) THEN rest[idx - 1] ELSE Append(rest[idx - 1], idx)
  BY <1>1, <1>3 DEF IsRest
<1>6. rest[idx] \in Seq(S)
  <2> HIDE DEF S
  <2>. QED
    BY <1>1, <1>3, <1>5
<1>7. gateSorting' = Reversal(left) \o rest[idx]
  <2>1. CASE dfs_state[idx] = "UNVISITED"
    <3>1. rest[idx] = Append(rest[idx - 1], idx)
      BY <1>1, <1>2, <1>5, <2>1
    <3> HIDE DEF S
    <3>2. Append(Reversal(left) \o rest[idx - 1], idx) = Reversal(left) \o Append(rest[idx - 1], idx)
      <4>1. Reversal(left) \in Seq(S) /\ rest[idx - 1] \in Seq(S) /\ idx \in S
        BY <1>1, <1>3, <1>4
      <4> DEFINE front == Reversal(left)
                 back  == rest[idx - 1]
      <4>2. front \in Seq(S) /\ back \in Seq(S) /\ idx \in S
        BY <4>1
      <4> HIDE DEF front, back
      <4>3. Append(front \o back, idx) = front \o Append(back, idx)
        BY <4>2, AppendToConcat, SMTT(60)
      <4>. QED
        BY <4>3 DEF front, back
    <3>. QED
      BY <1>1, <1>3, <2>1, <3>1, <3>2
  <2>2. CASE dfs_state[idx] # "UNVISITED"
    BY <1>1, <1>2, <1>3, <1>5, <2>2
  <2>. QED
    BY <2>1, <2>2
<1>8. idx' - 1 = idx
  BY <1>1
<1>9. Appended'
  BY <1>1, <1>2, <1>3, <1>6, <1>7, <1>8 DEF Appended, left
<1>10. Planned'
  BY <1>1 DEF Planned
<1>. QED
  BY <1>9, <1>10

(* Hence every step keeps it.                                               *)
LEMMA ReturnStep == ReturnInv /\ ReachInv' /\ [Next]_vars => ReturnInv'
<1> SUFFICES ASSUME ReturnInv, ReachInv', [Next]_vars
             PROVE  ReturnInv'
  OBVIOUS
<1>1. CASE Return
  <2>1. /\ UNCHANGED <<circuit, startGates, starts, stack, pending, dfs_state, gateSorting, idx>>
        /\ pc = "rest" /\ pc' = "done"
    BY <1>1 DEF Return
  <2>. QED
    BY <2>1 DEF ReturnInv, Planned, Appended
<1>2. CASE UNCHANGED vars
  BY <1>2 DEF vars, ReturnInv, Planned, Appended, IsPlan, IsLeftAt
<1>. QED
  BY <1>1, <1>2, ReturnStartKeeps, ReturnEnterKeeps, ReturnEnqueueOperandKeeps, ReturnTakeKeeps,
     ReturnOverKeeps, ReturnRestKeeps DEF Next

(* The invariant that ties the loop with its stack to the function of       *)
(* TopSort.                                                                 *)
THEOREM SearchFollowsPostorder == Spec => []ReturnInv
<1>1. ReturnInv /\ ReachInv' /\ [Next]_vars => ReturnInv'
  BY ReturnStep
<1>. QED
  BY <1>1, ReturnInit, SearchReaches, PTL DEF Spec

(* Of the topological orders the search returns the one that SortFrom       *)
(* describes, from any start gates: the transformers, whose models use that *)
(* function, see the order that the code gives them.                        *)
THEOREM SortIsTopSort == Spec => []ReturnsTopSort
<1>1. ReturnInv => ReturnsTopSort
  <2> SUFFICES ASSUME ReturnInv, pc = "done" PROVE gateSorting = SortFrom(circuit, startGates)
    BY DEF ReturnsTopSort
  <2>1. idx - 1 = Len(circuit.gates)
    <3>1. idx \in 1 .. Len(circuit.gates) + 1 /\ Len(circuit.gates) \in Nat
      BY CircuitFacts DEF ReturnInv, ReachInv, SearchInv, TypeInv, TypeOK
    <3>2. idx > Len(circuit.gates)
      BY DEF ReturnInv, ReachInv, RecordedOnce
    <3>. QED
      BY <3>1, <3>2
  <2>. QED
    BY <2>1 DEF ReturnInv, Appended
<1>. QED
  BY <1>1, SearchFollowsPostorder, PTL
==============================================================================
