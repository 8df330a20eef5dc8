--------------------------- MODULE DepthFirstSearch --------------------------
(****************************************************************************)
(* performDepthFirstSearch and the topological sort built on it             *)
(* (src/src/algo.hpp): one explicit stack, three states per gate.  A gate   *)
(* may be on the stack several times, because it is pushed by every user    *)
(* that is entered before the gate is.                                      *)
(*                                                                          *)
(* The custom operations are those of DFSTopSort: gates are recorded on     *)
(* leaving, the record is reversed when the search is over, and the gates   *)
(* never visited are appended.  A caller that only wants the mask of        *)
(* visited gates (RedundantGatesCleaner) starts from the outputs instead.   *)
(****************************************************************************)
EXTENDS TopSort, Integers, Sequences

CONSTANTS
    Circuits,   \* the circuits searched
    Rank(_)     \* evidence that a circuit is acyclic: a ranking of its gates

ASSUME CircuitsAssumption ==
    \A c \in Circuits :
        /\ Len(c.gates) \in Nat
        /\ \A g \in GateIds(c) : Operands(c, g) \in Seq(GateIds(c))
        /\ c.outputs \in Seq(GateIds(c))
        /\ IsRanking(c, Rank(c))

VARIABLES
    circuit,
    startGates,
    starts,      \* start gates the outer loop has not reached
    stack,       \* queue_; the top is the last element
    pending,     \* operands of the gate just entered, still to be enqueued
    dfs_state,
    gateSorting, \* gates recorded on leaving
    idx,         \* position of the loop over unvisited gates
    pc

vars == <<circuit, startGates, starts, stack, pending, dfs_state, gateSorting, idx, pc>>

DFSStates == {"UNVISITED", "ENTERED", "VISITED"}
Top == stack[Len(stack)]
Pop == SubSeq(stack, 1, Len(stack) - 1)

Init ==
    /\ circuit \in Circuits
    /\ startGates \in {Sources(circuit), circuit.outputs}
    /\ starts = startGates
    /\ stack = <<>>
    /\ pending = <<>>
    /\ dfs_state = [g \in GateIds(circuit) |-> "UNVISITED"]
    /\ gateSorting = <<>>
    /\ idx = 1
    /\ pc = "search"

(* enqueue_next: push a gate unless it was entered already.                 *)
Enqueue(g) ==
    stack' = IF dfs_state[g] = "UNVISITED" THEN Append(stack, g) ELSE stack

(* The outer loop takes the next start gate.                                *)
Start ==
    /\ pc = "search"
    /\ stack = <<>> /\ starts # <<>>
    /\ Enqueue(Head(starts))
    /\ starts' = Tail(starts)
    /\ UNCHANGED <<circuit, startGates, pending, dfs_state, gateSorting, idx, pc>>

\* Mutant of Enter: its first operand is missed.
EnterWithoutFirst ==
    /\ pc = "search"
    /\ stack # <<>> /\ pending = <<>> /\ dfs_state[Top] = "UNVISITED"
    /\ dfs_state' = [dfs_state EXCEPT ![Top] = "ENTERED"]
    /\ pending' = SubSeq(Operands(circuit, Top), 2, Len(Operands(circuit, Top)))
    /\ UNCHANGED <<circuit, startGates, starts, stack, gateSorting, idx, pc>>

(* case UNVISITED: enter the gate on top, its operands are to be enqueued.  *)
Enter ==
    /\ pc = "search"
    /\ stack # <<>> /\ pending = <<>>
    /\ dfs_state[Top] = "UNVISITED"
    /\ dfs_state' = [dfs_state EXCEPT ![Top] = "ENTERED"]
    /\ pending' = Operands(circuit, Top)
    /\ UNCHANGED <<circuit, startGates, starts, stack, gateSorting, idx, pc>>

\* Mutant of EnqueueOperand: begin to end instead of rbegin to rend.
EnqueueInOrder ==
    /\ pc = "search" /\ pending # <<>>
    /\ Enqueue(Head(pending))
    /\ pending' = Tail(pending)
    /\ UNCHANGED <<circuit, startGates, starts, dfs_state, gateSorting, idx, pc>>

(* One iteration of for_each(rbegin, rend, enqueue_next).                   *)
EnqueueOperand ==
    /\ pc = "search"
    /\ pending # <<>>
    /\ Enqueue(pending[Len(pending)])
    /\ pending' = SubSeq(pending, 1, Len(pending) - 1)
    /\ UNCHANGED <<circuit, startGates, starts, dfs_state, gateSorting, idx, pc>>

(* case ENTERED: everything below the gate is done; record it.              *)
Leave ==
    /\ pc = "search"
    /\ stack # <<>> /\ pending = <<>>
    /\ dfs_state[Top] = "ENTERED"
    /\ dfs_state' = [dfs_state EXCEPT ![Top] = "VISITED"]
    /\ gateSorting' = Append(gateSorting, Top)
    /\ stack' = Pop
    /\ UNCHANGED <<circuit, startGates, starts, pending, idx, pc>>

\* Mutant of Skip: the copy stays on the stack.
SkipWithoutPop ==
    /\ pc = "search"
    /\ stack # <<>> /\ pending = <<>> /\ dfs_state[Top] = "VISITED"
    /\ UNCHANGED vars

\* Mutant of Skip: the copy is recorded as well.
SkipRecording ==
    /\ pc = "search"
    /\ stack # <<>> /\ pending = <<>> /\ dfs_state[Top] = "VISITED"
    /\ stack' = Pop
    /\ gateSorting' = Append(gateSorting, Top)
    /\ UNCHANGED <<circuit, startGates, starts, pending, dfs_state, idx, pc>>

(* case VISITED: another copy of the gate was left already.                 *)
Skip ==
    /\ pc = "search"
    /\ stack # <<>> /\ pending = <<>>
    /\ dfs_state[Top] = "VISITED"
    /\ stack' = Pop
    /\ UNCHANGED <<circuit, startGates, starts, pending, dfs_state, gateSorting, idx, pc>>

\* Mutant of Over: the record is not reversed.
OverUnreversed ==
    /\ pc = "search" /\ stack = <<>> /\ starts = <<>>
    /\ pc' = "rest"
    /\ UNCHANGED <<circuit, startGates, starts, stack, pending, dfs_state, gateSorting, idx>>

(* dfsOverOperation.                                                        *)
Over ==
    /\ pc = "search"
    /\ stack = <<>> /\ starts = <<>>
    /\ gateSorting' = [i \in 1 .. Len(gateSorting) |->
                           gateSorting[Len(gateSorting) - i + 1]]
    /\ pc' = "rest"
    /\ UNCHANGED <<circuit, startGates, starts, stack, pending, dfs_state, idx>>

\* Mutant of Rest: the index is used after it was incremented.
RestAfterIncrement ==
    /\ pc = "rest" /\ idx <= Len(circuit.gates)
    /\ idx' = idx + 1
    /\ gateSorting' = IF dfs_state[idx] = "UNVISITED"
                      THEN Append(gateSorting, idx') ELSE gateSorting
    /\ UNCHANGED <<circuit, startGates, starts, stack, pending, dfs_state, pc>>

(* One iteration of the last loop, over all gates by id.                    *)
Rest ==
    /\ pc = "rest"
    /\ idx <= Len(circuit.gates)
    /\ gateSorting' = IF dfs_state[idx] = "UNVISITED"
                      THEN Append(gateSorting, idx) ELSE gateSorting
    /\ idx' = idx + 1
    /\ UNCHANGED <<circuit, startGates, starts, stack, pending, dfs_state, pc>>

Return ==
    /\ pc = "rest"
    /\ idx > Len(circuit.gates)
    /\ pc' = "done"
    /\ UNCHANGED <<circuit, startGates, starts, stack, pending, dfs_state, gateSorting, idx>>

Next == Start \/ Enter \/ EnqueueOperand \/ Leave \/ Skip \/ Over \/ Rest \/ Return

\* The search is one thread's loop: it runs as long as it has a step to take.
Spec == Init /\ [][Next]_vars /\ WF_vars(Next)

------------------------------------------------------------------------------
TypeOK ==
    /\ startGates \in Seq(GateIds(circuit))
    /\ starts \in Seq(GateIds(circuit))
    /\ stack \in Seq(GateIds(circuit))
    /\ pending \in Seq(GateIds(circuit))
    /\ dfs_state \in [GateIds(circuit) -> DFSStates]
    /\ gateSorting \in Seq(GateIds(circuit))
    /\ idx \in 1 .. Len(circuit.gates) + 1
    /\ pc \in {"search", "rest", "done"}

(* While a gate is entered, its topmost copy on the stack (position i) has  *)
(* only gates it depends on above it, and each of its operands was entered, *)
(* waits above it or is about to be enqueued.                               *)
HoldsPlace(g, i) ==
    /\ stack[i] = g
    /\ \A j \in i + 1 .. Len(stack) : Rank(circuit)[stack[j]] < Rank(circuit)[g]
    /\ \A o \in OperandSet(circuit, g) :
          \/ dfs_state[o] # "UNVISITED"
          \/ \E j \in i + 1 .. Len(stack) : stack[j] = o
          \/ \E j \in DOMAIN pending : pending[j] = o

EnteredOnStack ==
    \A g \in GateIds(circuit) :
        dfs_state[g] = "ENTERED" => \E i \in 1 .. Len(stack) : HoldsPlace(g, i)

PendingBelowEntered ==
    \A j \in DOMAIN pending : \A g \in GateIds(circuit) :
        dfs_state[g] = "ENTERED" => Rank(circuit)[pending[j]] < Rank(circuit)[g]

(* The order of the result: while searching an operand stands before its    *)
(* users, after the reversal behind them.                                   *)
OperandBefore == pc = "search" =>
    \A i \in DOMAIN gateSorting :
        /\ dfs_state[gateSorting[i]] = "VISITED"
        /\ \A o \in OperandSet(circuit, gateSorting[i]) :
              \E j \in 1 .. i - 1 : gateSorting[j] = o

(* Every gate the search visited stands before all of its operands in the   *)
(* sorting that the search returns: the transformers, which iterate over    *)
(* the reversed sorting, never meet a gate before its operands.             *)
SortIsTopological == pc # "search" =>
    \A i \in DOMAIN gateSorting :
        dfs_state[gateSorting[i]] = "VISITED" =>
            \A o \in OperandSet(circuit, gateSorting[i]) :
                \E j \in i + 1 .. Len(gateSorting) : gateSorting[j] = o

(* When the search is over no gate is left half-way, and the visited gates  *)
(* are exactly the cone of the start gates: a caller that keeps the visited *)
(* gates (see RedundantGatesCleaner) keeps what the outputs need and no     *)
(* more, duplicates on the stack and shared operands notwithstanding.       *)
MaskIsCone == pc # "search" =>
    /\ \A g \in GateIds(circuit) : dfs_state[g] # "ENTERED"
    /\ {g \in GateIds(circuit) : dfs_state[g] # "UNVISITED"}
           = Cone(circuit, {startGates[i] : i \in DOMAIN startGates})

(* From the sources, the result is "a vector of gates 1..N, sorted in       *)
(* topological order" (the doc of sorting): every gate once, behind all of  *)
(* its users.                                                               *)
SortsAllGates == pc = "done" =>
    (startGates = Sources(circuit) => IsTopSort(circuit, gateSorting))

(* Of the topological orders it is the one that SortFrom describes, from    *)
(* any start gates.                                                         *)
ReturnsTopSort == pc = "done" => gateSorting = SortFrom(circuit, startGates)

(* The loop ends, although it pushes gates that are on the stack already.   *)
Termination == <>(pc = "done")
==============================================================================
