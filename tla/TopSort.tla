------------------------------- MODULE TopSort -------------------------------
(****************************************************************************)
(* The order in which the transformers visit a circuit: what                *)
(* TopSortAlgorithm<DFSTopSort>::sorting returns (src/src/algo.hpp), as a   *)
(* function of the circuit, and the contract that its callers rely on.      *)
(* DepthFirstSearch is the loop that computes it; the run MCDepthFirstSearch*)
(* shows that the two agree.                                                *)
(****************************************************************************)
EXTENDS Circuits
LOCAL INSTANCE Integers
LOCAL INSTANCE Sequences

(* Gates without users, in the order of their ids: where the sort starts.   *)
Sources(c) ==
    LET sources[g \in 0 .. Len(c.gates)] ==
            IF g = 0 THEN <<>>
            ELSE IF HasUsers(c, g) THEN sources[g - 1] ELSE Append(sources[g - 1], g)
    IN  sources[Len(c.gates)]

(* The gates in the order in which a depth-first search from `starts`       *)
(* leaves them; operands are searched in the order they are stored.         *)
Leaves(left, g) == \E i \in DOMAIN left : left[i] = g

VisitAll(visit, gates, left) ==
    LET after[k \in 0 .. Len(gates)] ==
            IF k = 0 THEN left ELSE visit[gates[k]][after[k - 1]]
    IN  after[Len(gates)]

Postorder(c, starts) ==
    LET visit[g \in GateIds(c)] ==
            [left \in Seq(GateIds(c)) |->
                IF Leaves(left, g) THEN left
                                   ELSE Append(VisitAll(visit, Operands(c, g), left), g)]
    IN  VisitAll(visit, starts, <<>>)

(* The postorder reversed, then the gates no start gate leads to.           *)
SortFrom(c, starts) ==
    LET left == Postorder(c, starts)
        rest[g \in 0 .. Len(c.gates)] ==
            IF g = 0 THEN <<>>
            ELSE IF Leaves(left, g) THEN rest[g - 1] ELSE Append(rest[g - 1], g)
    IN  [i \in 1 .. Len(left) |-> left[Len(left) + 1 - i]] \o rest[Len(c.gates)]

DFSTopSort(c) == SortFrom(c, Sources(c))

(* The transformers go through it from the end.                             *)
Backwards(sorting) == [i \in DOMAIN sorting |-> sorting[Len(sorting) + 1 - i]]

ReversedSort(c) == Backwards(DFSTopSort(c))

(* "a vector of gates 1..N, sorted in topological order": every gate once,  *)
(* users before their operands.                                             *)
IsTopSort(c, s) ==
    /\ Len(s) = Len(c.gates)
    /\ {s[i] : i \in DOMAIN s} = GateIds(c)
    /\ \A i, j \in DOMAIN s : s[j] \in OperandSet(c, s[i]) => i < j
==============================================================================
