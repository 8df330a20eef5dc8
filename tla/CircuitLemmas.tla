--------------------------- MODULE CircuitLemmas ----------------------------
(****************************************************************************)
(* Lemmas that the proofs about the components share: about induction, the  *)
(* operators of circuits (cones, the gate operators, the states a circuit   *)
(* evaluates to), the sort of a circuit, and what all transformers are      *)
(* built from (sorted operands, encoders, rankings, copies of gates).       *)
(****************************************************************************)
EXTENDS GateEncoder, TopSort, Integers, FiniteSetTheorems, SequenceTheorems,
        WellFoundedInduction, TLAPS

------------------------------------------------------------------------------
(* Induction and recursion in a form that can be cited: about sets and      *)
(* functions, where the library has operators as parameters.  The proofs    *)
(* about recursive functions (a cone, the states of the gates, the fold of  *)
(* an operator, a sequence filtered) rest on the lemmas of this part.       *)

(* A set of natural numbers that is not empty has a least element.          *)
LEMMA LeastNatural ==
    ASSUME NEW T \in SUBSET Nat, T # {}
    PROVE  \E x \in T : \A y \in T : x <= y
<1> DEFINE R == {ss \in Nat \X Nat : ss[1] < ss[2]}
<1>1. IsWellFoundedOn(R, Nat)
  BY NatLessThanWellFounded DEF OpToRel
<1> HIDE DEF R
<1>2. PICK x \in T : \A y \in T : ~(<<y, x>> \in R)
  BY <1>1, WFMin
<1>3. ASSUME NEW y \in T PROVE x <= y
  <2>1. ~(y < x)
    BY <1>2 DEF R
  <2>. QED
    BY <2>1
<1>. QED
  BY <1>2, <1>3

(* Induction over the natural numbers.                                      *)
LEMMA NatSetInduction ==
    ASSUME NEW S, 0 \in S, \A n \in Nat : n \in S => n + 1 \in S
    PROVE  Nat \subseteq S
<1>1. SUFFICES ASSUME Nat \ S # {} PROVE FALSE
  OBVIOUS
<1>2. PICK x \in Nat \ S : \A y \in Nat \ S : x <= y
  BY <1>1, LeastNatural
<1>3. x - 1 \in Nat /\ x - 1 \in S
  BY <1>2
<1>. QED
  BY <1>2, <1>3

(* Induction over the ranks of the elements of a set.                       *)
LEMMA RankInduction ==
    ASSUME NEW S, NEW rank, NEW P,
           \A x \in S : rank[x] \in Nat,
           \A x \in S : (\A y \in S : rank[y] < rank[x] => y \in P) => x \in P
    PROVE  S \subseteq P
<1> SUFFICES ASSUME S \ P # {} PROVE FALSE
  OBVIOUS
<1> DEFINE Ranks == {rank[x] : x \in S \ P}
<1>1. Ranks \in SUBSET Nat /\ Ranks # {}
  OBVIOUS
<1>2. PICK r \in Ranks : \A s \in Ranks : r <= s
  <2> HIDE DEF Ranks
  <2>. QED
    BY <1>1, LeastNatural
<1>3. PICK x \in S \ P : rank[x] = r
  BY <1>2
<1>4. \A y \in S : rank[y] < rank[x] => y \in P
  BY <1>2, <1>3
<1>. QED
  BY <1>3, <1>4

(* F maps functions to functions such that the value for x depends on the   *)
(* values for elements of lower rank only.                                  *)
Descends(F, S, V, rank) ==
    /\ \A x \in S : rank[x] \in Nat
    /\ F \in [[S -> V] -> [S -> V]]
    /\ \A g, h \in [S -> V] : \A x \in S :
          (\A y \in S : rank[y] < rank[x] => g[y] = h[y]) => F[g][x] = F[h][x]

(* Then the equation f = F[f] defines a function.                           *)
LEMMA RecursiveFunction ==
    ASSUME NEW S, NEW V, V # {}, NEW rank, NEW F, Descends(F, S, V, rank)
    PROVE  \E f \in [S -> V] : f = F[f]
<1> USE DEF Descends
<1> PICK v \in V : TRUE
  OBVIOUS
<1> DEFINE Upto(g, n) == \A x \in S : rank[x] < n => g[x] = F[g][x]
           Defined    == {n \in Nat : \E g \in [S -> V] : Upto(g, n)}
\* There is a function that satisfies the equation for all ranks below n ...
<1>1. Nat \subseteq Defined
  <2>1. 0 \in Defined
    <3>1. [x \in S |-> v] \in [S -> V]
      OBVIOUS
    <3>2. Upto([x \in S |-> v], 0)
      OBVIOUS
    <3>. QED
      BY <3>1, <3>2
  <2>2. ASSUME NEW n \in Nat, n \in Defined PROVE n + 1 \in Defined
    <3>1. PICK g \in [S -> V] : Upto(g, n)
      BY <2>2
    <3>2. ASSUME NEW x \in S, rank[x] < n + 1 PROVE F[g][x] = F[F[g]][x]
      <4>1. \A y \in S : rank[y] < rank[x] => g[y] = F[g][y]
        BY <3>1, <3>2
      <4>. QED
        BY <4>1
    <3>3. F[g] \in [S -> V] /\ Upto(F[g], n + 1)
      BY <3>2
    <3> HIDE DEF Upto
    <3>. QED
      BY <3>3
  <2>. QED
    <3> HIDE DEF Defined
    <3>. QED
      BY <2>1, <2>2, NatSetInduction
\* ... and two such functions agree on these ranks.
<1>2. ASSUME NEW n \in Nat, NEW g \in [S -> V], NEW h \in [S -> V], Upto(g, n), Upto(h, n)
      PROVE  \A x \in S : rank[x] < n => g[x] = h[x]
  <2> DEFINE Same == {x \in S : rank[x] < n => g[x] = h[x]}
  <2>1. ASSUME NEW x \in S, \A y \in S : rank[y] < rank[x] => y \in Same PROVE x \in Same
    <3>1. CASE rank[x] < n
      <4>1. \A y \in S : rank[y] < rank[x] => g[y] = h[y]
        BY <2>1, <3>1
      <4>2. F[g][x] = F[h][x]
        BY <4>1
      <4>. QED
        BY <1>2, <3>1, <4>2
    <3>. QED
      BY <3>1
  <2>2. S \subseteq Same
    <3> HIDE DEF Same
    <3>1. \A x \in S : rank[x] \in Nat
      BY DEF Descends
    <3>2. \A x \in S : (\A y \in S : rank[y] < rank[x] => y \in Same) => x \in Same
      BY <2>1
    <3> HIDE DEF Descends
    <3>. QED
      BY <3>1, <3>2, RankInduction
  <2>. QED
    BY <2>2
<1> DEFINE G(n) == CHOOSE g \in [S -> V] : Upto(g, n)
           f    == [x \in S |-> G(rank[x] + 1)[x]]
<1>3. \A n \in Nat : G(n) \in [S -> V] /\ Upto(G(n), n)
  BY <1>1
<1> HIDE DEF G
<1>4. f \in [S -> V]
  BY <1>3
<1>5. ASSUME NEW x \in S PROVE f[x] = F[f][x]
  <2> DEFINE g == G(rank[x] + 1)
  <2>1. g \in [S -> V] /\ Upto(g, rank[x] + 1)
    BY <1>3
  <2>2. ASSUME NEW y \in S, rank[y] < rank[x] PROVE f[y] = g[y]
    <3>1. Upto(g, rank[y] + 1)
      BY <2>1, <2>2
    <3>2. G(rank[y] + 1) \in [S -> V] /\ Upto(G(rank[y] + 1), rank[y] + 1)
      BY <1>3
    <3> HIDE DEF g, Upto
    <3>3. rank[y] + 1 \in Nat /\ rank[y] < rank[y] + 1
      OBVIOUS
    <3>. QED
      BY <1>2, <2>1, <3>1, <3>2, <3>3
  <2>3. F[f][x] = F[g][x]
    <3> HIDE DEF f, g
    <3>. QED
      BY <1>4, <2>1, <2>2
  <2>4. g[x] = F[g][x]
    BY <2>1
  <2>. QED
    BY <2>3, <2>4
<1>6. F[f] \in [S -> V]
  BY <1>4
<1>. QED
  <2> HIDE DEF f
  <2>. QED
    BY <1>4, <1>5, <1>6

(* Sets of numbers up to N that grow from one of 0 .. N to the next cannot  *)
(* all be different: the last would have N + 1 elements.                    *)
LEMMA GrowingChain ==
    ASSUME NEW N \in Nat, NEW chain \in [0 .. N -> SUBSET (1 .. N)], chain[0] # {},
           \A k \in 0 .. N - 1 : chain[k] \subseteq chain[k + 1]
    PROVE  \E k \in 0 .. N - 1 : chain[k] = chain[k + 1] /\ chain[k] \subseteq chain[N]
<1>1. IsFiniteSet(1 .. N) /\ Cardinality(1 .. N) = N
  BY FS_Interval
<1>2. ASSUME NEW k \in 0 .. N
      PROVE  IsFiniteSet(chain[k]) /\ Cardinality(chain[k]) \in Nat /\ Cardinality(chain[k]) <= N
  <2>1. chain[k] \in SUBSET (1 .. N)
    OBVIOUS
  <2>. QED
    BY <1>1, <2>1, FS_Subset, FS_CardinalityType
<1>3. ASSUME \A k \in 0 .. N - 1 : chain[k] # chain[k + 1] PROVE FALSE
  <2> DEFINE Grows == {k \in Nat : k \in 0 .. N => Cardinality(chain[k]) >= k + 1}
  <2>1. 0 \in Grows
    <3>1. 0 \in 0 .. N
      OBVIOUS
    <3>2. Cardinality(chain[0]) # 0
      BY <1>2, <3>1, FS_EmptySet
    <3>. QED
      BY <1>2, <3>1, <3>2
  <2>2. ASSUME NEW k \in Nat, k \in Grows PROVE k + 1 \in Grows
    <3> SUFFICES ASSUME k + 1 \in 0 .. N PROVE Cardinality(chain[k + 1]) >= (k + 1) + 1
      OBVIOUS
    <3>1. k \in 0 .. N - 1 /\ k \in 0 .. N
      OBVIOUS
    <3>2. chain[k] \subseteq chain[k + 1] /\ chain[k] # chain[k + 1]
      BY <1>3, <3>1
    <3>3. Cardinality(chain[k]) <= Cardinality(chain[k + 1])
          /\ Cardinality(chain[k]) # Cardinality(chain[k + 1])
      BY <1>2, <3>2, FS_Subset
    <3>4. Cardinality(chain[k]) >= k + 1
      BY <2>2, <3>1
    <3>. QED
      BY <1>2, <3>1, <3>3, <3>4
  <2>3. Nat \subseteq Grows
    <3> HIDE DEF Grows
    <3>. QED
      BY <2>1, <2>2, NatSetInduction
  <2>4. N \in 0 .. N
    OBVIOUS
  <2>. QED
    BY <1>2, <2>3, <2>4
<1>4. ASSUME NEW k \in 0 .. N PROVE chain[k] \subseteq chain[N]
  <2> DEFINE Below == {d \in Nat : d \in 0 .. N => chain[N - d] \subseteq chain[N]}
  <2>1. 0 \in Below
    OBVIOUS
  <2>2. ASSUME NEW d \in Nat, d \in Below PROVE d + 1 \in Below
    <3> SUFFICES ASSUME d + 1 \in 0 .. N PROVE chain[N - (d + 1)] \subseteq chain[N]
      OBVIOUS
    <3>1. N - (d + 1) \in 0 .. N - 1 /\ (N - (d + 1)) + 1 = N - d /\ d \in 0 .. N
      OBVIOUS
    <3>2. chain[N - (d + 1)] \subseteq chain[N - d]
      BY <3>1
    <3>. QED
      BY <2>2, <3>1, <3>2
  <2>3. Nat \subseteq Below
    <3> HIDE DEF Below
    <3>. QED
      BY <2>1, <2>2, NatSetInduction
  <2>4. N - k \in Nat /\ N - k \in 0 .. N /\ N - (N - k) = k
    OBVIOUS
  <2>. QED
    BY <2>3, <2>4
<1>5. PICK k \in 0 .. N - 1 : chain[k] = chain[k + 1]
  BY <1>3
<1>6. k \in 0 .. N
  OBVIOUS
<1>. QED
  BY <1>4, <1>5, <1>6

(* A sequence of 1 .. n in which each number occurs once has length n.      *)
LEMMA PermutationLength ==
    ASSUME NEW m \in Nat, NEW n \in Nat, NEW f \in [1 .. m -> 1 .. n],
           \A i, j \in 1 .. m : f[i] = f[j] => i = j,
           \A k \in 1 .. n : \E i \in 1 .. m : f[i] = k
    PROVE  m = n
<1>1. f \in Bijection(1 .. m, 1 .. n)
  BY DEF Bijection, Injection, Surjection, IsInjective
<1>2. /\ IsFiniteSet(1 .. m) /\ Cardinality(1 .. m) = m
      /\ IsFiniteSet(1 .. n) /\ Cardinality(1 .. n) = n
  BY FS_Interval
<1>3. Cardinality(1 .. m) = Cardinality(1 .. n)
  BY <1>1, <1>2, FS_Bijection DEF ExistsBijection
<1>. QED
  BY <1>2, <1>3

(* The ranks of the numbers up to n are bounded.                            *)
LEMMA BoundedRanks ==
    ASSUME NEW n \in Nat, NEW rank, \A g \in 1 .. n : rank[g] \in Nat
    PROVE  \E b \in Nat : \A g \in 1 .. n : rank[g] <= b
<1> DEFINE Bounded == {k \in Nat : k <= n => \E b \in Nat : \A g \in 1 .. k : rank[g] <= b}
<1>1. 0 \in Bounded
  OBVIOUS
<1>2. ASSUME NEW k \in Nat, k \in Bounded PROVE k + 1 \in Bounded
  <2> SUFFICES ASSUME k + 1 <= n
               PROVE  \E b \in Nat : \A g \in 1 .. k + 1 : rank[g] <= b
    OBVIOUS
  <2>1. PICK b \in Nat : \A g \in 1 .. k : rank[g] <= b
    BY <1>2
  <2>2. rank[k + 1] \in Nat
    OBVIOUS
  <2>3. \A g \in 1 .. k + 1 : g = k + 1 \/ g \in 1 .. k
    OBVIOUS
  <2>4. \A g \in 1 .. k : rank[g] \in Nat
    OBVIOUS
  <2>5. \A g \in 1 .. k + 1 : rank[g] <= b + rank[k + 1]
    BY <2>1, <2>2, <2>3, <2>4
  <2>. QED
    BY <2>2, <2>5
<1>3. Nat \subseteq Bounded
  <2> HIDE DEF Bounded
  <2>. QED
    BY <1>1, <1>2, NatSetInduction
<1>4. n \in Bounded
  BY <1>3
<1>. QED
  BY <1>4

------------------------------------------------------------------------------

(* A function on 1 .. n is a sequence, the way the model builds most of its *)
(* sequences.                                                               *)
LEMMA FunctionIsSequence ==
    ASSUME NEW n \in Nat, NEW S, NEW f \in [1 .. n -> S]
    PROVE  f \in Seq(S) /\ Len(f) = n /\ DOMAIN f = 1 .. n
OBVIOUS

(* What a stack holds after its top is taken off.                           *)
LEMMA PopFacts ==
    ASSUME NEW S, NEW s \in Seq(S), Len(s) # 0
    PROVE  /\ Len(SubSeq(s, 1, Len(s) - 1)) = Len(s) - 1
           /\ \A j \in 1 .. Len(s) - 1 : SubSeq(s, 1, Len(s) - 1)[j] = s[j]
<1> DEFINE n == Len(s) - 1
<1>1. n \in Nat /\ n = n - 1 + 1
  OBVIOUS
<1>2. \A i \in 1 .. n : s[i] \in S
  OBVIOUS
<1>3. /\ Len(SubSeq(s, 1, n)) = IF 1 <= n THEN n - 1 + 1 ELSE 0
      /\ \A i \in 1 .. n - 1 + 1 : SubSeq(s, 1, n)[i] = s[1 + i - 1]
  BY <1>1, <1>2, SubSeqProperties
<1> HIDE DEF n
<1>4. Len(SubSeq(s, 1, n)) = n /\ \A i \in 1 .. n : SubSeq(s, 1, n)[i] = s[i]
  BY <1>1, <1>3
<1>. QED
  BY <1>4 DEF n

(* A loop over s that appends the elements at the positions of `keep`.      *)
IsKeptLoop(f, s, n, keep) ==
    f = [k \in 0 .. n |->
            IF k = 0 THEN <<>>
            ELSE IF k \in keep THEN Append(f[k - 1], s[k]) ELSE f[k - 1]]

(* Such a loop exists, ...                                                  *)
LEMMA KeptLoopExists ==
    ASSUME NEW n \in Nat, NEW s, NEW keep
    PROVE  \E f : IsKeptLoop(f, s, n, keep)
<1> DEFINE D == 0 .. n
           V == Seq({s[k] : k \in 1 .. n})
           Step(before, k) == IF k \in keep THEN Append(before, s[k]) ELSE before
           F == [f \in [D -> V] |-> [k \in D |-> IF k = 0 THEN <<>> ELSE Step(f[k - 1], k)]]
           rank == [k \in D |-> k]
<1>1. <<>> \in V
  OBVIOUS
<1>2. ASSUME NEW before \in V, NEW k \in 1 .. n PROVE Step(before, k) \in V
  <2>1. s[k] \in {s[j] : j \in 1 .. n}
    OBVIOUS
  <2>. QED
    BY <2>1
<1>3. ASSUME NEW k \in D, k # 0 PROVE k \in 1 .. n /\ k - 1 \in D /\ rank[k - 1] < rank[k]
  BY <1>3
<1>4. ASSUME NEW f \in [D -> V], NEW k \in D
      PROVE  (IF k = 0 THEN <<>> ELSE Step(f[k - 1], k)) \in V
  <2> HIDE DEF D, V, Step
  <2>. QED
    BY <1>1, <1>2, <1>3
<1>5. Descends(F, D, V, rank)
  <2>1. \A k \in D : rank[k] \in Nat
    OBVIOUS
  <2> HIDE DEF D, V, Step, rank
  <2>2. F \in [[D -> V] -> [D -> V]]
    BY <1>4
  <2>3. ASSUME NEW g \in [D -> V], NEW h \in [D -> V], NEW k \in D,
               \A j \in D : rank[j] < rank[k] => g[j] = h[j]
        PROVE  F[g][k] = F[h][k]
    BY <1>3, <2>3
  <2>. QED
    BY <2>1, <2>2, <2>3 DEF Descends
<1>6. PICK f \in [D -> V] : f = F[f]
  <2> HIDE DEF D, V, F, rank
  <2>. QED
    BY <1>1, <1>5, RecursiveFunction
<1>7. F[f] = [k \in D |-> IF k = 0 THEN <<>> ELSE Step(f[k - 1], k)]
  <2> HIDE DEF D, V, Step
  <2>. QED
    OBVIOUS
<1>. QED
  BY <1>6, <1>7 DEF IsKeptLoop

(* All that the loop is to keep of the first n elements is in its result.   *)
HoldsKept(result, s, n, keep) ==
    \A k \in 1 .. n : k \in keep => \E i \in DOMAIN result : result[i] = s[k]

(* ... and its result is a sequence of the elements kept, all of them.      *)
LEMMA KeptLoopResult ==
    ASSUME NEW n \in Nat, NEW keep, NEW S, NEW s,
           \A k \in 1 .. n : k \in keep => s[k] \in S,
           NEW f, IsKeptLoop(f, s, n, keep)
    PROVE  f[n] \in Seq(S) /\ HoldsKept(f[n], s, n, keep)
<1> DEFINE Kept(m) == /\ f[m] \in Seq(S)
                      /\ \A k \in 1 .. m : k \in keep => \E i \in DOMAIN f[m] : f[m][i] = s[k]
           Holds == {m \in Nat : m <= n => Kept(m)}
<1>1. 0 \in Holds
  BY DEF IsKeptLoop
<1>2. ASSUME NEW m \in Nat, m \in Holds PROVE m + 1 \in Holds
  <2> SUFFICES ASSUME m + 1 <= n PROVE Kept(m + 1)
    OBVIOUS
  <2>1. Kept(m) /\ m + 1 \in 1 .. n /\ m + 1 \in 0 .. n /\ m + 1 # 0 /\ (m + 1) - 1 = m
    BY <1>2
  <2>2. f[m + 1] = IF m + 1 \in keep THEN Append(f[m], s[m + 1]) ELSE f[m]
    BY <2>1 DEF IsKeptLoop
  <2>3. CASE m + 1 \in keep
    <3>1. f[m + 1] = Append(f[m], s[m + 1]) /\ s[m + 1] \in S /\ f[m] \in Seq(S)
      BY <2>1, <2>2, <2>3
    <3>2. /\ f[m + 1] \in Seq(S) /\ Len(f[m]) \in Nat
          /\ DOMAIN f[m] = 1 .. Len(f[m]) /\ DOMAIN f[m + 1] = 1 .. Len(f[m]) + 1
          /\ f[m + 1][Len(f[m]) + 1] = s[m + 1]
          /\ \A i \in 1 .. Len(f[m]) : f[m + 1][i] = f[m][i]
      BY <3>1
    <3>3. ASSUME NEW k \in 1 .. m + 1, k \in keep PROVE \E i \in DOMAIN f[m + 1] : f[m + 1][i] = s[k]
      <4>1. CASE k = m + 1
        BY <3>2, <4>1
      <4>2. CASE k # m + 1
        <5>1. k \in 1 .. m
          BY <4>2
        <5>2. PICK i \in DOMAIN f[m] : f[m][i] = s[k]
          BY <2>1, <3>3, <5>1
        <5>. QED
          BY <3>2, <5>2
      <4>. QED
        BY <4>1, <4>2
    <3>. QED
      BY <3>2, <3>3
  <2>4. CASE m + 1 \notin keep
    <3>1. \A k \in 1 .. m + 1 : k \in keep => k \in 1 .. m
      BY <2>4
    <3>. QED
      BY <2>1, <2>2, <2>4, <3>1
  <2>. QED
    BY <2>3, <2>4
<1>3. Nat \subseteq Holds
  <2> HIDE DEF Holds
  <2>. QED
    BY <1>1, <1>2, NatSetInduction
<1>4. n \in Holds
  BY <1>3
<1>. QED
  BY <1>4 DEF HoldsKept

------------------------------------------------------------------------------
(* The tables of gate_state.hpp have states in them, and those of the       *)
(* negated operators are negations.                                         *)
LEMMA TablesTyped ==
    ASSUME NEW a \in GateStates, NEW b \in GateStates, NEW x \in GateStates
    PROVE  /\ NOT(a) \in GateStates /\ IFF(a) \in GateStates
           /\ AND(a, b) \in GateStates /\ OR(a, b) \in GateStates /\ XOR(a, b) \in GateStates
           /\ NAND(a, b) = NOT(AND(a, b)) /\ NOR(a, b) = NOT(OR(a, b)) /\ NXOR(a, b) = NOT(XOR(a, b))
           /\ MUX(a, b, x) \in GateStates
BY DEF GateStates, StFalse, StTrue, StUndef, NOT, IFF, AND, OR, XOR, NAND, NOR, NXOR, MUX, Lookup1, Lookup2, Lookup3

(* The states a fold goes through when it does not stop early.              *)
Folds(state, op, args) ==
    /\ state \in [2 .. Len(args) -> GateStates]
    /\ state[2] = op[args[1]][args[2]]
    /\ \A i \in 3 .. Len(args) : state[i] = op[state[i - 1]][args[i]]

(* To stop at a terminal state makes no difference if the operator keeps    *)
(* it.                                                                      *)
LEMMA FoldStates ==
    ASSUME NEW op \in [GateStates -> [GateStates -> GateStates]], NEW terminal,
           terminal = StUndef \/ \A x \in GateStates : op[terminal][x] = terminal,
           NEW args \in Seq(GateStates), Len(args) >= 2
    PROVE  \E state : Folds(state, op, args) /\ FoldMap(op, terminal, args) = state[Len(args)]
<1> DEFINE n == Len(args)
           D == 2 .. n
           Step(before, arg) == IF terminal # StUndef /\ before = terminal THEN before
                                ELSE op[before][arg]
           F == [f \in [D -> GateStates] |->
                   [i \in D |-> IF i = 2 THEN op[args[1]][args[2]] ELSE Step(f[i - 1], args[i])]]
           rank == [i \in D |-> i]
<1>0. n \in Nat /\ n >= 2 /\ \A i \in 1 .. n : args[i] \in GateStates
  OBVIOUS
<1>1. ASSUME NEW x \in GateStates, NEW y \in GateStates
      PROVE  Step(x, y) = op[x][y] /\ op[x][y] \in GateStates
  OBVIOUS
<1>2. ASSUME NEW i \in D PROVE i = 2 \/ (i \in 3 .. n /\ i - 1 \in D /\ rank[i - 1] < rank[i])
  BY <1>0
<1>3. Descends(F, D, GateStates, rank)
  <2>1. ASSUME NEW f \in [D -> GateStates], NEW i \in D
        PROVE  (IF i = 2 THEN op[args[1]][args[2]] ELSE Step(f[i - 1], args[i])) \in GateStates
    <3>1. args[1] \in GateStates /\ args[2] \in GateStates /\ args[i] \in GateStates
      BY <1>0
    <3>2. CASE i = 2
      BY <1>1, <3>1, <3>2
    <3>3. CASE i # 2
      <4>1. f[i - 1] \in GateStates
        BY <1>2, <3>3
      <4>2. Step(f[i - 1], args[i]) = op[f[i - 1]][args[i]] /\ op[f[i - 1]][args[i]] \in GateStates
        BY <1>1, <3>1, <4>1
      <4> HIDE DEF Step
      <4>. QED
        BY <3>3, <4>2
    <3>. QED
      BY <3>2, <3>3
  <2>2. \A i \in D : rank[i] \in Nat
    BY <1>0
  <2> HIDE DEF D, rank, Step
  <2>3. F \in [[D -> GateStates] -> [D -> GateStates]]
    BY <2>1
  <2>4. ASSUME NEW g \in [D -> GateStates], NEW h \in [D -> GateStates], NEW i \in D,
               \A j \in D : rank[j] < rank[i] => g[j] = h[j]
        PROVE  F[g][i] = F[h][i]
    BY <1>2, <2>4
  <2>. QED
    BY <2>2, <2>3, <2>4 DEF Descends
<1>4. PICK f \in [D -> GateStates] : f = F[f]
  <2>1. GateStates # {}
    BY DEF GateStates
  <2> HIDE DEF F, D, rank
  <2>. QED
    BY <1>3, <2>1, RecursiveFunction
<1> DEFINE state == CHOOSE state : state = [i \in 2 .. Len(args) |->
            IF i = 2 THEN op[args[1]][args[2]]
            ELSE LET before == state[i - 1]
                 IN  IF terminal # StUndef /\ before = terminal
                     THEN before
                     ELSE op[before][args[i]]]
<1>5. FoldMap(op, terminal, args) = state[n]
  BY DEF FoldMap
<1>6. state = [i \in D |-> IF i = 2 THEN op[args[1]][args[2]] ELSE Step(state[i - 1], args[i])]
  BY <1>4
<1> HIDE DEF state
<1>7. state[2] = op[args[1]][args[2]]
  <2>1. 2 \in D
    BY <1>0
  <2>. QED
    BY <1>6, <2>1
<1>8. ASSUME NEW i \in 3 .. n PROVE state[i] = Step(state[i - 1], args[i])
  <2>1. i \in D /\ i # 2
    BY <1>0
  <2> HIDE DEF D, Step
  <2>. QED
    BY <1>6, <2>1
<1>9. ASSUME NEW i \in D PROVE state[i] \in GateStates
  <2> DEFINE Typed == {k \in Nat : k \in D => state[k] \in GateStates}
  <2>1. 0 \in Typed
    OBVIOUS
  <2>2. ASSUME NEW k \in Nat, k \in Typed PROVE k + 1 \in Typed
    <3> SUFFICES ASSUME k + 1 \in D PROVE state[k + 1] \in GateStates
      OBVIOUS
    <3>1. CASE k + 1 = 2
      <4>1. args[1] \in GateStates /\ args[2] \in GateStates
        BY <1>0
      <4>2. op[args[1]][args[2]] \in GateStates
        BY <1>1, <4>1
      <4>. QED
        BY <1>7, <3>1, <4>2
    <3>2. CASE k + 1 # 2
      <4>1. k + 1 \in 3 .. n /\ k \in D /\ (k + 1) - 1 = k /\ args[k + 1] \in GateStates
        BY <1>0, <3>2
      <4> HIDE DEF Step, D
      <4>2. state[k] \in GateStates
        BY <2>2, <4>1
      <4>3. state[k + 1] = Step(state[k], args[k + 1])
        BY <1>8, <4>1
      <4>4. Step(state[k], args[k + 1]) = op[state[k]][args[k + 1]]
            /\ op[state[k]][args[k + 1]] \in GateStates
        BY <1>1, <4>1, <4>2
      <4>. QED
        BY <4>3, <4>4
    <3>. QED
      BY <3>1, <3>2
  <2>3. Nat \subseteq Typed
    <3> HIDE DEF Typed
    <3>. QED
      BY <2>1, <2>2, NatSetInduction
  <2>4. i \in Nat
    BY <1>0
  <2>. QED
    BY <2>3, <2>4
<1>10. ASSUME NEW i \in 3 .. n PROVE state[i] = op[state[i - 1]][args[i]]
  <2>1. i - 1 \in D /\ args[i] \in GateStates
    BY <1>0
  <2>2. state[i - 1] \in GateStates
    BY <1>9, <2>1
  <2> HIDE DEF Step, D
  <2>. QED
    BY <1>1, <1>8, <2>1, <2>2
<1>11. state \in [2 .. n -> GateStates]
  <2> HIDE DEF Step, n
  <2>. QED
    BY <1>6, <1>9
<1>. QED
  BY <1>5, <1>7, <1>10, <1>11 DEF Folds

(* What is known stays known and what was open may be given any state.      *)
Refines(b, a) == a # StUndef => b = a

(* A binary operator that derives exactly what its operands imply.          *)
IsStateOperator(op) ==
    /\ op \in [GateStates -> [GateStates -> GateStates]]
    /\ \A a, b, c, d \in GateStates :
          Refines(c, a) /\ Refines(d, b) => Refines(op[c][d], op[a][b])
    /\ \A a, b \in GateStates : \A v \in {StFalse, StTrue} :
          Refines(v, op[a][b]) =>
              \E c, d \in {StFalse, StTrue} : Refines(c, a) /\ Refines(d, b) /\ op[c][d] = v

(* The tables of AND, OR and XOR are such operators, and the terminal       *)
(* states of the folds over AND and OR are absorbing.                       *)
LEMMA StateOperators ==
    /\ IsStateOperator(FunctionOf(AND))
    /\ IsStateOperator(FunctionOf(OR))
    /\ IsStateOperator(FunctionOf(XOR))
    /\ \A x \in GateStates : FunctionOf(AND)[StFalse][x] = StFalse
    /\ \A x \in GateStates : FunctionOf(OR)[StTrue][x] = StTrue
<1> USE DEF GateStates, StFalse, StTrue, StUndef, Lookup1, Lookup2, FunctionOf, Refines
<1>1. IsStateOperator(FunctionOf(AND))
  BY DEF IsStateOperator, AND
<1>2. IsStateOperator(FunctionOf(OR))
  BY DEF IsStateOperator, OR
<1>3. IsStateOperator(FunctionOf(XOR))
  BY DEF IsStateOperator, XOR
<1>. QED
  BY <1>1, <1>2, <1>3 DEF AND, OR

(* A fold over operands of which more is known derives no less.             *)
LEMMA FoldsRefine ==
    ASSUME NEW op, IsStateOperator(op),
           NEW n \in Nat, n >= 2,
           NEW a \in [1 .. n -> GateStates], NEW b \in [1 .. n -> GateStates],
           \A i \in 1 .. n : Refines(b[i], a[i]),
           NEW s, Folds(s, op, a), NEW t, Folds(t, op, b)
    PROVE  \A i \in 2 .. n : Refines(t[i], s[i])
<1> DEFINE Holds == {k \in Nat : k \in 2 .. n => Refines(t[k], s[k])}
<1>0. Len(a) = n /\ Len(b) = n
  BY FunctionIsSequence
<1>1. 0 \in Holds
  OBVIOUS
<1>2. ASSUME NEW k \in Nat, k \in Holds PROVE k + 1 \in Holds
  <2> SUFFICES ASSUME k + 1 \in 2 .. n PROVE Refines(t[k + 1], s[k + 1])
    OBVIOUS
  <2>1. CASE k + 1 = 2
    <3>1. 1 \in 1 .. n /\ 2 \in 1 .. n
      OBVIOUS
    <3>2. s[2] = op[a[1]][a[2]] /\ t[2] = op[b[1]][b[2]]
      BY DEF Folds
    <3>. QED
      BY <2>1, <3>1, <3>2 DEF IsStateOperator
  <2>2. CASE k + 1 # 2
    <3>1. k + 1 \in 3 .. n /\ k \in 2 .. n /\ (k + 1) - 1 = k /\ k + 1 \in 1 .. n
      BY <2>2
    <3>2. s[k + 1] = op[s[k]][a[k + 1]] /\ t[k + 1] = op[t[k]][b[k + 1]]
      BY <1>0, <3>1 DEF Folds
    <3>3. s[k] \in GateStates /\ t[k] \in GateStates
      BY <1>0, <3>1 DEF Folds
    <3>4. Refines(t[k], s[k]) /\ Refines(b[k + 1], a[k + 1])
      BY <1>2, <3>1
    <3>5. a[k + 1] \in GateStates /\ b[k + 1] \in GateStates
      BY <3>1
    <3>6. Refines(op[t[k]][b[k + 1]], op[s[k]][a[k + 1]])
      BY <3>3, <3>4, <3>5 DEF IsStateOperator
    <3>. QED
      BY <3>2, <3>6
  <2>. QED
    BY <2>1, <2>2
<1>3. Nat \subseteq Holds
  <2> HIDE DEF Holds
  <2>. QED
    BY <1>1, <1>2, NatSetInduction
<1>. QED
  BY <1>3

(* A fold has seen nothing of the operands it has not come to.              *)
LEMMA FoldsOfPrefix ==
    ASSUME NEW op, NEW n \in Nat, n >= 2,
           NEW a \in [1 .. n -> GateStates], NEW b \in [1 .. n -> GateStates],
           NEW s, Folds(s, op, a), NEW t, Folds(t, op, b),
           NEW i \in 2 .. n, \A j \in 1 .. i : a[j] = b[j]
    PROVE  s[i] = t[i]
<1> DEFINE Holds == {k \in Nat : k \in 2 .. i => t[k] = s[k]}
<1>0. Len(a) = n /\ Len(b) = n
  BY FunctionIsSequence
<1>1. 0 \in Holds
  OBVIOUS
<1>2. ASSUME NEW k \in Nat, k \in Holds PROVE k + 1 \in Holds
  <2> SUFFICES ASSUME k + 1 \in 2 .. i PROVE t[k + 1] = s[k + 1]
    OBVIOUS
  <2>1. CASE k + 1 = 2
    <3>1. 1 \in 1 .. i /\ 2 \in 1 .. i
      OBVIOUS
    <3>2. s[2] = op[a[1]][a[2]] /\ t[2] = op[b[1]][b[2]]
      BY DEF Folds
    <3>. QED
      BY <2>1, <3>1, <3>2
  <2>2. CASE k + 1 # 2
    <3>1. k + 1 \in 3 .. n /\ k \in 2 .. i /\ (k + 1) - 1 = k /\ k + 1 \in 1 .. i
      BY <2>2
    <3>2. s[k + 1] = op[s[k]][a[k + 1]] /\ t[k + 1] = op[t[k]][b[k + 1]]
      BY <1>0, <3>1 DEF Folds
    <3>3. t[k] = s[k]
      BY <1>2, <3>1
    <3>. QED
      BY <3>1, <3>2, <3>3
  <2>. QED
    BY <2>1, <2>2
<1>3. Nat \subseteq Holds
  <2> HIDE DEF Holds
  <2>. QED
    BY <1>1, <1>2, NatSetInduction
<1>. QED
  BY <1>3

(* b gives every operand that is undefined in a one of the two values.      *)
Completes(b, a) ==
    /\ b \in [DOMAIN a -> {StFalse, StTrue}]
    /\ \A i \in DOMAIN a : Refines(b[i], a[i])

(* Each value that a fold leaves possible is reached for some values of the *)
(* operands that are undefined.                                             *)
LEMMA FoldsReach ==
    ASSUME NEW op, IsStateOperator(op),
           NEW n \in Nat, n >= 2, NEW a \in [1 .. n -> GateStates],
           NEW s, Folds(s, op, a),
           NEW v \in {StFalse, StTrue}, Refines(v, s[n])
    PROVE  \E b, t : Completes(b, a) /\ Folds(t, op, b) /\ t[n] = v
<1> DEFINE Reached(i, w) == \E b, t : Completes(b, a) /\ Folds(t, op, b) /\ t[i] = w
           Holds == {k \in Nat : k \in 2 .. n =>
                        \A w \in {StFalse, StTrue} : Refines(w, s[k]) => Reached(k, w)}
<1>0. Len(a) = n /\ DOMAIN a = 1 .. n /\ {StFalse, StTrue} \subseteq GateStates
  BY FunctionIsSequence DEF GateStates
<1>1. ASSUME NEW b, Completes(b, a)
      PROVE  /\ b \in [1 .. n -> GateStates] /\ b \in Seq(GateStates) /\ Len(b) = n
             /\ \E t : Folds(t, op, b)
  <2>1. b \in [1 .. n -> GateStates]
    BY <1>0, <1>1 DEF Completes
  <2>2. b \in Seq(GateStates) /\ Len(b) = n
    BY <2>1, FunctionIsSequence
  <2>3. op \in [GateStates -> [GateStates -> GateStates]]
    BY DEF IsStateOperator
  <2>4. \E t : Folds(t, op, b) /\ FoldMap(op, StUndef, b) = t[Len(b)]
    BY <2>2, <2>3, FoldStates
  <2>. QED
    BY <2>1, <2>2, <2>4
<1>2. ASSUME NEW b, Completes(b, a), NEW i \in 1 .. n, NEW w \in {StFalse, StTrue}, Refines(w, a[i])
      PROVE  Completes([b EXCEPT ![i] = w], a)
  BY <1>0, <1>2 DEF Completes
<1>3. ASSUME NEW x \in GateStates, NEW y \in GateStates, NEW w \in {StFalse, StTrue},
             Refines(w, op[x][y])
      PROVE  \E c, d \in {StFalse, StTrue} : Refines(c, x) /\ Refines(d, y) /\ op[c][d] = w
  <2> HIDE DEF Refines
  <2>1. \A p, q \in GateStates : \A u \in {StFalse, StTrue} :
          Refines(u, op[p][q]) =>
              \E c, d \in {StFalse, StTrue} : Refines(c, p) /\ Refines(d, q) /\ op[c][d] = u
    BY DEF IsStateOperator
  <2>. QED
    BY <1>3, <2>1
<1>4. 0 \in Holds
  OBVIOUS
<1>5. ASSUME NEW k \in Nat, k \in Holds PROVE k + 1 \in Holds
  <2> SUFFICES ASSUME k + 1 \in 2 .. n, NEW w \in {StFalse, StTrue}, Refines(w, s[k + 1])
               PROVE  Reached(k + 1, w)
    OBVIOUS
  <2>1. CASE k + 1 = 2
    <3>1. 1 \in 1 .. n /\ 2 \in 1 .. n /\ a[1] \in GateStates /\ a[2] \in GateStates
      OBVIOUS
    <3>2. s[2] = op[a[1]][a[2]]
      BY DEF Folds
    <3>3. PICK c, d \in {StFalse, StTrue} : Refines(c, a[1]) /\ Refines(d, a[2]) /\ op[c][d] = w
      <4>1. Refines(w, op[a[1]][a[2]])
        BY <2>1, <3>2
      <4>. QED
        BY <1>3, <3>1, <4>1
    <3> DEFINE b0 == [i \in 1 .. n |-> IF a[i] = StUndef THEN StFalse ELSE a[i]]
               b1 == [b0 EXCEPT ![1] = c]
               b2 == [b1 EXCEPT ![2] = d]
    <3>4. Completes(b0, a)
      BY <1>0 DEF Completes, Refines, GateStates
    <3>5. b0 \in [1 .. n -> {StFalse, StTrue}]
      BY <1>0, <3>4 DEF Completes
    <3> HIDE DEF b0
    <3>6. Completes(b1, a)
      BY <1>2, <3>1, <3>3, <3>4
    <3>7. Completes(b2, a)
      <4> HIDE DEF b1
      <4>. QED
        BY <1>2, <3>1, <3>3, <3>6
    <3>8. b2[1] = c /\ b2[2] = d
      BY <3>1, <3>5
    <3> HIDE DEF b2
    <3>9. PICK t : Folds(t, op, b2)
      BY <1>1, <3>7
    <3>10. t[2] = w
      BY <3>3, <3>8, <3>9 DEF Folds
    <3>. QED
      BY <2>1, <3>7, <3>9, <3>10
  <2>2. CASE k + 1 # 2
    <3>1. k + 1 \in 3 .. n /\ k \in 2 .. n /\ (k + 1) - 1 = k /\ k + 1 \in 1 .. n
      BY <2>2
    <3>2. s[k + 1] = op[s[k]][a[k + 1]] /\ s[k] \in GateStates /\ a[k + 1] \in GateStates
      BY <1>0, <3>1 DEF Folds
    <3>3. PICK c, d \in {StFalse, StTrue} : Refines(c, s[k]) /\ Refines(d, a[k + 1]) /\ op[c][d] = w
      <4>1. Refines(w, op[s[k]][a[k + 1]])
        BY <3>2
      <4>. QED
        BY <1>3, <3>2, <4>1
    <3>4. PICK b, t : Completes(b, a) /\ Folds(t, op, b) /\ t[k] = c
      BY <1>5, <3>1, <3>3
    <3> DEFINE b2 == [b EXCEPT ![k + 1] = d]
    <3>5. Completes(b2, a)
      BY <1>2, <3>1, <3>3, <3>4
    <3>6. b2[k + 1] = d /\ \A j \in 1 .. k : b[j] = b2[j]
      BY <1>0, <3>1, <3>4 DEF Completes
    <3> HIDE DEF b2
    <3>7. PICK u : Folds(u, op, b2)
      BY <1>1, <3>5
    <3>8. b \in [1 .. n -> GateStates] /\ b2 \in [1 .. n -> GateStates] /\ Len(b2) = n
      BY <1>1, <3>4, <3>5
    <3>9. t[k] = u[k]
      <4> HIDE DEF Completes
      <4>1. \A j \in 1 .. k : b[j] = b2[j]
        BY <3>6
      <4>2. Folds(t, op, b) /\ Folds(u, op, b2) /\ k \in 2 .. n
        BY <3>1, <3>4, <3>7
      <4>. QED
        BY <3>8, <4>1, <4>2, FoldsOfPrefix
    <3>10. u[k + 1] = op[u[k]][b2[k + 1]]
      BY <3>1, <3>7, <3>8 DEF Folds
    <3>. QED
      BY <3>3, <3>4, <3>5, <3>6, <3>7, <3>9, <3>10
  <2>. QED
    BY <2>1, <2>2
<1>6. Nat \subseteq Holds
  <2> HIDE DEF Holds
  <2>. QED
    BY <1>4, <1>5, NatSetInduction
<1>7. n \in 2 .. n
  OBVIOUS
<1>. QED
  BY <1>6, <1>7

(* FoldMap keeps what its operator has: its value is a state, it derives no *)
(* less when more is known, and no less than what the operands imply.       *)
LEMMA FoldMapFacts ==
    ASSUME NEW op, IsStateOperator(op), NEW terminal,
           terminal = StUndef \/ \A x \in GateStates : op[terminal][x] = terminal,
           NEW n \in Nat, n >= 2, NEW a \in [1 .. n -> GateStates]
    PROVE  /\ FoldMap(op, terminal, a) \in GateStates
           /\ \A b \in [1 .. n -> GateStates] :
                 (\A i \in 1 .. n : Refines(b[i], a[i])) =>
                     Refines(FoldMap(op, terminal, b), FoldMap(op, terminal, a))
           /\ \A v \in {StFalse, StTrue} : Refines(v, FoldMap(op, terminal, a)) =>
                 \E b : Completes(b, a) /\ FoldMap(op, terminal, b) = v
           /\ n = 2 => FoldMap(op, terminal, a) = op[a[1]][a[2]]
<1>1. op \in [GateStates -> [GateStates -> GateStates]]
  BY DEF IsStateOperator
<1>2. ASSUME NEW b \in [1 .. n -> GateStates]
      PROVE  Len(b) = n /\ \E t : Folds(t, op, b) /\ FoldMap(op, terminal, b) = t[n]
  <2>1. b \in Seq(GateStates) /\ Len(b) = n
    BY FunctionIsSequence
  <2>2. \E t : Folds(t, op, b) /\ FoldMap(op, terminal, b) = t[Len(b)]
    BY <1>1, <2>1, FoldStates
  <2>. QED
    BY <2>1, <2>2
<1>3. PICK s : Folds(s, op, a) /\ FoldMap(op, terminal, a) = s[n]
  BY <1>2
<1>4. n \in 2 .. n /\ Len(a) = n
  BY <1>2
<1>5. FoldMap(op, terminal, a) \in GateStates
  BY <1>3, <1>4 DEF Folds
<1>6. ASSUME NEW b \in [1 .. n -> GateStates], \A i \in 1 .. n : Refines(b[i], a[i])
      PROVE  Refines(FoldMap(op, terminal, b), FoldMap(op, terminal, a))
  <2>1. PICK t : Folds(t, op, b) /\ FoldMap(op, terminal, b) = t[n]
    BY <1>2
  <2>2. \A i \in 2 .. n : Refines(t[i], s[i])
    BY <1>3, <1>6, <2>1, FoldsRefine
  <2>. QED
    BY <1>3, <1>4, <2>1, <2>2
<1>7. ASSUME NEW v \in {StFalse, StTrue}, Refines(v, FoldMap(op, terminal, a))
      PROVE  \E b : Completes(b, a) /\ FoldMap(op, terminal, b) = v
  <2>1. Refines(v, s[n])
    BY <1>3, <1>7
  <2>2. PICK b, t : Completes(b, a) /\ Folds(t, op, b) /\ t[n] = v
    BY <1>3, <2>1, FoldsReach
  <2>3. b \in [1 .. n -> GateStates]
    BY <2>2 DEF Completes, GateStates
  <2>4. PICK u : Folds(u, op, b) /\ FoldMap(op, terminal, b) = u[n]
    BY <1>2, <2>3
  <2>5. t[n] = u[n]
    BY <1>4, <2>2, <2>3, <2>4, FoldsOfPrefix
  <2>. QED
    BY <2>2, <2>4, <2>5
<1>8. n = 2 => FoldMap(op, terminal, a) = op[a[1]][a[2]]
  BY <1>3 DEF Folds
<1>. QED
  BY <1>5, <1>6, <1>7, <1>8

(* Operator, type by type.                                                  *)
LEMMA OperatorCases ==
    ASSUME NEW a
    PROVE  /\ Operator("NOT", a) = NOT(a[1])
           /\ Operator("IFF", a) = IFF(a[1])
           /\ Operator("AND", a) = FoldMap(FunctionOf(AND), StFalse, a)
           /\ Operator("NAND", a) = NOT(FoldMap(FunctionOf(AND), StFalse, a))
           /\ Operator("OR", a) = FoldMap(FunctionOf(OR), StTrue, a)
           /\ Operator("NOR", a) = NOT(FoldMap(FunctionOf(OR), StTrue, a))
           /\ Operator("XOR", a) = FoldMap(FunctionOf(XOR), StUndef, a)
           /\ Operator("NXOR", a) = NOT(FoldMap(FunctionOf(XOR), StUndef, a))
           /\ Operator("MUX", a) = MUX(a[1], a[2], a[3])
           /\ Operator("CONST_FALSE", a) = StFalse
           /\ Operator("CONST_TRUE", a) = StTrue
BY ZenonT(60) DEF Operator

(* The numbers of operands that evaluation accepts, type by type.           *)
LEMMA ArityCases ==
    ASSUME NEW type, NEW n, ArityOk(type, n)
    PROVE  /\ type \in FoldTypes => n >= 2
           /\ type \in {"NOT", "IFF"} => n = 1
           /\ type = "MUX" => n = 3
           /\ type \in {"INPUT", "CONST_FALSE", "CONST_TRUE"} => n = 0
           /\ type \in OperatorTypes \cup {"INPUT"}
BY ZenonT(60) DEF ArityOk, FoldTypes, OperatorTypes

(* The table of MUX chooses one operand, or nothing while the choice is     *)
(* open.                                                                    *)
LEMMA MuxSelects ==
    ASSUME NEW x \in GateStates, NEW y \in GateStates, NEW z \in GateStates
    PROVE  MUX(x, y, z) = IF x = StFalse THEN y ELSE IF x = StTrue THEN z ELSE StUndef
<1> USE DEF MUX, Lookup3, GateStates, StFalse, StTrue, StUndef
<1>1. CASE x = 0
  BY <1>1
<1>2. CASE x = 1
  BY <1>2
<1>3. CASE x = 2
  BY <1>3
<1>. QED
  BY <1>1, <1>2, <1>3

(* Every operator has a state as its value, derives no less when more is    *)
(* known of its operands and, but for MUX, no less than what the operands   *)
(* imply.                                                                   *)
LEMMA OperatorFacts ==
    ASSUME NEW type \in OperatorTypes, NEW n \in Nat, ArityOk(type, n),
           NEW a \in [1 .. n -> GateStates]
    PROVE  /\ Operator(type, a) \in GateStates
           /\ \A b \in [1 .. n -> GateStates] :
                 (\A i \in 1 .. n : Refines(b[i], a[i])) =>
                     Refines(Operator(type, b), Operator(type, a))
           /\ \A v \in {StFalse, StTrue} : type # "MUX" /\ Refines(v, Operator(type, a)) =>
                 \E b : Completes(b, a) /\ Operator(type, b) = v
<1> DEFINE Facts(Op(_)) ==
           /\ Op(a) \in GateStates
           /\ \A b \in [1 .. n -> GateStates] :
                 (\A i \in 1 .. n : Refines(b[i], a[i])) => Refines(Op(b), Op(a))
           /\ \A v \in {StFalse, StTrue} : Refines(v, Op(a)) =>
                 \E b : Completes(b, a) /\ Op(b) = v
<1>0. DOMAIN a = 1 .. n /\ {StFalse, StTrue} \subseteq GateStates
  BY DEF GateStates
<1>1. ASSUME NEW v \in {StFalse, StTrue}, NEW x \in GateStates
      PROVE  /\ NOT(x) \in GateStates /\ NOT(v) \in {StFalse, StTrue} /\ NOT(NOT(v)) = v
             /\ Refines(v, NOT(x)) => Refines(NOT(v), x)
             /\ IFF(x) = x
  BY DEF Refines, NOT, IFF, Lookup1, GateStates, StFalse, StTrue, StUndef
<1>2. ASSUME NEW x \in GateStates, NEW y \in GateStates, Refines(y, x)
      PROVE  Refines(NOT(y), NOT(x))
  BY <1>2 DEF Refines, NOT, Lookup1, GateStates, StFalse, StTrue, StUndef
<1>3. ASSUME NEW op, IsStateOperator(op), NEW terminal,
             terminal = StUndef \/ \A x \in GateStates : op[terminal][x] = terminal, n >= 2
      PROVE  /\ Facts(LAMBDA b : FoldMap(op, terminal, b))
             /\ Facts(LAMBDA b : NOT(FoldMap(op, terminal, b)))
  <2>1. /\ FoldMap(op, terminal, a) \in GateStates
        /\ \A b \in [1 .. n -> GateStates] :
              (\A i \in 1 .. n : Refines(b[i], a[i])) =>
                  Refines(FoldMap(op, terminal, b), FoldMap(op, terminal, a))
        /\ \A v \in {StFalse, StTrue} : Refines(v, FoldMap(op, terminal, a)) =>
              \E b : Completes(b, a) /\ FoldMap(op, terminal, b) = v
    BY <1>3, FoldMapFacts
  <2>2. \A b \in [1 .. n -> GateStates] : FoldMap(op, terminal, b) \in GateStates
    BY <1>3, FoldMapFacts
  <2>3. NOT(FoldMap(op, terminal, a)) \in GateStates
    BY <1>1, <2>1
  <2>4. ASSUME NEW b \in [1 .. n -> GateStates], \A i \in 1 .. n : Refines(b[i], a[i])
        PROVE  Refines(NOT(FoldMap(op, terminal, b)), NOT(FoldMap(op, terminal, a)))
    BY <1>2, <2>1, <2>2, <2>4
  <2>5. ASSUME NEW v \in {StFalse, StTrue}, Refines(v, NOT(FoldMap(op, terminal, a)))
        PROVE  \E b : Completes(b, a) /\ NOT(FoldMap(op, terminal, b)) = v
    <3>1. NOT(v) \in {StFalse, StTrue} /\ Refines(NOT(v), FoldMap(op, terminal, a)) /\ NOT(NOT(v)) = v
      BY <1>1, <2>1, <2>5
    <3>2. PICK b : Completes(b, a) /\ FoldMap(op, terminal, b) = NOT(v)
      BY <2>1, <3>1
    <3>. QED
      BY <3>1, <3>2
  <2>. QED
    BY <2>1, <2>3, <2>4, <2>5
<1>4. CASE type \in FoldTypes
  <2>1. n >= 2
    BY <1>4, ArityCases
  <2>2. /\ Facts(LAMBDA b : FoldMap(FunctionOf(AND), StFalse, b))
        /\ Facts(LAMBDA b : NOT(FoldMap(FunctionOf(AND), StFalse, b)))
    BY <1>3, <2>1, StateOperators
  <2>3. /\ Facts(LAMBDA b : FoldMap(FunctionOf(OR), StTrue, b))
        /\ Facts(LAMBDA b : NOT(FoldMap(FunctionOf(OR), StTrue, b)))
    BY <1>3, <2>1, StateOperators
  <2>4. /\ Facts(LAMBDA b : FoldMap(FunctionOf(XOR), StUndef, b))
        /\ Facts(LAMBDA b : NOT(FoldMap(FunctionOf(XOR), StUndef, b)))
    BY <1>3, <2>1, StateOperators
  <2>5. type \in {"AND", "NAND", "OR", "NOR", "XOR", "NXOR"}
    BY <1>4 DEF FoldTypes
  <2>6. \/ type = "AND" /\ \A b : Operator(type, b) = FoldMap(FunctionOf(AND), StFalse, b)
        \/ type = "NAND" /\ \A b : Operator(type, b) = NOT(FoldMap(FunctionOf(AND), StFalse, b))
        \/ type = "OR" /\ \A b : Operator(type, b) = FoldMap(FunctionOf(OR), StTrue, b)
        \/ type = "NOR" /\ \A b : Operator(type, b) = NOT(FoldMap(FunctionOf(OR), StTrue, b))
        \/ type = "XOR" /\ \A b : Operator(type, b) = FoldMap(FunctionOf(XOR), StUndef, b)
        \/ type = "NXOR" /\ \A b : Operator(type, b) = NOT(FoldMap(FunctionOf(XOR), StUndef, b))
    BY <2>5, OperatorCases
  <2>. QED
    BY <2>2, <2>3, <2>4, <2>6
<1>5. CASE type \in {"NOT", "IFF"}
  <2>1. n = 1 /\ 1 \in 1 .. n
    BY <1>5, ArityCases
  <2>2. \/ \A b : Operator(type, b) = NOT(b[1])
        \/ \A b : Operator(type, b) = IFF(b[1])
    BY <1>5, OperatorCases
  <2>3. ASSUME NEW w \in {StFalse, StTrue}, Refines(w, a[1])
        PROVE  \E b : Completes(b, a) /\ b[1] = w /\ b[1] \in GateStates
    <3>1. Completes([i \in 1 .. n |-> w], a)
      BY <1>0, <2>1, <2>3 DEF Completes
    <3>. QED
      BY <1>0, <2>1, <3>1
  <2>4. a[1] \in GateStates
    BY <2>1
  <2>5. Operator(type, a) \in GateStates
    BY <1>1, <2>2, <2>4
  <2>6. ASSUME NEW b \in [1 .. n -> GateStates], \A i \in 1 .. n : Refines(b[i], a[i])
        PROVE  Refines(Operator(type, b), Operator(type, a))
    <3>1. b[1] \in GateStates /\ Refines(b[1], a[1])
      BY <2>1, <2>6
    <3>. QED
      BY <1>1, <1>2, <2>2, <2>4, <3>1
  <2>7. ASSUME NEW v \in {StFalse, StTrue}, Refines(v, Operator(type, a))
        PROVE  \E b : Completes(b, a) /\ Operator(type, b) = v
    <3>1. CASE \A b : Operator(type, b) = NOT(b[1])
      <4>1. NOT(v) \in {StFalse, StTrue} /\ Refines(NOT(v), a[1]) /\ NOT(NOT(v)) = v
        BY <1>1, <2>4, <2>7, <3>1
      <4>2. PICK b : Completes(b, a) /\ b[1] = NOT(v)
        BY <2>3, <4>1
      <4>. QED
        BY <3>1, <4>1, <4>2
    <3>2. CASE \A b : Operator(type, b) = IFF(b[1])
      <4>1. Refines(v, a[1])
        BY <1>1, <2>4, <2>7, <3>2
      <4>2. PICK b : Completes(b, a) /\ b[1] = v /\ b[1] \in GateStates
        BY <2>3, <4>1
      <4>. QED
        BY <1>1, <3>2, <4>2
    <3>. QED
      BY <2>2, <3>1, <3>2
  <2>. QED
    BY <2>5, <2>6, <2>7
<1>6. CASE type = "MUX"
  <2>1. n = 3 /\ 1 \in 1 .. n /\ 2 \in 1 .. n /\ 3 \in 1 .. n
    BY <1>6, ArityCases
  <2>2. \A b : Operator(type, b) = MUX(b[1], b[2], b[3])
    BY <1>6, OperatorCases
  <2>3. ASSUME NEW x \in GateStates, NEW y \in GateStates, NEW z \in GateStates,
               NEW u \in GateStates, NEW v \in GateStates, NEW w \in GateStates,
               Refines(u, x), Refines(v, y), Refines(w, z)
        PROVE  MUX(x, y, z) \in GateStates /\ Refines(MUX(u, v, w), MUX(x, y, z))
    BY <2>3, MuxSelects DEF Refines, GateStates, StFalse, StTrue, StUndef
  <2>4. a[1] \in GateStates /\ a[2] \in GateStates /\ a[3] \in GateStates
    BY <2>1
  <2>5. MUX(a[1], a[2], a[3]) \in GateStates
    BY <2>3, <2>4 DEF Refines
  <2>6. ASSUME NEW b \in [1 .. n -> GateStates], \A i \in 1 .. n : Refines(b[i], a[i])
        PROVE  Refines(MUX(b[1], b[2], b[3]), MUX(a[1], a[2], a[3]))
    <3>1. b[1] \in GateStates /\ b[2] \in GateStates /\ b[3] \in GateStates
      BY <2>1
    <3>2. Refines(b[1], a[1]) /\ Refines(b[2], a[2]) /\ Refines(b[3], a[3])
      BY <2>1, <2>6
    <3>. QED
      BY <2>3, <2>4, <3>1, <3>2
  <2>. QED
    BY <1>6, <2>2, <2>5, <2>6
<1>7. CASE type \in {"CONST_FALSE", "CONST_TRUE"}
  <2>1. n = 0
    BY <1>7, ArityCases
  <2>2. \/ \A b : Operator(type, b) = StFalse
        \/ \A b : Operator(type, b) = StTrue
    BY <1>7, OperatorCases
  <2>3. Completes(a, a)
    BY <1>0, <2>1 DEF Completes, Refines
  <2>4. \A v \in {StFalse, StTrue} : Refines(v, StFalse) => v = StFalse
    BY DEF Refines, StFalse, StTrue, StUndef
  <2>5. \A v \in {StFalse, StTrue} : Refines(v, StTrue) => v = StTrue
    BY DEF Refines, StFalse, StTrue, StUndef
  <2>6. \A x : Refines(x, x)
    BY DEF Refines
  <2>. QED
    BY <1>0, <2>2, <2>3, <2>4, <2>5, <2>6
<1>8. type \in FoldTypes \/ type \in {"NOT", "IFF"} \/ type = "MUX"
      \/ type \in {"CONST_FALSE", "CONST_TRUE"}
  BY DEF OperatorTypes
<1>. QED
  BY <1>4, <1>5, <1>6, <1>7, <1>8
------------------------------------------------------------------------------
(* All that the cone of a set of gates needs of a circuit.                  *)
OperandsInside(c) ==
    /\ Len(c.gates) \in Nat
    /\ \A g \in GateIds(c) : OperandSet(c, g) \subseteq GateIds(c)

(* A set of gates that holds what its gates are computed from.              *)
IsClosed(c, T) == \A g \in T : OperandSet(c, g) \subseteq T

(* The sets that Cone goes through: each adds the operands of the one       *)
(* before.                                                                  *)
LEMMA ConeSteps ==
    ASSUME NEW c, OperandsInside(c), NEW S \in SUBSET GateIds(c)
    PROVE  \E step \in [0 .. Len(c.gates) -> SUBSET GateIds(c)] :
              /\ step[0] = S
              /\ \A k \in 1 .. Len(c.gates) :
                    step[k] = step[k - 1] \cup UNION {OperandSet(c, g) : g \in step[k - 1]}
              /\ Cone(c, S) = step[Len(c.gates)]
<1> USE DEF OperandsInside
<1> DEFINE N == Len(c.gates)
           D == 0 .. N
           V == SUBSET GateIds(c)
           Up(T) == T \cup UNION {OperandSet(c, g) : g \in T}
           F == [f \in [D -> V] |-> [k \in D |-> IF k = 0 THEN S ELSE Up(f[k - 1])]]
           rank == [k \in D |-> k]
<1>1. ASSUME NEW T \in V PROVE Up(T) \in V
  OBVIOUS
<1>2. F \in [[D -> V] -> [D -> V]]
  <2>1. ASSUME NEW f \in [D -> V], NEW k \in D PROVE (IF k = 0 THEN S ELSE Up(f[k - 1])) \in V
    <3>1. CASE k = 0
      BY <3>1
    <3>2. CASE k # 0
      <4>1. k - 1 \in D
        BY <3>2
      <4>2. f[k - 1] \in V
        BY <4>1
      <4>. HIDE DEF Up, V
      <4>. QED
        BY <1>1, <3>2, <4>2
    <3>. QED
      BY <3>1, <3>2
  <2> HIDE DEF D, V, Up
  <2>. QED
    BY <2>1
<1>3. \E f \in [D -> V] : f = F[f]
  <2>1. V # {} /\ \A x \in D : rank[x] \in Nat
    OBVIOUS
  <2>2. ASSUME NEW g \in [D -> V], NEW h \in [D -> V], NEW x \in D,
               \A y \in D : rank[y] < rank[x] => g[y] = h[y]
        PROVE  F[g][x] = F[h][x]
    <3>1. x # 0 => x - 1 \in D /\ rank[x - 1] < rank[x]
      OBVIOUS
    <3> HIDE DEF D, V, Up, rank
    <3>. QED
      BY <2>2, <3>1
  <2>. HIDE DEF D, V, F, rank
  <2>. QED
    <3>1. Descends(F, D, V, rank)
      BY <1>2, <2>1, <2>2 DEF Descends
    <3>. QED
      BY <2>1, <3>1, RecursiveFunction
<1>4. PICK f \in [D -> V] : f = F[f]
  BY <1>3
<1>5. f = [k \in 0 .. Len(c.gates) |->
             IF k = 0 THEN S
             ELSE LET reached == f[k - 1]
                  IN  reached \cup UNION {OperandSet(c, g) : g \in reached}]
  BY <1>4
<1> DEFINE step == CHOOSE step : step = [k \in 0 .. Len(c.gates) |->
             IF k = 0 THEN S
             ELSE LET reached == step[k - 1]
                  IN  reached \cup UNION {OperandSet(c, g) : g \in reached}]
<1>6. Cone(c, S) = step[N]
  BY DEF Cone
<1>7. step = [k \in 0 .. Len(c.gates) |->
             IF k = 0 THEN S
             ELSE LET reached == step[k - 1]
                  IN  reached \cup UNION {OperandSet(c, g) : g \in reached}]
  BY <1>5
<1> HIDE DEF step
<1>8. step[0] = S
  BY <1>7
<1>9. ASSUME NEW k \in 1 .. N PROVE step[k] = Up(step[k - 1])
  <2>1. k \in 0 .. N /\ k # 0
    OBVIOUS
  <2>. QED
    BY <1>7, <2>1
<1>10. step \in [D -> V]
  <2> DEFINE Typed == {k \in Nat : k \in D => step[k] \in V}
  <2>1. 0 \in Typed
    BY <1>8
  <2>2. ASSUME NEW k \in Nat, k \in Typed PROVE k + 1 \in Typed
    <3>1. CASE k + 1 \in D
      <4>1. k \in D /\ k + 1 \in 1 .. N /\ (k + 1) - 1 = k
        BY <3>1
      <4>2. step[k] \in V /\ step[k + 1] = Up(step[k])
        BY <1>9, <2>2, <4>1
      <4>. QED
        BY <1>1, <4>2
    <3>. QED
      BY <3>1
  <2>3. Nat \subseteq Typed
    <3> HIDE DEF Typed
    <3>. QED
      BY <2>1, <2>2, NatSetInduction
  <2>4. \A k \in D : step[k] \in V
    BY <2>3
  <2> HIDE DEF V, D, Up
  <2>. QED
    BY <1>7, <2>4 DEF D
<1>. QED
  BY <1>6, <1>8, <1>9, <1>10

(* The cone of S is the least closed set of gates that contains S.  It is   *)
(* closed because a chain of sets of gates that grows at every step would   *)
(* outgrow the circuit: the last of Len(c.gates) steps adds nothing.        *)
LEMMA ConeProperties ==
    ASSUME NEW c, OperandsInside(c), NEW S \in SUBSET GateIds(c)
    PROVE  /\ S \subseteq Cone(c, S)
           /\ Cone(c, S) \subseteq GateIds(c)
           /\ IsClosed(c, Cone(c, S))
           /\ \A T : S \subseteq T /\ IsClosed(c, T) => Cone(c, S) \subseteq T
<1> DEFINE N == Len(c.gates)
           Up(T) == T \cup UNION {OperandSet(c, g) : g \in T}
<1>1. N \in Nat
  BY DEF OperandsInside
<1>2. PICK step \in [0 .. N -> SUBSET GateIds(c)] :
         /\ step[0] = S
         /\ \A k \in 1 .. N : step[k] = Up(step[k - 1])
         /\ Cone(c, S) = step[N]
  BY ConeSteps
<1>3. \A T : IsClosed(c, T) <=> Up(T) = T
  BY DEF IsClosed
<1> HIDE DEF Up
<1>4. ASSUME NEW k \in 0 .. N - 1
      PROVE  /\ k \in 0 .. N /\ k + 1 \in 0 .. N
             /\ step[k + 1] = Up(step[k])
             /\ step[k] \subseteq step[k + 1]
  <2>1. k \in 0 .. N /\ k + 1 \in 1 .. N /\ (k + 1) - 1 = k
    BY <1>1
  <2>2. step[k + 1] = Up(step[k])
    BY <1>2, <2>1
  <2>. QED
    BY <1>1, <2>1, <2>2 DEF Up
<1>5. \A k \in 0 .. N : S \subseteq step[k]
  <2> DEFINE Holds == {k \in Nat : k \in 0 .. N => S \subseteq step[k]}
  <2>1. 0 \in Holds
    BY <1>2
  <2>2. ASSUME NEW k \in Nat, k \in Holds PROVE k + 1 \in Holds
    <3>1. k + 1 \in 0 .. N => k \in 0 .. N - 1 /\ k \in 0 .. N
      BY <1>1
    <3>. QED
      BY <1>4, <2>2, <3>1
  <2>3. Nat \subseteq Holds
    <3> HIDE DEF Holds
    <3>. QED
      BY <2>1, <2>2, NatSetInduction
  <2>. QED
    BY <2>3
<1>6. ASSUME NEW T, S \subseteq T, IsClosed(c, T) PROVE step[N] \subseteq T
  <2> DEFINE Holds == {k \in Nat : k \in 0 .. N => step[k] \subseteq T}
  <2>1. 0 \in Holds
    BY <1>2, <1>6
  <2>2. ASSUME NEW k \in Nat, k \in Holds PROVE k + 1 \in Holds
    <3>1. k + 1 \in 0 .. N => k \in 0 .. N - 1 /\ k \in 0 .. N
      BY <1>1
    <3>2. step[k] \subseteq T => Up(step[k]) \subseteq T
      BY <1>6 DEF IsClosed, Up
    <3>. QED
      BY <1>4, <2>2, <3>1, <3>2
  <2>3. Nat \subseteq Holds
    <3> HIDE DEF Holds
    <3>. QED
      BY <2>1, <2>2, NatSetInduction
  <2>. QED
    BY <1>1, <2>3
<1>7. Up(step[N]) = step[N]
  <2>1. CASE S = {}
    <3>1. step[N] \subseteq {} /\ Up({}) = {}
      BY <1>6, <2>1 DEF IsClosed, Up
    <3>. QED
      BY <3>1
  <2>2. CASE S # {}
    <3>1. step \in [0 .. N -> SUBSET (1 .. N)]
      BY DEF GateIds
    <3>2. PICK k \in 0 .. N - 1 : step[k] = step[k + 1] /\ step[k] \subseteq step[N]
      BY <1>1, <1>2, <1>4, <2>2, <3>1, GrowingChain
    <3>3. IsClosed(c, step[k])
      BY <1>3, <1>4, <3>2
    <3>4. S \subseteq step[k]
      BY <1>4, <1>5, <3>2
    <3>5. step[N] = step[k]
      BY <1>6, <3>2, <3>3, <3>4
    <3>. QED
      BY <1>4, <3>2, <3>5
  <2>. QED
    BY <2>1, <2>2
<1>8. step[N] \subseteq GateIds(c)
  BY <1>1, <1>2
<1>9. S \subseteq step[N]
  BY <1>1, <1>5
<1>. QED
  BY <1>2, <1>3, <1>6, <1>7, <1>8, <1>9

------------------------------------------------------------------------------
(* The state of g is derived, not given.                                    *)
IsFree(c, asmt, g) == ~(Type(c, g) = "INPUT" \/ asmt[g] # StUndef)

(* The states satisfy their recursive definition on acyclic circuits.       *)
LEMMA StatesEquation ==
    ASSUME NEW c, NEW rank, IsRanking(c, rank), OperandsInside(c), NEW asmt
    PROVE  \A g \in GateIds(c) :
              StatesOf(c, asmt)[g] =
                  IF IsFree(c, asmt, g)
                  THEN Operator(Type(c, g), [i \in DOMAIN Operands(c, g) |->
                                               StatesOf(c, asmt)[Operands(c, g)[i]]])
                  ELSE asmt[g]
<1> DEFINE S == GateIds(c)
           Args(f, g) == [i \in DOMAIN Operands(c, g) |-> f[Operands(c, g)[i]]]
           Body(f, g) == IF Type(c, g) = "INPUT" \/ asmt[g] # StUndef THEN asmt[g]
                         ELSE Operator(Type(c, g), Args(f, g))
           Upto(f, n) == \A g \in S : rank[g] < n => f[g] = Body(f, g)
           Defined == {n \in Nat : \E f : Upto(f, n)}
<1>1. ASSUME NEW g \in S, NEW f, NEW h, \A o \in S : rank[o] < rank[g] => f[o] = h[o]
      PROVE  Body(f, g) = Body(h, g)
  <2>1. \A i \in DOMAIN Operands(c, g) : Operands(c, g)[i] \in S /\ rank[Operands(c, g)[i]] < rank[g]
    BY DEF IsRanking, OperandsInside, OperandSet
  <2>2. Args(f, g) = Args(h, g)
    BY <1>1, <2>1
  <2> HIDE DEF Args
  <2>. QED
    BY <2>2
<1>2. \A g \in S : rank[g] \in Nat
  BY DEF IsRanking
<1> HIDE DEF Body, S
<1>3. Nat \subseteq Defined
  <2>1. 0 \in Defined
    <3>1. Upto(<<>>, 0)
      BY <1>2
    <3>. QED
      BY <3>1
  <2>2. ASSUME NEW n \in Nat, n \in Defined PROVE n + 1 \in Defined
    <3>1. PICK f : Upto(f, n)
      BY <2>2
    <3> DEFINE h == [g \in S |-> Body(f, g)]
    <3>2. ASSUME NEW g \in S, rank[g] < n + 1 PROVE h[g] = Body(h, g)
      <4>1. \A o \in S : rank[o] < rank[g] => f[o] = h[o]
        BY <1>2, <3>1, <3>2
      <4>2. Body(f, g) = Body(h, g)
        <5> HIDE DEF h
        <5>. QED
          BY <1>1, <4>1
      <4>. QED
        BY <4>2
    <3>3. Upto(h, n + 1)
      <4> HIDE DEF h
      <4>. QED
        BY <3>2
    <3> HIDE DEF Upto, h
    <3>. QED
      BY <3>3
  <2>. QED
    <3> HIDE DEF Defined
    <3>. QED
      BY <2>1, <2>2, NatSetInduction
<1>4. ASSUME NEW n \in Nat, NEW f, NEW h, Upto(f, n), Upto(h, n)
      PROVE  \A g \in S : rank[g] < n => f[g] = h[g]
  <2> DEFINE Same == {g \in S : rank[g] < n => f[g] = h[g]}
  <2>1. ASSUME NEW g \in S, \A o \in S : rank[o] < rank[g] => o \in Same PROVE g \in Same
    <3>1. CASE rank[g] < n
      <4>1. \A o \in S : rank[o] < rank[g] => f[o] = h[o]
        BY <1>2, <2>1, <3>1
      <4>2. Body(f, g) = Body(h, g)
        BY <1>1, <4>1
      <4>. QED
        BY <1>4, <3>1, <4>2
    <3>. QED
      BY <3>1
  <2>2. S \subseteq Same
    <3> HIDE DEF Same
    <3>. QED
      BY <1>2, <2>1, RankInduction
  <2>. QED
    BY <2>2
<1> DEFINE G(n) == CHOOSE f : Upto(f, n)
           f == [g \in S |-> G(rank[g] + 1)[g]]
<1>5. \A n \in Nat : Upto(G(n), n)
  BY <1>3
<1> HIDE DEF G
<1>6. ASSUME NEW g \in S PROVE f[g] = Body(f, g)
  <2> DEFINE h == G(rank[g] + 1)
  <2>1. Upto(h, rank[g] + 1)
    BY <1>2, <1>5
  <2>2. ASSUME NEW o \in S, rank[o] < rank[g] PROVE f[o] = h[o]
    <3>1. rank[o] + 1 \in Nat /\ rank[o] < rank[o] + 1
      BY <1>2
    <3>2. Upto(h, rank[o] + 1)
      BY <1>2, <2>1, <2>2
    <3>3. Upto(G(rank[o] + 1), rank[o] + 1)
      BY <1>5, <3>1
    <3> HIDE DEF h, Upto
    <3>. QED
      BY <1>4, <3>1, <3>2, <3>3
  <2>3. Body(f, g) = Body(h, g)
    <3> HIDE DEF f, h
    <3>. QED
      BY <1>1, <2>2
  <2>4. h[g] = Body(h, g)
    BY <1>2, <2>1
  <2>. QED
    BY <2>3, <2>4
<1>7. f = [g \in S |-> Body(f, g)]
  <2>1. f = [g \in S |-> f[g]]
    OBVIOUS
  <2> HIDE DEF f
  <2>. QED
    BY <1>6, <2>1
<1> DEFINE state == CHOOSE state : state = [g \in GateIds(c) |->
            IF Type(c, g) = "INPUT" \/ asmt[g] # StUndef
            THEN asmt[g]
            ELSE Operator(Type(c, g),
                          [i \in DOMAIN Operands(c, g) |-> state[Operands(c, g)[i]]])]
<1>8. StatesOf(c, asmt) = state
  BY DEF StatesOf
<1>9. state = [g \in S |-> Body(state, g)]
  <2>1. \E h : h = [g \in S |-> Body(h, g)]
    BY <1>7
  <2>. QED
    BY <2>1 DEF Body, S
<1> HIDE DEF state
<1>10. \A g \in S : state[g] = Body(state, g)
  BY <1>9
<1>. QED
  BY <1>8, <1>10 DEF S, Body, IsFree

(* The circuit cut at the gates whose state is given is one more circuit,   *)
(* with the same gates and the operands of the free gates only.             *)
LEMMA CutFacts ==
    ASSUME NEW c, OperandsInside(c), NEW asmt
    PROVE  /\ OperandsInside(CutAtGiven(c, asmt))
           /\ GateIds(CutAtGiven(c, asmt)) = GateIds(c)
           /\ \A g \in GateIds(c) :
                 OperandSet(CutAtGiven(c, asmt), g) =
                     IF IsFree(c, asmt, g) THEN OperandSet(c, g) ELSE {}
<1> DEFINE cut == CutAtGiven(c, asmt)
           Info(g) == IF IsFree(c, asmt, g) THEN c.gates[g] ELSE NoGateInfo
<1>1. cut.gates = [g \in GateIds(c) |-> Info(g)]
  BY DEF CutAtGiven, IsFree
<1>2. Len(c.gates) \in Nat /\ GateIds(c) = 1 .. Len(c.gates)
  BY DEF OperandsInside, GateIds
<1>3. Len(cut.gates) = Len(c.gates)
  <2> DEFINE f == [g \in 1 .. Len(c.gates) |-> Info(g)]
             V == {Info(g) : g \in 1 .. Len(c.gates)}
  <2>1. f \in [1 .. Len(c.gates) -> V]
    OBVIOUS
  <2>2. Len(f) = Len(c.gates)
    <3> HIDE DEF f, V
    <3>. QED
      BY <1>2, <2>1, FunctionIsSequence
  <2>. QED
    BY <1>1, <1>2, <2>2
<1>4. GateIds(cut) = GateIds(c)
  BY <1>3 DEF GateIds
<1>5. ASSUME NEW g \in GateIds(c)
      PROVE  OperandSet(cut, g) = IF IsFree(c, asmt, g) THEN OperandSet(c, g) ELSE {}
  <2>1. cut.gates[g] = Info(g)
    BY <1>1
  <2>2. CASE IsFree(c, asmt, g)
    BY <2>1, <2>2 DEF OperandSet, Operands
  <2>3. CASE ~IsFree(c, asmt, g)
    BY <2>1, <2>3 DEF OperandSet, Operands, NoGateInfo
  <2>. QED
    BY <2>2, <2>3
<1>6. OperandsInside(cut)
  <2> HIDE DEF cut
  <2>. QED
    BY <1>2, <1>3, <1>4, <1>5 DEF OperandsInside
<1>. QED
  BY <1>4, <1>5, <1>6

------------------------------------------------------------------------------
(* The sort of a circuit: the function that visits a gate, the postorder it *)
(* gives, and that DFSTopSort has every gate once and users before their    *)
(* operands.                                                                *)

(* What a loop goes through that visits one gate after another, ...         *)
IsRun(run, visit, gates, left) ==
    /\ run[0] = left
    /\ \A k \in 1 .. Len(gates) : run[k] = visit[gates[k]][run[k - 1]]

(* Functions that visit a gate of S: from what has been left to what then   *)
(* has been left.                                                           *)
Visits(S) == [S -> [Seq(S) -> Seq(S)]]

(* ... which exists and ends with VisitAll, ...                             *)
LEMMA VisitAllLoop ==
    ASSUME NEW S, NEW visit \in Visits(S), NEW gates \in Seq(S), NEW left \in Seq(S)
    PROVE  \E run \in [0 .. Len(gates) -> Seq(S)] :
              IsRun(run, visit, gates, left) /\ VisitAll(visit, gates, left) = run[Len(gates)]
<1> DEFINE n == Len(gates)
           D == 0 .. n
           V == Seq(S)
           F == [f \in [D -> V] |->
                   [k \in D |-> IF k = 0 THEN left ELSE visit[gates[k]][f[k - 1]]]]
           rank == [k \in D |-> k]
<1>0. n \in Nat /\ \A k \in 1 .. n : gates[k] \in S
  OBVIOUS
<1>a. \A g \in S : \A s \in V : visit[g][s] \in V
  BY DEF Visits
<1>b. \A k \in D : k # 0 => k - 1 \in D /\ k \in 1 .. n /\ gates[k] \in S
  BY <1>0
<1>1. ASSUME NEW f \in [D -> V], NEW k \in D
      PROVE  (IF k = 0 THEN left ELSE visit[gates[k]][f[k - 1]]) \in V
  <2>1. CASE k # 0
    <3>1. f[k - 1] \in V /\ gates[k] \in S
      <4> HIDE DEF D, V
      <4>. QED
        BY <1>b, <2>1
    <3>. QED
      BY <1>a, <2>1, <3>1
  <2>. QED
    BY <2>1
<1>2. Descends(F, D, V, rank)
  <2>1. \A k \in D : rank[k] \in Nat
    BY <1>0
  <2>2. \A k \in D : k # 0 => k - 1 \in D /\ rank[k - 1] < rank[k]
    BY <1>0
  <2> HIDE DEF D, V, rank
  <2>3. F \in [[D -> V] -> [D -> V]]
    BY <1>1
  <2>4. ASSUME NEW g \in [D -> V], NEW h \in [D -> V], NEW k \in D,
               \A j \in D : rank[j] < rank[k] => g[j] = h[j]
        PROVE  F[g][k] = F[h][k]
    BY <2>2, <2>4
  <2>. QED
    BY <2>1, <2>3, <2>4 DEF Descends
<1>3. PICK f \in [D -> V] : f = F[f]
  <2>1. V # {}
    BY <1>0
  <2> HIDE DEF D, V, F, rank
  <2>. QED
    BY <1>2, <2>1, RecursiveFunction
<1> DEFINE after == CHOOSE after : after = [k \in 0 .. Len(gates) |->
             IF k = 0 THEN left ELSE visit[gates[k]][after[k - 1]]]
<1>4. VisitAll(visit, gates, left) = after[n]
  BY DEF VisitAll
<1>5. after = [k \in D |-> IF k = 0 THEN left ELSE visit[gates[k]][after[k - 1]]]
  <2>1. f = [k \in 0 .. Len(gates) |-> IF k = 0 THEN left ELSE visit[gates[k]][f[k - 1]]]
    BY <1>3
  <2>. QED
    BY <2>1
<1> HIDE DEF after
<1>6. after[0] = left
  BY <1>0, <1>5
<1>7. ASSUME NEW k \in 1 .. n PROVE after[k] = visit[gates[k]][after[k - 1]]
  <2>1. k \in D /\ k # 0
    BY <1>0
  <2> HIDE DEF D
  <2>. QED
    BY <1>5, <2>1
<1>8. \A k \in D : after[k] \in V
  <2> DEFINE Typed == {k \in Nat : k \in D => after[k] \in V}
  <2>1. 0 \in Typed
    BY <1>6
  <2>2. ASSUME NEW k \in Nat, k \in Typed PROVE k + 1 \in Typed
    <3> SUFFICES ASSUME k + 1 \in D PROVE after[k + 1] \in V
      OBVIOUS
    <3>1. k \in D /\ k + 1 \in 1 .. n /\ (k + 1) - 1 = k /\ gates[k + 1] \in S
      BY <1>0
    <3>2. after[k] \in V /\ after[k + 1] = visit[gates[k + 1]][after[k]]
      BY <1>7, <2>2, <3>1
    <3>. QED
      BY <1>a, <3>1, <3>2
  <2>3. Nat \subseteq Typed
    <3> HIDE DEF Typed
    <3>. QED
      BY <2>1, <2>2, NatSetInduction
  <2>. QED
    BY <1>0, <2>3
<1>9. after \in [D -> V]
  <2> HIDE DEF D, V
  <2>. QED
    BY <1>5, <1>8
<1>. QED
  BY <1>4, <1>6, <1>7, <1>9 DEF IsRun

(* ... as any such loop does.                                               *)
LEMMA VisitAllIs ==
    ASSUME NEW S, NEW visit \in Visits(S), NEW gates \in Seq(S), NEW left \in Seq(S),
           NEW run, IsRun(run, visit, gates, left)
    PROVE  VisitAll(visit, gates, left) = run[Len(gates)]
<1> DEFINE n == Len(gates)
<1>1. PICK r \in [0 .. n -> Seq(S)] :
         IsRun(r, visit, gates, left) /\ VisitAll(visit, gates, left) = r[n]
  BY VisitAllLoop
<1> DEFINE Same == {k \in Nat : k <= n => r[k] = run[k]}
<1>2. 0 \in Same
  BY <1>1 DEF IsRun
<1>3. ASSUME NEW k \in Nat, k \in Same PROVE k + 1 \in Same
  <2> SUFFICES ASSUME k + 1 <= n PROVE r[k + 1] = run[k + 1]
    OBVIOUS
  <2>1. n \in Nat
    OBVIOUS
  <2>2. k + 1 \in 1 .. n /\ (k + 1) - 1 = k /\ k <= n
    BY <2>1
  <2>3. r[k] = run[k]
    BY <1>3, <2>2
  <2>4. r[k + 1] = visit[gates[k + 1]][r[k]] /\ run[k + 1] = visit[gates[k + 1]][run[k]]
    BY <1>1, <2>2 DEF IsRun
  <2>. QED
    BY <2>3, <2>4
<1>4. Nat \subseteq Same
  <2> HIDE DEF Same
  <2>. QED
    BY <1>2, <1>3, NatSetInduction
<1>5. n \in Nat /\ n \in Same
  BY <1>4
<1>. QED
  BY <1>1, <1>5

(* To visit no gates, ...                                                   *)
LEMMA VisitNone ==
    ASSUME NEW S, NEW visit \in Visits(S), NEW left \in Seq(S)
    PROVE  VisitAll(visit, <<>>, left) = left
<1>1. <<>> \in Seq(S) /\ Len(<<>>) = 0
  OBVIOUS
<1>2. PICK r \in [0 .. Len(<<>>) -> Seq(S)] :
         IsRun(r, visit, <<>>, left) /\ VisitAll(visit, <<>>, left) = r[Len(<<>>)]
  BY <1>1, VisitAllLoop
<1>. QED
  BY <1>1, <1>2 DEF IsRun

(* ... the first one and then the others, ...                               *)
LEMMA VisitHead ==
    ASSUME NEW S, NEW visit \in Visits(S), NEW gates \in Seq(S), gates # <<>>, NEW left \in Seq(S)
    PROVE  VisitAll(visit, gates, left) = VisitAll(visit, Tail(gates), visit[Head(gates)][left])
<1> DEFINE n == Len(gates)
           rest == Tail(gates)
           first == visit[Head(gates)][left]
<1>1. /\ n \in Nat /\ n > 0 /\ rest \in Seq(S) /\ Len(rest) = n - 1
      /\ \A k \in 1 .. n - 1 : rest[k] = gates[k + 1]
      /\ Head(gates) = gates[1] /\ gates[1] \in S
  OBVIOUS
<1>2. first \in Seq(S)
  BY <1>1 DEF Visits
<1>3. PICK r \in [0 .. n -> Seq(S)] :
         IsRun(r, visit, gates, left) /\ VisitAll(visit, gates, left) = r[n]
  BY VisitAllLoop
<1> DEFINE t == [k \in 0 .. n - 1 |-> r[k + 1]]
<1>4. r[1] = first
  BY <1>1, <1>3 DEF IsRun
<1>5. t[0] = first /\ t[n - 1] = r[n]
  BY <1>1, <1>4
<1>6. ASSUME NEW k \in 1 .. n - 1 PROVE t[k] = visit[rest[k]][t[k - 1]]
  <2>1. k + 1 \in 1 .. n /\ (k + 1) - 1 = k /\ k \in 0 .. n - 1 /\ k - 1 \in 0 .. n - 1 /\ (k - 1) + 1 = k
    BY <1>1
  <2>2. r[k + 1] = visit[gates[k + 1]][r[k]]
    BY <1>3, <2>1 DEF IsRun
  <2>3. t[k] = r[k + 1] /\ t[k - 1] = r[k]
    BY <2>1
  <2>. QED
    BY <1>1, <2>2, <2>3
<1> HIDE DEF t, rest, first
<1>7. IsRun(t, visit, rest, first)
  BY <1>1, <1>5, <1>6 DEF IsRun
<1>8. VisitAll(visit, rest, first) = t[Len(rest)]
  BY <1>1, <1>2, <1>7, VisitAllIs
<1>. QED
  BY <1>1, <1>3, <1>5, <1>8 DEF rest, first

(* ... or all but the last one and then that.                               *)
LEMMA VisitLast ==
    ASSUME NEW S, NEW visit \in Visits(S), NEW gates \in Seq(S), gates # <<>>, NEW left \in Seq(S)
    PROVE  VisitAll(visit, gates, left) =
              visit[gates[Len(gates)]][VisitAll(visit, SubSeq(gates, 1, Len(gates) - 1), left)]
<1> DEFINE n == Len(gates)
           most == SubSeq(gates, 1, n - 1)
<1>1. n \in Nat /\ n # 0 /\ n - 1 \in Nat
  OBVIOUS
<1>2. most \in Seq(S) /\ Len(most) = n - 1 /\ \A k \in 1 .. n - 1 : most[k] = gates[k]
  <2>1. Len(most) = n - 1 /\ \A k \in 1 .. n - 1 : most[k] = gates[k]
    BY <1>1, PopFacts
  <2>2. most \in Seq(S)
    BY <1>1
  <2>. QED
    BY <2>1, <2>2
<1>3. PICK r \in [0 .. n -> Seq(S)] :
         IsRun(r, visit, gates, left) /\ VisitAll(visit, gates, left) = r[n]
  BY VisitAllLoop
<1> HIDE DEF most
<1>4. IsRun(r, visit, most, left)
  BY <1>1, <1>2, <1>3 DEF IsRun
<1>5. VisitAll(visit, most, left) = r[n - 1]
  BY <1>2, <1>4, VisitAllIs
<1>6. r[n] = visit[gates[n]][r[n - 1]]
  BY <1>1, <1>3 DEF IsRun
<1>. QED
  BY <1>3, <1>5, <1>6 DEF most

------------------------------------------------------------------------------
(* The function that visits a gate: its operands, then the gate itself,     *)
(* unless it has been left.                                                 *)
VisitOnce(c, visit, left, g) ==
    IF Leaves(left, g) THEN left ELSE Append(VisitAll(visit, Operands(c, g), left), g)

(* What the visits of DepthFirstSearch are, over any order of the gates.    *)
IsVisit(c, visit) ==
    /\ visit \in Visits(GateIds(c))
    /\ \A g \in GateIds(c) : \A left \in Seq(GateIds(c)) :
          visit[g][left] = VisitOnce(c, visit, left, g)

(* A gate is visited in one way only if its operands are.                   *)
LEMMA SameVisits ==
    ASSUME NEW v, NEW w, NEW gates, NEW left,
           \A k \in 1 .. Len(gates) : v[gates[k]] = w[gates[k]]
    PROVE  VisitAll(v, gates, left) = VisitAll(w, gates, left)
<1> DEFINE D == 0 .. Len(gates)
           P(after) == after = [k \in 0 .. Len(gates) |-> IF k = 0 THEN left ELSE v[gates[k]][after[k - 1]]]
           Q(after) == after = [k \in 0 .. Len(gates) |-> IF k = 0 THEN left ELSE w[gates[k]][after[k - 1]]]
<1>1. \A k \in D : k # 0 => k \in 1 .. Len(gates)
  OBVIOUS
<1>2. ASSUME NEW after PROVE P(after) <=> Q(after)
  <2>1. \A k \in D : k # 0 => v[gates[k]][after[k - 1]] = w[gates[k]][after[k - 1]]
    BY <1>1
  <2>2. [k \in D |-> IF k = 0 THEN left ELSE v[gates[k]][after[k - 1]]]
      = [k \in D |-> IF k = 0 THEN left ELSE w[gates[k]][after[k - 1]]]
    <3> HIDE DEF D
    <3>. QED
      BY <2>1
  <2>. QED
    BY <2>2
<1>3. (CHOOSE after : P(after)) = (CHOOSE after : Q(after))
  <2> HIDE DEF P, Q
  <2>. QED
    BY <1>2
<1>. QED
  BY <1>3 DEF VisitAll

(* On an acyclic circuit there is such a function, and Postorder uses it.   *)
LEMMA VisitExists ==
    ASSUME NEW c, \A g \in GateIds(c) : Operands(c, g) \in Seq(GateIds(c)),
           NEW ranks, IsRanking(c, ranks)
    PROVE  \E visit : /\ IsVisit(c, visit)
                      /\ \A starts : Postorder(c, starts) = VisitAll(visit, starts, <<>>)
<1> DEFINE S == GateIds(c)
           V == [Seq(S) -> Seq(S)]
           F == [v \in [S -> V] |-> [g \in S |-> [left \in Seq(S) |-> VisitOnce(c, v, left, g)]]]
<1>1. \A g \in S : Operands(c, g) \in Seq(S)
  OBVIOUS
<1>2. ASSUME NEW v \in [S -> V], NEW g \in S, NEW left \in Seq(S)
      PROVE  VisitOnce(c, v, left, g) \in Seq(S)
  <2>1. v \in Visits(S) /\ Operands(c, g) \in Seq(S)
    BY <1>1 DEF Visits
  <2>2. PICK r \in [0 .. Len(Operands(c, g)) -> Seq(S)] :
           VisitAll(v, Operands(c, g), left) = r[Len(Operands(c, g))]
    <3> HIDE DEF S
    <3>. QED
      BY <2>1, VisitAllLoop
  <2>3. Len(Operands(c, g)) \in 0 .. Len(Operands(c, g))
    BY <2>1
  <2>4. VisitAll(v, Operands(c, g), left) \in Seq(S)
    BY <2>2, <2>3
  <2> HIDE DEF S
  <2>. QED
    BY <2>4 DEF VisitOnce
<1>3. ASSUME NEW v \in [S -> V], NEW w \in [S -> V], NEW g \in S,
             \A y \in S : ranks[y] < ranks[g] => v[y] = w[y]
      PROVE  F[v][g] = F[w][g]
  <2>1. v \in Visits(S) /\ w \in Visits(S) /\ Operands(c, g) \in Seq(S)
    BY <1>1 DEF Visits
  <2>2. \A k \in 1 .. Len(Operands(c, g)) : v[Operands(c, g)[k]] = w[Operands(c, g)[k]]
    <3>1. \A k \in 1 .. Len(Operands(c, g)) :
             Operands(c, g)[k] \in S /\ Operands(c, g)[k] \in OperandSet(c, g)
      BY <2>1 DEF OperandSet
    <3>. QED
      BY <1>3, <3>1 DEF IsRanking
  <2>3. \A left \in Seq(S) : VisitAll(v, Operands(c, g), left) = VisitAll(w, Operands(c, g), left)
    <3> HIDE DEF S
    <3>. QED
      BY <2>1, <2>2, SameVisits, SMTT(60)
  <2>4. \A left \in Seq(S) : VisitOnce(c, v, left, g) = VisitOnce(c, w, left, g)
    BY <2>3 DEF VisitOnce
  <2> HIDE DEF S, V
  <2>. QED
    BY <2>4
<1>4. Descends(F, S, V, ranks)
  <2>1. F \in [[S -> V] -> [S -> V]]
    <3> HIDE DEF S
    <3>. QED
      BY <1>2
  <2> HIDE DEF F, V
  <2>. QED
    BY <1>3, <2>1 DEF Descends, IsRanking
<1>5. V # {}
  <2>1. [left \in Seq(S) |-> left] \in V
    OBVIOUS
  <2>. QED
    BY <2>1
<1>6. PICK f \in [S -> V] : f = F[f]
  <2> HIDE DEF S, V, F
  <2>. QED
    BY <1>4, <1>5, RecursiveFunction
<1> DEFINE visit == CHOOSE visit : visit = [g \in GateIds(c) |->
              [left \in Seq(GateIds(c)) |->
                  IF Leaves(left, g) THEN left
                                     ELSE Append(VisitAll(visit, Operands(c, g), left), g)]]
<1>7. \A starts : Postorder(c, starts) = VisitAll(visit, starts, <<>>)
  BY DEF Postorder
<1>8. f = [g \in GateIds(c) |-> [left \in Seq(GateIds(c)) |->
                  IF Leaves(left, g) THEN left
                                     ELSE Append(VisitAll(f, Operands(c, g), left), g)]]
  BY <1>6 DEF VisitOnce
<1>9. visit = [g \in S |-> [left \in Seq(S) |-> VisitOnce(c, visit, left, g)]]
  BY <1>8 DEF VisitOnce
<1> HIDE DEF visit
<1>10. ASSUME NEW g \in S, \A y \in S : ranks[y] < ranks[g] => visit[y] \in V
       PROVE  visit[g] \in V
  <2> DEFINE w == [y \in S |-> IF visit[y] \in V THEN visit[y] ELSE f[y]]
  <2>1. w \in [S -> V]
    <3> HIDE DEF V, S
    <3>. QED
      OBVIOUS
  <2>2. \A k \in 1 .. Len(Operands(c, g)) : visit[Operands(c, g)[k]] = w[Operands(c, g)[k]]
    <3>1. \A k \in 1 .. Len(Operands(c, g)) :
             Operands(c, g)[k] \in S /\ Operands(c, g)[k] \in OperandSet(c, g)
      BY <1>1 DEF OperandSet
    <3>2. \A k \in 1 .. Len(Operands(c, g)) : visit[Operands(c, g)[k]] \in V
      BY <1>10, <3>1 DEF IsRanking
    <3> HIDE DEF V, S
    <3>. QED
      BY <3>1, <3>2
  <2> HIDE DEF w
  <2>3. \A left : VisitAll(visit, Operands(c, g), left) = VisitAll(w, Operands(c, g), left)
    BY <2>2, SameVisits
  <2>4. \A left \in Seq(S) : VisitOnce(c, visit, left, g) \in Seq(S)
    <3>1. \A left \in Seq(S) : VisitOnce(c, visit, left, g) = VisitOnce(c, w, left, g)
      BY <2>3 DEF VisitOnce
    <3> HIDE DEF V, S
    <3>. QED
      BY <1>2, <2>1, <3>1
  <2>5. visit[g] = [left \in Seq(S) |-> VisitOnce(c, visit, left, g)]
    <3> HIDE DEF S
    <3>. QED
      BY <1>9
  <2> HIDE DEF S
  <2>. QED
    BY <2>4, <2>5
<1>11. \A g \in S : visit[g] \in V
  <2> DEFINE Typed == {g \in S : visit[g] \in V}
  <2>1. \A g \in S : ranks[g] \in Nat
    BY DEF IsRanking
  <2>2. \A g \in S : (\A y \in S : ranks[y] < ranks[g] => y \in Typed) => g \in Typed
    <3> HIDE DEF S, V
    <3>. QED
      BY <1>10
  <2>3. S \subseteq Typed
    <3> HIDE DEF S, V, Typed
    <3>. QED
      BY <2>1, <2>2, RankInduction, ZenonT(60)
  <2>. QED
    BY <2>3
<1>12. visit \in Visits(S)
  <2> HIDE DEF S
  <2>. QED
    BY <1>9, <1>11 DEF Visits
<1>13. IsVisit(c, visit)
  <2>1. \A g \in S : \A left \in Seq(S) : visit[g][left] = VisitOnce(c, visit, left, g)
    <3> HIDE DEF S
    <3>. QED
      BY <1>9
  <2>. QED
    BY <1>12, <2>1 DEF IsVisit
<1>. QED
  BY <1>7, <1>13

------------------------------------------------------------------------------
(* What has been left: gates, each once, after their operands.              *)
IsOrdered(c, left) ==
    /\ left \in Seq(GateIds(c))
    /\ \A i, j \in 1 .. Len(left) : left[i] = left[j] => i = j
    /\ \A i \in 1 .. Len(left) : \A o \in OperandSet(c, left[i]) :
          \E j \in 1 .. i - 1 : left[j] = o

(* The first sequence goes on where the second ends, with gates whose ranks *)
(* are below r.                                                             *)
GoesOn(after, left, ranks, r) ==
    /\ Len(left) <= Len(after)
    /\ \A i \in 1 .. Len(left) : after[i] = left[i]
    /\ \A i \in 1 .. Len(after) : i > Len(left) => ranks[after[i]] < r

(* What goes on from what goes on from some left gates goes on from them.   *)
LEMMA GoesOnTransitive ==
    ASSUME NEW S, NEW left \in Seq(S), NEW mid \in Seq(S), NEW after \in Seq(S), NEW ranks, NEW r,
           GoesOn(mid, left, ranks, r), GoesOn(after, mid, ranks, r)
    PROVE  GoesOn(after, left, ranks, r)
<1>1. Len(left) \in Nat /\ Len(mid) \in Nat /\ Len(after) \in Nat
  OBVIOUS
<1>2. \A i \in 1 .. Len(after) : i <= Len(mid) \/ i > Len(mid)
  BY <1>1
<1>. QED
  BY <1>1, <1>2 DEF GoesOn

(* To visit a gate keeps what has been left in order, and leaves the gate   *)
(* and none of a higher rank.                                               *)
VisitsInOrder(c, visit, ranks, g) ==
    \A left \in Seq(GateIds(c)) : IsOrdered(c, left) =>
        /\ IsOrdered(c, visit[g][left])
        /\ GoesOn(visit[g][left], left, ranks, ranks[g] + 1)
        /\ Leaves(visit[g][left], g)

(* So does a loop over such gates.                                          *)
LEMMA VisitAllInOrder ==
    ASSUME NEW c, NEW visit, IsVisit(c, visit), NEW ranks, IsRanking(c, ranks),
           NEW gates \in Seq(GateIds(c)), NEW left, IsOrdered(c, left), NEW r \in Nat,
           \A k \in 1 .. Len(gates) :
              VisitsInOrder(c, visit, ranks, gates[k]) /\ ranks[gates[k]] < r
    PROVE  /\ IsOrdered(c, VisitAll(visit, gates, left))
           /\ GoesOn(VisitAll(visit, gates, left), left, ranks, r)
           /\ \A k \in 1 .. Len(gates) : Leaves(VisitAll(visit, gates, left), gates[k])
<1> DEFINE n == Len(gates)
           S == GateIds(c)
<1>1. n \in Nat /\ left \in Seq(S) /\ visit \in Visits(S) /\ \A k \in 1 .. n : gates[k] \in S
  BY DEF IsOrdered, IsVisit
<1>2. PICK run \in [0 .. n -> Seq(S)] :
         IsRun(run, visit, gates, left) /\ VisitAll(visit, gates, left) = run[n]
  <2> HIDE DEF S
  <2>. QED
    BY <1>1, VisitAllLoop, SMTT(60)
<1> DEFINE Good(m) == /\ IsOrdered(c, run[m])
                      /\ GoesOn(run[m], left, ranks, r)
                      /\ \A k \in 1 .. m : Leaves(run[m], gates[k])
           Holds == {m \in Nat : m <= n => Good(m)}
<1>3. 0 \in Holds
  <2>1. run[0] = left
    BY <1>2 DEF IsRun
  <2>2. GoesOn(left, left, ranks, r)
    BY <1>1 DEF GoesOn
  <2>. QED
    BY <2>1, <2>2
<1>4. ASSUME NEW m \in Nat, m \in Holds PROVE m + 1 \in Holds
  <2> SUFFICES ASSUME m + 1 <= n PROVE Good(m + 1)
    OBVIOUS
  <2> DEFINE g == gates[m + 1]
             before == run[m]
             after == run[m + 1]
  <2>1. m + 1 \in 1 .. n /\ (m + 1) - 1 = m /\ m <= n /\ m \in 0 .. n /\ m + 1 \in 0 .. n
    BY <1>1
  <2>2. after = visit[g][before] /\ before \in Seq(S) /\ after \in Seq(S)
    BY <1>2, <2>1 DEF IsRun
  <2>3. /\ IsOrdered(c, before) /\ GoesOn(before, left, ranks, r)
        /\ \A k \in 1 .. m : Leaves(before, gates[k])
    BY <1>4, <2>1
  <2>4. g \in S /\ VisitsInOrder(c, visit, ranks, g) /\ ranks[g] < r
    BY <1>1, <2>1
  <2>5. ranks[g] \in Nat /\ \A h \in S : ranks[h] \in Nat
    BY <2>4 DEF IsRanking
  <2> HIDE DEF g, before, after
  <2>6. IsOrdered(c, after) /\ GoesOn(after, before, ranks, ranks[g] + 1) /\ Leaves(after, g)
    <3>1. before \in Seq(GateIds(c)) /\ IsOrdered(c, before)
      BY <2>2, <2>3
    <3>2. /\ IsOrdered(c, visit[g][before])
          /\ GoesOn(visit[g][before], before, ranks, ranks[g] + 1)
          /\ Leaves(visit[g][before], g)
      BY <2>4, <3>1 DEF VisitsInOrder
    <3>. QED
      BY <2>2, <3>2
  <2>7. GoesOn(after, before, ranks, r)
    <3>1. \A i \in 1 .. Len(after) : ranks[after[i]] \in Nat
      BY <2>2, <2>5
    <3>2. \A i \in 1 .. Len(after) : i > Len(before) => ranks[after[i]] < ranks[g] + 1
      BY <2>6 DEF GoesOn
    <3>3. \A i \in 1 .. Len(after) : i > Len(before) => ranks[after[i]] < r
      BY <2>4, <2>5, <3>1, <3>2
    <3>. QED
      BY <2>6, <3>3 DEF GoesOn
  <2>8. GoesOn(after, left, ranks, r)
    <3> HIDE DEF S
    <3>. QED
      BY <1>1, <2>2, <2>3, <2>7, GoesOnTransitive
  <2>9. ASSUME NEW k \in 1 .. m + 1 PROVE Leaves(after, gates[k])
    <3>1. CASE k = m + 1
      BY <2>6, <3>1 DEF g
    <3>2. CASE k # m + 1
      <4>1. k \in 1 .. m
        BY <3>2
      <4>2. PICK i \in 1 .. Len(before) : before[i] = gates[k]
        <5>1. Leaves(before, gates[k]) /\ DOMAIN before = 1 .. Len(before)
          BY <2>2, <2>3, <4>1
        <5>. QED
          BY <5>1 DEF Leaves
      <4>3. i \in 1 .. Len(after) /\ after[i] = gates[k]
        BY <2>2, <2>6, <4>2 DEF GoesOn
      <4>. QED
        BY <2>2, <4>3 DEF Leaves
    <3>. QED
      BY <3>1, <3>2
  <2>. QED
    BY <2>6, <2>8, <2>9 DEF after
<1>5. Nat \subseteq Holds
  <2> HIDE DEF Holds
  <2>. QED
    BY <1>3, <1>4, NatSetInduction
<1>6. Good(n)
  BY <1>1, <1>5
<1>. QED
  BY <1>2, <1>6

(* Every gate of an acyclic circuit is visited in order.                    *)
LEMMA VisitInOrder ==
    ASSUME NEW c, \A g \in GateIds(c) : Operands(c, g) \in Seq(GateIds(c)),
           NEW visit, IsVisit(c, visit), NEW ranks, IsRanking(c, ranks)
    PROVE  \A g \in GateIds(c) : VisitsInOrder(c, visit, ranks, g)
<1> DEFINE S == GateIds(c)
           Good == {g \in S : VisitsInOrder(c, visit, ranks, g)}
<1>1. \A g \in S : ranks[g] \in Nat
  BY DEF IsRanking
<1>2. ASSUME NEW g \in S, \A y \in S : ranks[y] < ranks[g] => y \in Good PROVE g \in Good
  <2> SUFFICES ASSUME NEW left \in Seq(S), IsOrdered(c, left)
               PROVE  /\ IsOrdered(c, visit[g][left])
                      /\ GoesOn(visit[g][left], left, ranks, ranks[g] + 1)
                      /\ Leaves(visit[g][left], g)
    BY DEF VisitsInOrder
  <2> DEFINE ops == Operands(c, g)
             mid == VisitAll(visit, ops, left)
  <2>1. visit[g][left] = IF Leaves(left, g) THEN left ELSE Append(mid, g)
    BY DEF IsVisit, VisitOnce
  <2>2. CASE Leaves(left, g)
    <3>1. GoesOn(left, left, ranks, ranks[g] + 1)
      BY DEF GoesOn
    <3>. QED
      BY <2>1, <2>2, <3>1
  <2>3. CASE ~Leaves(left, g)
    <3>1. ops \in Seq(S) /\ \A k \in 1 .. Len(ops) : ops[k] \in OperandSet(c, g) /\ ops[k] \in S
      BY DEF OperandSet
    <3>2. \A k \in 1 .. Len(ops) : VisitsInOrder(c, visit, ranks, ops[k]) /\ ranks[ops[k]] < ranks[g]
      BY <1>2, <3>1 DEF IsRanking
    <3>3. /\ IsOrdered(c, mid) /\ GoesOn(mid, left, ranks, ranks[g])
          /\ \A k \in 1 .. Len(ops) : Leaves(mid, ops[k])
      <4> HIDE DEF mid, ops
      <4>1. ops \in Seq(GateIds(c)) /\ ranks[g] \in Nat
        BY <1>1, <3>1
      <4>. QED
        BY <3>2, <4>1, VisitAllInOrder DEF mid
    <3>4. visit[g][left] = Append(mid, g)
      BY <2>1, <2>3
    <3> HIDE DEF mid, Good
    <3>5. mid \in Seq(S) /\ Len(mid) \in Nat /\ DOMAIN mid = 1 .. Len(mid) /\ Len(left) \in Nat
          /\ \A i \in 1 .. Len(mid) : mid[i] \in S
      BY <3>3 DEF IsOrdered
    <3> DEFINE after == Append(mid, g)
    <3>6. /\ after \in Seq(S) /\ Len(after) = Len(mid) + 1 /\ after[Len(mid) + 1] = g
          /\ \A i \in 1 .. Len(mid) : after[i] = mid[i]
          /\ \A i \in 1 .. Len(after) : i = Len(mid) + 1 \/ i \in 1 .. Len(mid)
      BY <3>5
    <3> HIDE DEF after
    <3>7. \A i \in 1 .. Len(mid) : mid[i] # g
      <4> SUFFICES ASSUME NEW i \in 1 .. Len(mid), mid[i] = g PROVE FALSE
        OBVIOUS
      <4>1. CASE i > Len(left)
        <5>1. ranks[g] < ranks[g]
          BY <3>3, <4>1 DEF GoesOn
        <5>. QED
          BY <1>1, <5>1
      <4>2. CASE i <= Len(left)
        <5>1. i \in 1 .. Len(left) /\ left[i] = g
          BY <3>3, <3>5, <4>2 DEF GoesOn
        <5>. QED
          BY <2>3, <5>1 DEF Leaves
      <4>. QED
        BY <3>5, <4>1, <4>2
    <3>8. IsOrdered(c, after)
      <4>1. ASSUME NEW i \in 1 .. Len(after), NEW j \in 1 .. Len(after), after[i] = after[j]
            PROVE  i = j
        <5>1. CASE i \in 1 .. Len(mid) /\ j \in 1 .. Len(mid)
          BY <3>3, <3>6, <4>1, <5>1 DEF IsOrdered
        <5>2. CASE i = Len(mid) + 1 \/ j = Len(mid) + 1
          BY <3>6, <3>7, <4>1, <5>2
        <5>. QED
          BY <3>6, <5>1, <5>2
      <4>2. ASSUME NEW i \in 1 .. Len(after), NEW o \in OperandSet(c, after[i])
            PROVE  \E j \in 1 .. i - 1 : after[j] = o
        <5>1. CASE i \in 1 .. Len(mid)
          <6>1. after[i] = mid[i]
            BY <3>6, <5>1
          <6>2. PICK j \in 1 .. i - 1 : mid[j] = o
            BY <3>3, <4>2, <5>1, <6>1 DEF IsOrdered
          <6>3. j \in 1 .. Len(mid)
            BY <3>5, <5>1, <6>2
          <6>. QED
            BY <3>6, <6>2, <6>3
        <5>2. CASE i = Len(mid) + 1
          <6>1. after[i] = g
            BY <3>6, <5>2
          <6>2. PICK k \in 1 .. Len(ops) : ops[k] = o
            BY <3>1, <4>2, <6>1 DEF OperandSet
          <6>3. PICK j \in 1 .. Len(mid) : mid[j] = o
            BY <3>3, <3>5, <6>2 DEF Leaves
          <6>4. j \in 1 .. i - 1
            BY <3>5, <5>2, <6>3
          <6>. QED
            BY <3>6, <6>3, <6>4
        <5>. QED
          BY <3>6, <5>1, <5>2
      <4>. QED
        BY <3>6, <4>1, <4>2 DEF IsOrdered
    <3>9. GoesOn(after, left, ranks, ranks[g] + 1)
      <4>1. Len(left) <= Len(after) /\ \A i \in 1 .. Len(left) : after[i] = left[i]
        BY <3>3, <3>5, <3>6 DEF GoesOn
      <4>2. ASSUME NEW i \in 1 .. Len(after), i > Len(left) PROVE ranks[after[i]] < ranks[g] + 1
        <5>1. CASE i = Len(mid) + 1
          BY <1>1, <3>6, <5>1
        <5>2. CASE i \in 1 .. Len(mid)
          <6>1. after[i] = mid[i] /\ mid[i] \in S /\ ranks[mid[i]] < ranks[g]
            BY <3>3, <3>5, <3>6, <4>2, <5>2 DEF GoesOn
          <6>2. ranks[mid[i]] \in Nat /\ ranks[g] \in Nat
            BY <1>1, <6>1
          <6>. QED
            BY <6>1, <6>2
        <5>. QED
          BY <3>6, <5>1, <5>2
      <4>. QED
        BY <4>1, <4>2 DEF GoesOn
    <3>10. Leaves(after, g)
      <4>1. Len(mid) + 1 \in DOMAIN after
        BY <3>5, <3>6
      <4>. QED
        BY <3>6, <4>1 DEF Leaves
    <3>. QED
      BY <3>4, <3>8, <3>9, <3>10 DEF after
  <2>. QED
    BY <2>2, <2>3
<1>3. S \subseteq Good
  <2> HIDE DEF S, Good
  <2>. QED
    BY <1>1, <1>2, RankInduction
<1>. QED
  BY <1>3

------------------------------------------------------------------------------
(* The sources are gates, and every gate without users is one of them.      *)
LEMMA SourcesFacts ==
    ASSUME NEW c, Len(c.gates) \in Nat
    PROVE  /\ Sources(c) \in Seq(GateIds(c))
           /\ \A g \in GateIds(c) : ~HasUsers(c, g) => \E i \in DOMAIN Sources(c) : Sources(c)[i] = g
<1> DEFINE n == Len(c.gates)
           ids == [g \in 1 .. n |-> g]
           keep == {g \in 1 .. n : ~HasUsers(c, g)}
<1>1. n \in Nat /\ GateIds(c) = 1 .. n
  BY DEF GateIds
<1>2. PICK f : IsKeptLoop(f, ids, n, keep)
  BY <1>1, KeptLoopExists
<1> DEFINE sources == CHOOSE sources : sources = [g \in 0 .. Len(c.gates) |->
              IF g = 0 THEN <<>>
              ELSE IF HasUsers(c, g) THEN sources[g - 1] ELSE Append(sources[g - 1], g)]
<1>3. Sources(c) = sources[n]
  BY DEF Sources
<1>4. \A g \in 0 .. n : g # 0 => (g \in keep <=> ~HasUsers(c, g)) /\ ids[g] = g
  BY <1>1
<1>5. f = [g \in 0 .. Len(c.gates) |->
              IF g = 0 THEN <<>>
              ELSE IF HasUsers(c, g) THEN f[g - 1] ELSE Append(f[g - 1], g)]
  <2> HIDE DEF keep, ids
  <2>. QED
    BY <1>2, <1>4 DEF IsKeptLoop
<1>6. sources = [g \in 0 .. n |->
                   IF g = 0 THEN <<>>
                   ELSE IF HasUsers(c, g) THEN sources[g - 1] ELSE Append(sources[g - 1], g)]
  BY <1>5
<1> HIDE DEF sources
<1>7. IsKeptLoop(sources, ids, n, keep)
  <2> HIDE DEF keep, ids
  <2>. QED
    BY <1>4, <1>6 DEF IsKeptLoop
<1> DEFINE S == GateIds(c)
<1>8. \A g \in 1 .. n : g \in keep => ids[g] \in S
  BY <1>1
<1>9. sources[n] \in Seq(S) /\ HoldsKept(sources[n], ids, n, keep)
  <2>1. n \in Nat
    BY <1>1
  <2> HIDE DEF ids, n, keep, S
  <2>. QED
    BY <2>1, <1>7, <1>8, KeptLoopResult
<1>10. ASSUME NEW g \in GateIds(c), ~HasUsers(c, g)
       PROVE  \E i \in DOMAIN sources[n] : sources[n][i] = g
  <2>1. g \in 1 .. n /\ g \in keep /\ ids[g] = g
    BY <1>1, <1>10
  <2>. QED
    BY <1>9, <2>1 DEF HoldsKept
<1>. QED
  BY <1>3, <1>9, <1>10

(* What SortFrom appends to the postorder: by ascending id, the gates that  *)
(* have not been left.                                                      *)
IsRest(rest, c, left) ==
    /\ rest[0] = <<>>
    /\ \A g \in GateIds(c) : rest[g] = IF Leaves(left, g) THEN rest[g - 1] ELSE Append(rest[g - 1], g)

(* SortFrom is the plan of the sources, reversed, and then what is missing. *)
LEMMA SortFromFacts ==
    ASSUME NEW c, Len(c.gates) \in Nat, NEW starts
    PROVE  \E rest : /\ IsRest(rest, c, Postorder(c, starts))
                     /\ SortFrom(c, starts) =
                          [i \in 1 .. Len(Postorder(c, starts)) |->
                              Postorder(c, starts)[Len(Postorder(c, starts)) + 1 - i]]
                          \o rest[Len(c.gates)]
<1> DEFINE n == Len(c.gates)
           left == Postorder(c, starts)
           ids == [g \in 1 .. n |-> g]
           keep == {g \in 1 .. n : ~Leaves(left, g)}
<1>1. n \in Nat /\ GateIds(c) = 1 .. n
  BY DEF GateIds
<1>2. PICK f : IsKeptLoop(f, ids, n, keep)
  BY <1>1, KeptLoopExists
<1> DEFINE rest == CHOOSE rest : rest = [g \in 0 .. Len(c.gates) |->
              IF g = 0 THEN <<>>
              ELSE IF Leaves(left, g) THEN rest[g - 1] ELSE Append(rest[g - 1], g)]
<1>3. SortFrom(c, starts) = [i \in 1 .. Len(left) |-> left[Len(left) + 1 - i]] \o rest[n]
  BY DEF SortFrom
<1>4. \A g \in 0 .. n : g # 0 => (g \in keep <=> ~Leaves(left, g)) /\ ids[g] = g
  BY <1>1
<1>5. f = [g \in 0 .. Len(c.gates) |->
              IF g = 0 THEN <<>>
              ELSE IF Leaves(left, g) THEN f[g - 1] ELSE Append(f[g - 1], g)]
  <2> HIDE DEF keep, ids, left
  <2>. QED
    BY <1>2, <1>4 DEF IsKeptLoop
<1>6. rest = [g \in 0 .. n |->
                 IF g = 0 THEN <<>>
                 ELSE IF Leaves(left, g) THEN rest[g - 1] ELSE Append(rest[g - 1], g)]
  BY <1>5
<1> HIDE DEF rest
<1>7. IsRest(rest, c, left)
  <2>1. \A g \in 1 .. n : g \in 0 .. n /\ g # 0
    BY <1>1
  <2>2. 0 \in 0 .. n
    BY <1>1
  <2> HIDE DEF n, left
  <2>. QED
    BY <1>1, <1>6, <2>1, <2>2 DEF IsRest
<1>. QED
  BY <1>3, <1>7

(* "sorted in topological order" (algo.hpp): what DFSTopSort returns for an *)
(* acyclic circuit has every gate once and users before their operands.     *)
LEMMA DFSTopSortFacts ==
    ASSUME NEW c, Len(c.gates) \in Nat,
           \A g \in GateIds(c) : Operands(c, g) \in Seq(GateIds(c)),
           NEW ranks, IsRanking(c, ranks)
    PROVE  /\ DFSTopSort(c) \in Seq(GateIds(c))
           /\ IsTopSort(c, DFSTopSort(c))
<1> DEFINE n == Len(c.gates)
           S == GateIds(c)
           left == Postorder(c, Sources(c))
           m == Len(left)
<1>1. n \in Nat /\ S = 1 .. n /\ \A g \in S : ranks[g] \in Nat
  BY DEF GateIds, IsRanking
<1>2. PICK b \in Nat : \A g \in 1 .. n : ranks[g] <= b
  <2> HIDE DEF n
  <2>. QED
    BY <1>1, BoundedRanks
<1>3. PICK visit : IsVisit(c, visit) /\ \A starts : Postorder(c, starts) = VisitAll(visit, starts, <<>>)
  BY VisitExists
<1>4. Sources(c) \in Seq(S) /\ \A g \in S : ~HasUsers(c, g) => \E i \in DOMAIN Sources(c) : Sources(c)[i] = g
  BY SourcesFacts
<1>5. IsOrdered(c, left) /\ \A k \in 1 .. Len(Sources(c)) : Leaves(left, Sources(c)[k])
  <2>1. IsOrdered(c, <<>>)
    BY DEF IsOrdered
  <2>2. \A k \in 1 .. Len(Sources(c)) : Sources(c)[k] \in S
    BY <1>4
  <2>3. \A k \in 1 .. Len(Sources(c)) :
           VisitsInOrder(c, visit, ranks, Sources(c)[k]) /\ ranks[Sources(c)[k]] < b + 1
    <3>1. \A g \in GateIds(c) : VisitsInOrder(c, visit, ranks, g)
      BY <1>3, VisitInOrder
    <3>2. \A g \in S : ranks[g] < b + 1
      BY <1>1, <1>2
    <3>. QED
      BY <2>2, <3>1, <3>2
  <2>4. b + 1 \in Nat
    OBVIOUS
  <2>5. left = VisitAll(visit, Sources(c), <<>>)
    BY <1>3
  <2> HIDE DEF left, S
  <2>6. Sources(c) \in Seq(GateIds(c))
    BY <1>4 DEF S
  <2>. QED
    BY <1>3, <2>1, <2>3, <2>4, <2>5, <2>6, VisitAllInOrder
<1> HIDE DEF left
<1>6. /\ left \in Seq(S) /\ m \in Nat /\ DOMAIN left = 1 .. m
      /\ \A i \in 1 .. m : left[i] \in S
      /\ \A i, j \in 1 .. m : left[i] = left[j] => i = j
      /\ \A i \in 1 .. m : \A o \in OperandSet(c, left[i]) : \E j \in 1 .. i - 1 : left[j] = o
  BY <1>5 DEF IsOrdered
\* No gate is missed: each has a source above it.
<1> DEFINE height == [g \in S |-> b - ranks[g]]
           Left == {g \in S : Leaves(left, g)}
<1>7. \A g \in S : height[g] \in Nat
  BY <1>1, <1>2
<1>8. ASSUME NEW g \in S, \A u \in S : height[u] < height[g] => u \in Left PROVE g \in Left
  <2>1. CASE HasUsers(c, g)
    <3>1. PICK u \in S : g \in OperandSet(c, u)
      BY <2>1 DEF HasUsers
    <3>2. ranks[g] < ranks[u] /\ ranks[g] \in Nat /\ ranks[u] \in Nat
      BY <1>1, <3>1 DEF IsRanking
    <3>3. height[u] < height[g]
      BY <1>1, <3>2
    <3>4. PICK i \in 1 .. m : left[i] = u
      BY <1>6, <1>8, <3>3 DEF Leaves
    <3>5. PICK j \in 1 .. i - 1 : left[j] = g
      BY <1>6, <3>1, <3>4
    <3>6. j \in 1 .. m
      BY <1>6, <3>5
    <3>. QED
      BY <1>6, <3>5, <3>6 DEF Leaves
  <2>2. CASE ~HasUsers(c, g)
    <3>1. PICK i \in DOMAIN Sources(c) : Sources(c)[i] = g
      BY <1>4, <2>2
    <3>2. i \in 1 .. Len(Sources(c))
      BY <1>4, <3>1
    <3>. QED
      BY <1>5, <3>1, <3>2
  <2>. QED
    BY <2>1, <2>2
<1>9. \A g \in S : Leaves(left, g)
  <2>1. S \subseteq Left
    <3> HIDE DEF S, Left, height
    <3>. QED
      BY <1>7, <1>8, RankInduction
  <2>. QED
    BY <2>1
<1>10. m = n
  <2>1. left \in [1 .. m -> 1 .. n]
    BY <1>1, <1>6
  <2>2. \A g \in 1 .. n : \E i \in 1 .. m : left[i] = g
    BY <1>1, <1>6, <1>9 DEF Leaves
  <2>3. \A i, j \in 1 .. m : left[i] = left[j] => i = j
    BY <1>6
  <2>4. m \in Nat /\ n \in Nat
    BY <1>1, <1>6
  <2> HIDE DEF m, n, S, height, Left
  <2>. QED
    BY <2>1, <2>2, <2>3, <2>4, PermutationLength, SMTT(60)
\* Hence nothing is appended, and the sort is the postorder reversed.
<1>11. PICK rest : /\ IsRest(rest, c, left)
                   /\ DFSTopSort(c) = [i \in 1 .. m |-> left[m + 1 - i]] \o rest[n]
  BY SortFromFacts DEF DFSTopSort, left
<1>12. rest[n] = <<>>
  <2> DEFINE Empty == {k \in Nat : k <= n => rest[k] = <<>>}
  <2>1. 0 \in Empty
    BY <1>11 DEF IsRest
  <2>2. ASSUME NEW k \in Nat, k \in Empty PROVE k + 1 \in Empty
    <3> SUFFICES ASSUME k + 1 <= n PROVE rest[k + 1] = <<>>
      OBVIOUS
    <3>1. k + 1 \in S /\ (k + 1) - 1 = k /\ k <= n
      BY <1>1
    <3>2. rest[k + 1] = rest[k] /\ rest[k] = <<>>
      BY <1>9, <1>11, <2>2, <3>1 DEF IsRest
    <3>. QED
      BY <3>2
  <2>3. Nat \subseteq Empty
    <3> HIDE DEF Empty
    <3>. QED
      BY <2>1, <2>2, NatSetInduction
  <2>. QED
    BY <1>1, <2>3
<1> DEFINE s == [i \in 1 .. n |-> left[n + 1 - i]]
<1>13. \A i \in 1 .. n : n + 1 - i \in 1 .. n /\ s[i] = left[n + 1 - i] /\ s[i] \in S
  <2>1. \A i \in 1 .. n : n + 1 - i \in 1 .. n
    BY <1>1
  <2>2. \A i \in 1 .. n : left[i] \in S
    BY <1>6, <1>10
  <2> HIDE DEF n, S
  <2>. QED
    BY <2>1, <2>2
<1>14. s \in [1 .. n -> S] /\ s \in Seq(S) /\ Len(s) = n /\ DOMAIN s = 1 .. n
  <2>1. s \in [1 .. n -> S]
    BY <1>13
  <2> HIDE DEF s, S, n
  <2>. QED
    BY <1>1, <2>1, FunctionIsSequence
<1>15. DFSTopSort(c) = s
  <2>1. DFSTopSort(c) = s \o <<>>
    BY <1>10, <1>11, <1>12
  <2> HIDE DEF s
  <2>. QED
    BY <1>14, <2>1
<1> HIDE DEF s
<1>16. {s[i] : i \in DOMAIN s} = S
  <2> SUFFICES ASSUME NEW g \in S PROVE \E i \in 1 .. n : s[i] = g
    BY <1>13, <1>14
  <2>1. PICK j \in 1 .. n : left[j] = g
    BY <1>6, <1>9, <1>10 DEF Leaves
  <2>2. n + 1 - j \in 1 .. n /\ n + 1 - (n + 1 - j) = j
    BY <1>1
  <2>. QED
    BY <1>13, <2>1, <2>2
<1>17. ASSUME NEW i \in 1 .. n, NEW j \in 1 .. n, s[j] \in OperandSet(c, s[i]) PROVE i < j
  <2>1. n + 1 - i \in 1 .. m /\ n + 1 - j \in 1 .. m /\ left[n + 1 - j] \in OperandSet(c, left[n + 1 - i])
    BY <1>10, <1>13, <1>17
  <2>2. PICK k \in 1 .. (n + 1 - i) - 1 : left[k] = left[n + 1 - j]
    BY <1>6, <2>1
  <2>3. k \in 1 .. m
    BY <1>1, <1>10, <2>2
  <2>4. k = n + 1 - j
    BY <1>6, <2>1, <2>2, <2>3
  <2>. QED
    BY <1>1, <2>2, <2>4
<1>. QED
  BY <1>14, <1>15, <1>16, <1>17 DEF IsTopSort

(* Every gate once, and operands before their users.                        *)
HasOperandsFirst(c, s) ==
    /\ s \in Seq(GateIds(c))
    /\ \A g \in GateIds(c) : \E i \in 1 .. Len(s) : s[i] = g
    /\ \A i, j \in 1 .. Len(s) :
          /\ s[i] = s[j] => i = j
          /\ s[j] \in OperandSet(c, s[i]) => j < i

(* The sort reversed is such a sequence, on every acyclic circuit.          *)
LEMMA ReversedSortFacts ==
    ASSUME NEW c, Len(c.gates) \in Nat,
           \A g \in GateIds(c) : Operands(c, g) \in Seq(GateIds(c)),
           NEW ranks, IsRanking(c, ranks)
    PROVE  HasOperandsFirst(c, ReversedSort(c))
<1> DEFINE s == ReversedSort(c)
<1> DEFINE n == Len(c.gates)
           S == GateIds(c)
           sorting == DFSTopSort(c)
<1>1. /\ sorting \in Seq(S) /\ Len(sorting) = n
      /\ {sorting[i] : i \in DOMAIN sorting} = S
      /\ \A i, j \in DOMAIN sorting : sorting[j] \in OperandSet(c, sorting[i]) => i < j
  BY DFSTopSortFacts DEF IsTopSort
<1>2. n \in Nat /\ S = 1 .. n
  BY DEF GateIds
<1>3. s = [i \in DOMAIN sorting |-> sorting[Len(sorting) + 1 - i]]
  BY DEF ReversedSort, Backwards
<1> HIDE DEF n, sorting, s
<1>4. DOMAIN sorting = 1 .. n
  BY <1>1, <1>2
<1>5. s = [i \in 1 .. n |-> sorting[n + 1 - i]]
  BY <1>1, <1>3, <1>4
<1>6. \A i \in 1 .. n : n + 1 - i \in 1 .. n /\ n + 1 - (n + 1 - i) = i
  BY <1>2
<1>7. \A i \in 1 .. n : sorting[i] \in S
  BY <1>1, <1>4
<1>8. s \in [1 .. n -> S]
  <2> HIDE DEF S
  <2>. QED
    BY <1>5, <1>6, <1>7
<1>9. s \in Seq(S) /\ Len(s) = n
  <2> HIDE DEF S
  <2>. QED
    BY <1>2, <1>8, FunctionIsSequence
<1>10. ASSUME NEW g \in S PROVE \E i \in 1 .. n : s[i] = g
  <2>1. PICK j \in 1 .. n : sorting[j] = g
    BY <1>1, <1>4
  <2>2. n + 1 - j \in 1 .. n /\ s[n + 1 - j] = g
    BY <1>5, <1>6, <2>1
  <2>. QED
    BY <2>2
<1>11. ASSUME NEW i \in 1 .. n, NEW j \in 1 .. n, s[j] \in OperandSet(c, s[i]) PROVE j < i
  <2>1. n + 1 - i \in 1 .. n /\ n + 1 - j \in 1 .. n
    BY <1>6
  <2>2. sorting[n + 1 - j] \in OperandSet(c, sorting[n + 1 - i])
    BY <1>5, <1>11
  <2>3. n + 1 - i < n + 1 - j
    BY <1>1, <1>4, <2>1, <2>2
  <2>. QED
    BY <1>2, <2>3
<1>12. \A i, j \in 1 .. n : s[i] = s[j] => i = j
  <2>1. IsFiniteSet(1 .. n) /\ Cardinality(1 .. n) = n
    BY <1>2, FS_Interval
  <2>2. s \in Surjection(1 .. n, 1 .. n)
    BY <1>2, <1>8, <1>10 DEF Surjection
  <2>3. s \in Injection(1 .. n, 1 .. n)
    BY <2>1, <2>2, FS_Surjection
  <2>4. DOMAIN s = 1 .. n
    BY <1>8
  <2>. QED
    BY <2>3, <2>4 DEF Injection, IsInjective
<1>. QED
  BY <1>9, <1>10, <1>11, <1>12 DEF HasOperandsFirst, s

(* Whatever gates are visited, what has been left before stays so.          *)
LEMMA VisitAllGrows ==
    ASSUME NEW c, Len(c.gates) \in Nat,
           NEW visit, IsVisit(c, visit), NEW ranks, IsRanking(c, ranks),
           \A g \in GateIds(c) : VisitsInOrder(c, visit, ranks, g),
           NEW gates \in Seq(GateIds(c)), NEW left, IsOrdered(c, left)
    PROVE  /\ VisitAll(visit, gates, left) \in Seq(GateIds(c))
           /\ \A g : Leaves(left, g) => Leaves(VisitAll(visit, gates, left), g)
<1> DEFINE n == Len(c.gates)
           after == VisitAll(visit, gates, left)
<1>1. n \in Nat /\ GateIds(c) = 1 .. n /\ \A g \in 1 .. n : ranks[g] \in Nat
  BY DEF GateIds, IsRanking
<1>2. PICK b \in Nat : \A g \in 1 .. n : ranks[g] <= b
  <2> HIDE DEF n
  <2>. QED
    BY <1>1, BoundedRanks
<1>3. \A k \in 1 .. Len(gates) : VisitsInOrder(c, visit, ranks, gates[k]) /\ ranks[gates[k]] < b + 1
  <2>1. \A k \in 1 .. Len(gates) : gates[k] \in 1 .. n
    BY <1>1
  <2>. QED
    BY <1>1, <1>2, <2>1
<1>4. b + 1 \in Nat
  OBVIOUS
<1>5. IsOrdered(c, after) /\ GoesOn(after, left, ranks, b + 1)
  <2> HIDE DEF n
  <2>. QED
    BY <1>3, <1>4, VisitAllInOrder
<1> HIDE DEF after
<1>6. after \in Seq(GateIds(c)) /\ left \in Seq(GateIds(c))
  BY <1>5 DEF IsOrdered
<1>7. DOMAIN after = 1 .. Len(after) /\ DOMAIN left = 1 .. Len(left) /\ Len(after) \in Nat /\ Len(left) \in Nat
  BY <1>6
<1>8. ASSUME NEW g, Leaves(left, g) PROVE Leaves(after, g)
  <2>1. PICK i \in 1 .. Len(left) : left[i] = g
    BY <1>7, <1>8 DEF Leaves
  <2>2. i \in 1 .. Len(after) /\ after[i] = g
    BY <1>5, <1>7, <2>1 DEF GoesOn
  <2>. QED
    BY <1>7, <2>2 DEF Leaves
<1>. QED
  BY <1>6, <1>8 DEF after
------------------------------------------------------------------------------
(* A gate added to the end of two sequences is added to the second one.     *)
LEMMA AppendToConcat ==
    ASSUME NEW S, NEW a \in Seq(S), NEW b \in Seq(S), NEW x \in S,
           NEW both, both = a \o b, NEW more, more = Append(b, x)
    PROVE  Append(both, x) = a \o more
<1> DEFINE l == Append(a \o b, x)
           r == a \o Append(b, x)
           n == Len(a) + Len(b) + 1
<1>1. a \o b \in Seq(S) /\ Len(a \o b) = Len(a) + Len(b)
  OBVIOUS
<1>2. Append(b, x) \in Seq(S) /\ Len(Append(b, x)) = Len(b) + 1
  OBVIOUS
<1>3. Len(a) \in Nat /\ Len(b) \in Nat
  OBVIOUS
<1>4. l \in Seq(S) /\ Len(l) = n
  BY <1>1, <1>3
<1>5. r \in Seq(S) /\ Len(r) = n
  BY <1>2, <1>3
<1>6. \A k \in 1 .. n : l[k] = r[k]
  <2> SUFFICES ASSUME NEW k \in 1 .. n PROVE l[k] = r[k]
    OBVIOUS
  <2>1. CASE k = n
    <3>1. l[k] = x
      BY <1>1, <1>3, <2>1
    <3>2. Append(b, x)[Len(b) + 1] = x
      BY <1>3
    <3>3. r[k] = Append(b, x)[k - Len(a)] /\ k - Len(a) = Len(b) + 1
      BY <1>2, <1>3, <2>1
    <3>. QED
      BY <3>1, <3>2, <3>3
  <2>2. CASE k \in 1 .. Len(a)
    <3>1. l[k] = (a \o b)[k] /\ (a \o b)[k] = a[k]
      BY <1>1, <1>3, <2>2
    <3>2. r[k] = a[k]
      BY <1>2, <1>3, <2>2
    <3>. QED
      BY <3>1, <3>2
  <2>3. CASE k \in Len(a) + 1 .. Len(a) + Len(b)
    <3>1. l[k] = (a \o b)[k] /\ (a \o b)[k] = b[k - Len(a)]
      BY <1>1, <1>3, <2>3
    <3>2. r[k] = Append(b, x)[k - Len(a)] /\ k - Len(a) \in 1 .. Len(b)
      BY <1>2, <1>3, <2>3
    <3>3. Append(b, x)[k - Len(a)] = b[k - Len(a)]
      BY <3>2
    <3>. QED
      BY <3>1, <3>2, <3>3
  <2>. QED
    BY <1>3, <2>1, <2>2, <2>3
<1> HIDE DEF l, r, n
<1>. QED
  <2>1. l \in [1 .. n -> S] /\ r \in [1 .. n -> S]
    BY <1>4, <1>5
  <2>2. l = [k \in 1 .. n |-> l[k]] /\ r = [k \in 1 .. n |-> r[k]]
    BY <2>1
  <2>3. l = [k \in 1 .. n |-> r[k]]
    BY <1>6, <2>2
  <2>. QED
    BY <2>2, <2>3 DEF l, r

------------------------------------------------------------------------------
(* What all transformers are built from: the sorted operands of a gate,     *)
(* encoders, rankings of circuits, and the states of a gate that has been   *)
(* copied to another circuit.                                               *)

(* The numbers 1 .. n in another order.                                     *)
IsPermutation(p, n) ==
    /\ p \in [1 .. n -> 1 .. n]
    /\ \A i, j \in 1 .. n : p[i] = p[j] => i = j
    /\ \A k \in 1 .. n : \E i \in 1 .. n : p[i] = k

(* A numbering of n elements that gives no number twice gives all.          *)
LEMMA InjectionIsPermutation ==
    ASSUME NEW n \in Nat, NEW p \in [1 .. n -> 1 .. n],
           \A i, j \in 1 .. n : p[i] = p[j] => i = j
    PROVE  IsPermutation(p, n)
<1>1. IsFiniteSet(1 .. n)
  BY FS_Interval
<1>2. p \in Injection(1 .. n, 1 .. n)
  BY DEF Injection, IsInjective
<1>3. p \in Surjection(1 .. n, 1 .. n)
  BY <1>1, <1>2, FS_Injection
<1>. QED
  BY <1>3 DEF Surjection, IsPermutation

(* The inverse of a permutation.                                            *)
LEMMA InversePermutation ==
    ASSUME NEW n \in Nat, NEW p, IsPermutation(p, n),
           NEW q, q = [k \in 1 .. n |-> CHOOSE i \in 1 .. n : p[i] = k]
    PROVE  IsPermutation(q, n)
<1>1. \A k \in 1 .. n : q[k] \in 1 .. n /\ p[q[k]] = k
  BY DEF IsPermutation
<1>2. q \in [1 .. n -> 1 .. n]
  BY <1>1
<1>3. \A k, l \in 1 .. n : q[k] = q[l] => k = l
  BY <1>1
<1>. QED
  BY <1>2, <1>3, InjectionIsPermutation

(* A sequence is sorted by a permutation of its places.                     *)
LEMMA SortedFacts ==
    ASSUME NEW n \in Nat, NEW s \in [1 .. n -> Nat]
    PROVE  \E p : /\ IsPermutation(p, n)
                  /\ Sorted(s) = [i \in 1 .. n |-> s[p[i]]]
<1> DEFINE Before(i) == {j \in 1 .. n : Precedes(s, j, i)}
           place == [i \in 1 .. n |-> Cardinality(Before(i)) + 1]
           p == [k \in 1 .. n |-> CHOOSE i \in 1 .. n : place[i] = k]
<1>1. IsFiniteSet(1 .. n) /\ Cardinality(1 .. n) = n
  BY FS_Interval
<1>2. ASSUME NEW i \in 1 .. n
      PROVE  /\ IsFiniteSet(Before(i)) /\ Cardinality(Before(i)) \in Nat
             /\ Cardinality(Before(i)) < n
  <2>1. Before(i) \in SUBSET (1 .. n) /\ Before(i) # 1 .. n
    BY DEF Precedes
  <2>2. /\ IsFiniteSet(Before(i)) /\ Cardinality(Before(i)) <= n
        /\ Cardinality(Before(i)) # n
    <3> HIDE DEF Before
    <3>. QED
      BY <1>1, <2>1, FS_Subset
  <2>. QED
    BY <2>2, FS_CardinalityType
<1>3. ASSUME NEW i \in 1 .. n, NEW j \in 1 .. n, Precedes(s, j, i)
      PROVE  Cardinality(Before(j)) < Cardinality(Before(i))
  <2>1. Before(j) \in SUBSET Before(i)
    BY <1>3 DEF Precedes
  <2>2. j \in Before(i) /\ j \notin Before(j)
    BY <1>3 DEF Precedes
  <2>3. Cardinality(Before(j)) <= Cardinality(Before(i))
        /\ Cardinality(Before(j)) # Cardinality(Before(i))
    <3> HIDE DEF Before
    <3>. QED
      BY <1>2, <2>1, <2>2, FS_Subset
  <2>4. Cardinality(Before(j)) \in Nat /\ Cardinality(Before(i)) \in Nat
    BY <1>2
  <2>. QED
    BY <2>3, <2>4
<1>4. \A i, j \in 1 .. n : i # j => Precedes(s, i, j) \/ Precedes(s, j, i)
  BY DEF Precedes
<1>5. IsPermutation(place, n)
  <2>1. ASSUME NEW i \in 1 .. n PROVE place[i] \in 1 .. n
    <3>1. Cardinality(Before(i)) \in Nat /\ Cardinality(Before(i)) < n
      BY <1>2
    <3> HIDE DEF Before
    <3>. QED
      BY <3>1
  <2>2. ASSUME NEW i \in 1 .. n, NEW j \in 1 .. n, place[i] = place[j], i # j PROVE FALSE
    <3>1. Cardinality(Before(i)) \in Nat /\ Cardinality(Before(j)) \in Nat
      BY <1>2
    <3>2. Cardinality(Before(i)) < Cardinality(Before(j)) \/ Cardinality(Before(j)) < Cardinality(Before(i))
      BY <1>3, <1>4, <2>2
    <3>3. Cardinality(Before(i)) + 1 = Cardinality(Before(j)) + 1
      BY <2>2
    <3> HIDE DEF Before
    <3>. QED
      BY <3>1, <3>2, <3>3
  <2>3. place \in [1 .. n -> 1 .. n]
    <3> HIDE DEF Before
    <3>. QED
      BY <2>1
  <2> HIDE DEF place
  <2>. QED
    BY <2>2, <2>3, InjectionIsPermutation
<1>6. IsPermutation(p, n)
  <2>1. p = [k \in 1 .. n |-> CHOOSE i \in 1 .. n : place[i] = k]
    OBVIOUS
  <2> HIDE DEF place, p
  <2>. QED
    BY <1>5, <2>1, InversePermutation
<1>7. DOMAIN s = 1 .. n
  OBVIOUS
<1>8. Sorted(s) = [i \in 1 .. n |-> s[p[i]]]
  <2>1. Sorted(s) = [k \in DOMAIN s |-> s[CHOOSE i \in DOMAIN s :
                       [j \in DOMAIN s |-> Cardinality({l \in DOMAIN s : Precedes(s, l, j)}) + 1][i] = k]]
    BY DEF Sorted
  <2>2. Sorted(s) = [k \in 1 .. n |-> s[CHOOSE i \in 1 .. n : place[i] = k]]
    BY <1>7, <2>1
  <2> HIDE DEF place
  <2>3. ASSUME NEW k \in 1 .. n PROVE p[k] = CHOOSE i \in 1 .. n : place[i] = k
    OBVIOUS
  <2>. QED
    BY <2>2, <2>3
<1> HIDE DEF p
<1>. QED
  BY <1>6, <1>8

------------------------------------------------------------------------------
(* If there is any ranking, the sizes of the cones are one: the cone of an  *)
(* operand is within that of its user, and without the user.                *)
LEMMA RankedIsAcyclic ==
    ASSUME NEW c, OperandsInside(c), NEW rank, IsRanking(c, rank)
    PROVE  IsAcyclic(c)
<1>1. ASSUME NEW g \in GateIds(c)
      PROVE  /\ g \in Cone(c, {g})
             /\ Cone(c, {g}) \subseteq GateIds(c)
             /\ IsClosed(c, Cone(c, {g}))
             /\ \A T : g \in T /\ IsClosed(c, T) => Cone(c, {g}) \subseteq T
  <2>1. {g} \in SUBSET GateIds(c)
    OBVIOUS
  <2>. QED
    BY <2>1, ConeProperties
<1>2. IsFiniteSet(GateIds(c))
  BY FS_Interval DEF GateIds, OperandsInside
<1>3. ASSUME NEW g \in GateIds(c)
      PROVE  IsFiniteSet(Cone(c, {g})) /\ Cardinality(Cone(c, {g})) \in Nat
  <2>1. Cone(c, {g}) \in SUBSET GateIds(c)
    BY <1>1
  <2>. QED
    BY <1>2, <2>1, FS_Subset, FS_CardinalityType
<1>4. ASSUME NEW g \in GateIds(c), NEW o \in OperandSet(c, g)
      PROVE  Cardinality(Cone(c, {o})) < Cardinality(Cone(c, {g}))
  <2>1. o \in GateIds(c) /\ rank[o] < rank[g] /\ rank[o] \in Nat /\ rank[g] \in Nat
    BY DEF OperandsInside, IsRanking
  <2>2. Cone(c, {o}) \subseteq Cone(c, {g})
    <3>1. o \in Cone(c, {g})
      BY <1>1 DEF IsClosed
    <3>. QED
      BY <1>1, <2>1, <3>1
  <2>3. g \notin Cone(c, {o})
    <3> DEFINE T == {h \in GateIds(c) : rank[h] <= rank[o]}
    <3>1. o \in T /\ g \notin T
      BY <2>1
    <3>2. ASSUME NEW h \in T, NEW i \in OperandSet(c, h) PROVE i \in T
      <4>1. i \in GateIds(c) /\ rank[i] < rank[h] /\ rank[i] \in Nat /\ rank[h] \in Nat
        BY DEF OperandsInside, IsRanking
      <4>. QED
        BY <2>1, <4>1
    <3>3. IsClosed(c, T)
      <4> HIDE DEF T
      <4>. QED
        BY <3>2 DEF IsClosed
    <3> HIDE DEF T
    <3>. QED
      BY <1>1, <2>1, <3>1, <3>3
  <2>4. Cone(c, {o}) \in SUBSET Cone(c, {g}) /\ Cone(c, {o}) # Cone(c, {g})
    BY <1>1, <2>2, <2>3
  <2>5. /\ Cardinality(Cone(c, {o})) <= Cardinality(Cone(c, {g}))
        /\ Cardinality(Cone(c, {o})) # Cardinality(Cone(c, {g}))
    BY <1>3, <2>4, FS_Subset
  <2>. QED
    BY <1>3, <2>1, <2>5
<1>5. \A g \in GateIds(c) : ConeSizes(c)[g] = Cardinality(Cone(c, {g}))
  BY DEF ConeSizes
<1>6. \A g \in GateIds(c) : \A o \in OperandSet(c, g) : o \in GateIds(c)
  BY DEF OperandsInside
<1>. QED
  BY <1>3, <1>4, <1>5, <1>6 DEF IsAcyclic, IsRanking

(* What the types say of a well-formed circuit.                             *)
LEMMA WellFormedFacts ==
    ASSUME NEW c, WellFormed(c)
    PROVE  /\ OperandsInside(c) /\ IsAcyclic(c)
           /\ \A g \in GateIds(c) : Type(c, g) \in GateTypes /\ Operands(c, g) \in Seq(GateIds(c))
           /\ c.outputs \in Seq(GateIds(c)) /\ OutputSet(c) \subseteq GateIds(c)
           /\ Cone(c, OutputSet(c)) \subseteq GateIds(c)
           /\ IsClosed(c, Cone(c, OutputSet(c))) /\ OutputSet(c) \subseteq Cone(c, OutputSet(c))
<1> DEFINE n == Len(c.gates)
<1>1. /\ n \in Nat /\ \A g \in 1 .. n : c.gates[g] \in GateInfos(n)
      /\ c.outputs \in Seq(GateIds(c)) /\ IsAcyclic(c)
  BY DEF WellFormed, IdsInRange
<1>2. \A g \in GateIds(c) : Type(c, g) \in GateTypes /\ Operands(c, g) \in Seq(GateIds(c))
  <2> HIDE DEF n
  <2>. QED
    BY <1>1 DEF GateInfos, Type, Operands, GateIds, n
<1>3. \A g \in GateIds(c) : OperandSet(c, g) \subseteq GateIds(c)
  BY <1>2 DEF OperandSet
<1>4. OperandsInside(c)
  BY <1>1, <1>3 DEF OperandsInside
<1>5. OutputSet(c) \in SUBSET GateIds(c)
  BY <1>1 DEF OutputSet
<1>. QED
  BY <1>1, <1>2, <1>4, <1>5, ConeProperties

------------------------------------------------------------------------------
(* The natural names tell gates apart.                                      *)
LEMMA NaturalNamesFit ==
    ASSUME NEW c, Len(c.gates) \in Nat PROVE NamesGates(c, NaturalNames(c))
<1> DEFINE n == Len(c.gates)
<1>1. NaturalNames(c) \in [1 .. n -> {<<"gate", g>> : g \in 1 .. n}]
  BY DEF NaturalNames, GateIds
<1>2. Len(NaturalNames(c)) = n
  BY <1>1, FunctionIsSequence
<1>3. \A g \in 1 .. n : NaturalNames(c)[g] = <<"gate", g>>
  BY DEF NaturalNames, GateIds
<1>4. \A g, h \in 1 .. n : <<"gate", g>> = <<"gate", h>> => g = h
  OBVIOUS
<1>. QED
  BY <1>2, <1>3, <1>4 DEF NamesGates, GateIds

(* No key of an encoder has two ids.                                        *)
IsEncoder(encoder) == \A i, j \in DOMAIN encoder : encoder[i] = encoder[j] => i = j

(* What encodeGate leaves: all keys keep their ids, and the key has one.    *)
Extends(after, before) ==
    /\ Len(before) <= Len(after)
    /\ \A i \in DOMAIN before : after[i] = before[i]

(* Encoding a key keeps the keys with their ids, and gives the key one: an  *)
(* entry is added exactly if it had none.                                   *)
LEMMA EncodeGateFacts ==
    ASSUME NEW S, NEW encoder \in Seq(S), NEW key \in S
    PROVE  /\ EncodeGate(encoder, key) \in Seq(S)
           /\ Extends(EncodeGate(encoder, key), encoder)
           /\ KeyExists(EncodeGate(encoder, key), key)
           /\ IsEncoder(encoder) => IsEncoder(EncodeGate(encoder, key))
           /\ KeyExists(encoder, key) => EncodeGate(encoder, key) = encoder
           /\ ~KeyExists(encoder, key) => EncodeGate(encoder, key) = Append(encoder, key)
           /\ \A k : KeyExists(EncodeGate(encoder, key), k) <=> KeyExists(encoder, k) \/ k = key
<1>1. CASE KeyExists(encoder, key)
  BY <1>1 DEF EncodeGate, Extends, KeyExists
<1>2. CASE ~KeyExists(encoder, key)
  <2> DEFINE n == Len(encoder)
             after == Append(encoder, key)
  <2>1. EncodeGate(encoder, key) = after
    BY <1>2 DEF EncodeGate
  <2>2. /\ n \in Nat /\ after \in Seq(S) /\ Len(after) = n + 1
        /\ DOMAIN encoder = 1 .. n /\ DOMAIN after = 1 .. n + 1
        /\ after[n + 1] = key /\ \A i \in 1 .. n : after[i] = encoder[i]
    OBVIOUS
  <2>3. \A i \in 1 .. n : encoder[i] # key
    BY <1>2, <2>2 DEF KeyExists
  <2> HIDE DEF after, n
  <2>4. \A i \in 1 .. n + 1 : i \in 1 .. n \/ i = n + 1
    BY <2>2
  <2>5. IsEncoder(encoder) => IsEncoder(after)
    BY <2>2, <2>3, <2>4 DEF IsEncoder
  <2>6. Extends(after, encoder) /\ KeyExists(after, key)
    BY <2>2 DEF Extends, KeyExists, n
  <2>7. \A k : KeyExists(after, k) <=> KeyExists(encoder, k) \/ k = key
    BY <2>2, <2>4 DEF KeyExists
  <2>. QED
    BY <1>2, <2>1, <2>2, <2>5, <2>6, <2>7 DEF after
<1>. QED
  BY <1>1, <1>2

(* Encoding a key of S leaves a sequence over S.                            *)
LEMMA EncodeGateTyped ==
    \A S : \A encoder \in Seq(S) : \A key \in S : EncodeGate(encoder, key) \in Seq(S)
BY EncodeGateFacts

(* The id of a key that the encoder has.                                    *)
LEMMA IdOfFacts ==
    ASSUME NEW encoder, NEW key, KeyExists(encoder, key)
    PROVE  /\ IdOf(encoder, key) \in DOMAIN encoder
           /\ encoder[IdOf(encoder, key)] = key
           /\ \A i \in DOMAIN encoder :
                 IsEncoder(encoder) /\ encoder[i] = key => IdOf(encoder, key) = i
<1>1. EncodeGate(encoder, key) = encoder
  BY DEF EncodeGate
<1>2. IdOf(encoder, key) = CHOOSE id \in DOMAIN encoder : encoder[id] = key
  BY <1>1 DEF IdOf
<1>. QED
  BY <1>2 DEF KeyExists, IsEncoder

(* A key that is new gets the next id.                                      *)
LEMMA NewIdFacts ==
    ASSUME NEW S, NEW encoder \in Seq(S), NEW key \in S, ~KeyExists(encoder, key)
    PROVE  IdOf(encoder, key) = Len(encoder) + 1
<1> DEFINE keys == Append(encoder, key)
           n == Len(encoder)
<1>1. n \in Nat /\ DOMAIN keys = 1 .. n + 1 /\ keys[n + 1] = key
      /\ \A i \in 1 .. n : keys[i] = encoder[i] /\ i \in DOMAIN encoder
  OBVIOUS
<1>2. EncodeGate(encoder, key) = keys
  BY DEF EncodeGate
<1> HIDE DEF keys, n
<1>3. \A i \in DOMAIN keys : keys[i] = key <=> i = n + 1
  BY <1>1 DEF KeyExists
<1>4. n + 1 \in DOMAIN keys
  BY <1>1
<1>5. (CHOOSE id \in DOMAIN keys : keys[id] = key) = n + 1
  BY <1>3, <1>4
<1>. QED
  BY <1>2, <1>5 DEF IdOf, n

(* The encoders that a loop over keys goes through.                         *)
LEMMA EncodeGatesLoop ==
    ASSUME NEW S, NEW encoder \in Seq(S), NEW keys \in Seq(S)
    PROVE  \E after \in [0 .. Len(keys) -> Seq(S)] :
              /\ after[0] = encoder
              /\ \A k \in 1 .. Len(keys) : after[k] = EncodeGate(after[k - 1], keys[k])
              /\ EncodeGates(encoder, keys) = after[Len(keys)]
<1> DEFINE n == Len(keys)
           D == 0 .. n
           V == Seq(S)
           F == [f \in [D -> V] |->
                   [k \in D |-> IF k = 0 THEN encoder ELSE EncodeGate(f[k - 1], keys[k])]]
           rank == [k \in D |-> k]
<1>0. n \in Nat /\ \A k \in 1 .. n : keys[k] \in S
  OBVIOUS
<1>1. ASSUME NEW f \in [D -> V], NEW k \in D
      PROVE  (IF k = 0 THEN encoder ELSE EncodeGate(f[k - 1], keys[k])) \in V
  <2>1. CASE k = 0
    BY <2>1
  <2>2. CASE k # 0
    <3>0. k - 1 \in D /\ k \in 1 .. n
      BY <1>0, <2>2
    <3>1. f[k - 1] \in Seq(S) /\ keys[k] \in S
      <4> HIDE DEF D
      <4>. QED
        BY <1>0, <3>0
    <3>2. EncodeGate(f[k - 1], keys[k]) \in Seq(S)
      BY <3>1, EncodeGateTyped
    <3>. QED
      BY <2>2, <3>2
  <2>. QED
    BY <2>1, <2>2
<1>2. Descends(F, D, V, rank)
  <2>1. \A k \in D : rank[k] \in Nat
    BY <1>0
  <2>2. \A k \in D : k # 0 => k - 1 \in D /\ rank[k - 1] < rank[k]
    BY <1>0
  <2> HIDE DEF D, V, rank
  <2>3. F \in [[D -> V] -> [D -> V]]
    BY <1>1
  <2>4. ASSUME NEW g \in [D -> V], NEW h \in [D -> V], NEW k \in D,
               \A j \in D : rank[j] < rank[k] => g[j] = h[j]
        PROVE  F[g][k] = F[h][k]
    BY <2>2, <2>4
  <2>. QED
    BY <2>1, <2>3, <2>4 DEF Descends
<1>3. PICK f \in [D -> V] : f = F[f]
  <2>1. V # {}
    BY <1>0
  <2> HIDE DEF D, V, F, rank
  <2>. QED
    BY <1>2, <2>1, RecursiveFunction
<1> DEFINE after == CHOOSE after : after = [k \in 0 .. Len(keys) |->
             IF k = 0 THEN encoder ELSE EncodeGate(after[k - 1], keys[k])]
<1>4. EncodeGates(encoder, keys) = after[n]
  BY DEF EncodeGates
<1>5. after = [k \in D |-> IF k = 0 THEN encoder ELSE EncodeGate(after[k - 1], keys[k])]
  <2>1. f = [k \in 0 .. Len(keys) |-> IF k = 0 THEN encoder ELSE EncodeGate(f[k - 1], keys[k])]
    BY <1>3
  <2>. QED
    BY <2>1
<1> HIDE DEF after
<1>6. after[0] = encoder
  BY <1>0, <1>5
<1>7. ASSUME NEW k \in 1 .. n PROVE after[k] = EncodeGate(after[k - 1], keys[k])
  <2>1. k \in D /\ k # 0
    BY <1>0
  <2> HIDE DEF D
  <2>. QED
    BY <1>5, <2>1
<1>8. \A k \in D : after[k] \in V
  <2> DEFINE Typed == {k \in Nat : k \in D => after[k] \in V}
  <2>1. 0 \in Typed
    BY <1>6
  <2>2. ASSUME NEW k \in Nat, k \in Typed PROVE k + 1 \in Typed
    <3> SUFFICES ASSUME k + 1 \in D PROVE after[k + 1] \in V
      OBVIOUS
    <3>1. k \in D /\ k + 1 \in 1 .. n /\ (k + 1) - 1 = k /\ keys[k + 1] \in S
      BY <1>0
    <3>2. after[k] \in Seq(S) /\ after[k + 1] = EncodeGate(after[k], keys[k + 1])
      BY <1>7, <2>2, <3>1
    <3>3. EncodeGate(after[k], keys[k + 1]) \in Seq(S)
      BY <3>1, <3>2, EncodeGateTyped
    <3>. QED
      BY <3>2, <3>3
  <2>3. Nat \subseteq Typed
    <3> HIDE DEF Typed
    <3>. QED
      BY <2>1, <2>2, NatSetInduction
  <2>. QED
    BY <1>0, <2>3
<1>9. after \in [D -> V]
  <2> HIDE DEF D, V
  <2>. QED
    BY <1>5, <1>8
<1>. QED
  BY <1>4, <1>6, <1>7, <1>9

(* After the loop the encoder has the keys it had, with the ids they had,   *)
(* and the keys of the loop.                                                *)
LEMMA EncodeGatesFacts ==
    ASSUME NEW S, NEW encoder \in Seq(S), NEW keys \in Seq(S)
    PROVE  /\ EncodeGates(encoder, keys) \in Seq(S)
           /\ Extends(EncodeGates(encoder, keys), encoder)
           /\ IsEncoder(encoder) => IsEncoder(EncodeGates(encoder, keys))
           /\ \A k : KeyExists(EncodeGates(encoder, keys), k) <=>
                        KeyExists(encoder, k) \/ \E i \in DOMAIN keys : keys[i] = k
           /\ (\A i \in DOMAIN keys : KeyExists(encoder, keys[i])) =>
                  EncodeGates(encoder, keys) = encoder
<1> DEFINE n == Len(keys)
<1>0. n \in Nat /\ DOMAIN keys = 1 .. n /\ \A k \in 1 .. n : keys[k] \in S
  OBVIOUS
<1>1. PICK after \in [0 .. n -> Seq(S)] :
         /\ after[0] = encoder
         /\ \A k \in 1 .. n : after[k] = EncodeGate(after[k - 1], keys[k])
         /\ EncodeGates(encoder, keys) = after[n]
  BY EncodeGatesLoop, SMTT(60)
<1> DEFINE Has(m) == \A k : KeyExists(after[m], k) <=>
                        KeyExists(encoder, k) \/ \E i \in 1 .. m : keys[i] = k
           Kept(m) == /\ Extends(after[m], encoder)
                      /\ IsEncoder(encoder) => IsEncoder(after[m])
                      /\ (\A i \in 1 .. n : KeyExists(encoder, keys[i])) => after[m] = encoder
           Holds == {m \in Nat : m <= n => Has(m) /\ Kept(m)}
<1>2. 0 \in Holds
  <2>1. Has(0)
    BY <1>1
  <2>2. Kept(0)
    BY <1>1 DEF Extends
  <2>. QED
    BY <2>1, <2>2
<1>3. ASSUME NEW m \in Nat, m \in Holds PROVE m + 1 \in Holds
  <2> SUFFICES ASSUME m + 1 <= n PROVE Has(m + 1) /\ Kept(m + 1)
    OBVIOUS
  <2>1. Has(m) /\ Kept(m)
    BY <1>0, <1>3
  <2>2. m \in 0 .. n /\ m + 1 \in 1 .. n /\ (m + 1) - 1 = m /\ keys[m + 1] \in S
    BY <1>0
  <2>3. after[m] \in Seq(S) /\ after[m + 1] = EncodeGate(after[m], keys[m + 1])
    BY <1>1, <2>2
  <2> DEFINE next == after[m + 1]
             key  == keys[m + 1]
  <2>4. /\ next \in Seq(S) /\ Extends(next, after[m])
        /\ IsEncoder(after[m]) => IsEncoder(next)
        /\ KeyExists(after[m], key) => next = after[m]
        /\ \A k : KeyExists(next, k) <=> KeyExists(after[m], k) \/ k = key
    <3> DEFINE e == EncodeGate(after[m], key)
    <3>1. /\ e \in Seq(S) /\ Extends(e, after[m])
          /\ IsEncoder(after[m]) => IsEncoder(e)
          /\ KeyExists(after[m], key) => e = after[m]
          /\ \A k : KeyExists(e, k) <=> KeyExists(after[m], k) \/ k = key
      <4>1. after[m] \in Seq(S) /\ key \in S
        BY <2>2, <2>3
      <4> HIDE DEF key
      <4>. QED
        BY <4>1, EncodeGateFacts
    <3>2. next = e
      BY <2>3
    <3>. QED
      BY <3>1, <3>2
  <2>5. \A i \in 1 .. m + 1 : i \in 1 .. m \/ i = m + 1
    OBVIOUS
  <2>6. 1 .. m \subseteq 1 .. m + 1 /\ m + 1 \in 1 .. m + 1
    OBVIOUS
  <2>7. ASSUME NEW k
        PROVE  KeyExists(next, k) <=> KeyExists(encoder, k) \/ \E i \in 1 .. m + 1 : keys[i] = k
    <3>1. KeyExists(next, k) <=> KeyExists(encoder, k) \/ (\E i \in 1 .. m : keys[i] = k) \/ k = key
      BY <2>1, <2>4
    <3>2. (\E i \in 1 .. m + 1 : keys[i] = k) <=> (\E i \in 1 .. m : keys[i] = k) \/ k = key
      BY <2>5, <2>6
    <3> HIDE DEF next, key
    <3>. QED
      BY <3>1, <3>2
  <2>8. Extends(next, encoder)
    <3>1. Len(encoder) \in Nat /\ Len(after[m]) \in Nat /\ Len(next) \in Nat
      BY <2>3, <2>4
    <3>2. DOMAIN encoder = 1 .. Len(encoder) /\ DOMAIN after[m] = 1 .. Len(after[m])
      BY <2>3
    <3> HIDE DEF next
    <3>. QED
      BY <2>1, <2>4, <3>1, <3>2 DEF Extends
  <2>9. (\A i \in 1 .. n : KeyExists(encoder, keys[i])) => next = encoder
    BY <2>1, <2>2, <2>4
  <2>. QED
    <3>1. Has(m + 1)
      BY <2>7
    <3>2. Kept(m + 1)
      BY <2>1, <2>4, <2>8, <2>9
    <3>. QED
      BY <3>1, <3>2
<1>4. Nat \subseteq Holds
  <2> HIDE DEF Holds
  <2>. QED
    BY <1>2, <1>3, NatSetInduction
<1>5. n \in Holds
  <2> HIDE DEF Holds
  <2>. QED
    BY <1>0, <1>4
<1>6. Has(n) /\ Kept(n)
  <2> HIDE DEF Has, Kept
  <2>. QED
    BY <1>0, <1>5
<1>7. after[n] \in Seq(S)
  BY <1>0, <1>1
<1>. QED
  BY <1>0, <1>1, <1>6, <1>7

(* A new encoder gives the ids in the order of the keys.                    *)
LEMMA EncodeNewKeys ==
    ASSUME NEW S, NEW keys \in Seq(S), IsEncoder(keys)
    PROVE  EncodeGates(NoEncoder, keys) = keys
<1> DEFINE n == Len(keys)
<1>0. n \in Nat /\ DOMAIN keys = 1 .. n /\ NoEncoder \in Seq(S) /\ keys = [i \in 1 .. n |-> keys[i]]
  BY DEF NoEncoder
<1>1. PICK after \in [0 .. n -> Seq(S)] :
         /\ after[0] = NoEncoder
         /\ \A k \in 1 .. n : after[k] = EncodeGate(after[k - 1], keys[k])
         /\ EncodeGates(NoEncoder, keys) = after[n]
  <2>1. NoEncoder \in Seq(S)
    BY <1>0
  <2>. QED
    BY <2>1, EncodeGatesLoop
<1> DEFINE Prefix(m) == Len(after[m]) = m /\ \A i \in 1 .. m : after[m][i] = keys[i]
           Holds == {m \in Nat : m <= n => Prefix(m)}
<1>2. 0 \in Holds
  BY <1>1 DEF NoEncoder
<1>3. ASSUME NEW m \in Nat, m \in Holds PROVE m + 1 \in Holds
  <2> SUFFICES ASSUME m + 1 <= n PROVE Prefix(m + 1)
    OBVIOUS
  <2>1. Prefix(m)
    BY <1>0, <1>3
  <2>2. m \in 0 .. n /\ m + 1 \in 1 .. n /\ (m + 1) - 1 = m /\ keys[m + 1] \in S
    BY <1>0, SMTT(60)
  <2>3. after[m] \in Seq(S) /\ after[m + 1] = EncodeGate(after[m], keys[m + 1])
    BY <1>1, <2>2
  <2>4. ~KeyExists(after[m], keys[m + 1])
    <3>1. DOMAIN after[m] = 1 .. m
      BY <2>1, <2>3
    <3>2. \A i \in 1 .. m : i \in 1 .. n /\ i # m + 1
      BY <1>0
    <3>. QED
      BY <1>0, <2>1, <2>2, <3>1, <3>2 DEF KeyExists, IsEncoder
  <2>5. after[m + 1] = Append(after[m], keys[m + 1])
    <3>1. EncodeGate(after[m], keys[m + 1]) = Append(after[m], keys[m + 1])
      BY <2>2, <2>3, <2>4 DEF EncodeGate
    <3>. QED
      BY <2>3, <3>1
  <2>. QED
    BY <2>1, <2>2, <2>3, <2>5
<1>4. Nat \subseteq Holds
  <2> HIDE DEF Holds
  <2>. QED
    BY <1>2, <1>3, NatSetInduction
<1>5. Prefix(n) /\ after[n] \in Seq(S)
  BY <1>0, <1>1, <1>4
<1>6. after[n] = [i \in 1 .. n |-> after[n][i]]
  BY <1>5
<1>7. after[n] = keys
  BY <1>0, <1>5, <1>6
<1>. QED
  BY <1>1, <1>7

------------------------------------------------------------------------------
(* The order of its operands makes no difference to a gate whose operator   *)
(* is symmetric: what a fold over AND, OR or XOR comes to depends only on   *)
(* which states it has met and how often.  AND and OR are decided by one    *)
(* state.                                                                   *)
Meets(op, zero) ==
    \A x, y \in GateStates :
        op[x][y] = IF x = zero \/ y = zero THEN zero
                   ELSE IF x = StUndef \/ y = StUndef THEN StUndef ELSE 1 - zero

(* What such a fold gives of the first k of the states a.                   *)
Met(a, k, zero) ==
    IF \E i \in 1 .. k : a[i] = zero THEN zero
    ELSE IF \E i \in 1 .. k : a[i] = StUndef THEN StUndef ELSE 1 - zero

(* The folds of AND and OR over states: a zero anywhere decides, or else an *)
(* undefined state does, or else all are the one.                           *)
LEMMA FoldMeets ==
    ASSUME NEW op, NEW zero \in {StFalse, StTrue}, Meets(op, zero),
           NEW n \in Nat, n >= 2, NEW a \in [1 .. n -> GateStates],
           NEW s, Folds(s, op, a)
    PROVE  s[n] = Met(a, n, zero)
<1> DEFINE Holds == {k \in Nat : k \in 2 .. n => s[k] = Met(a, k, zero)}
<1>0. /\ Len(a) = n /\ 1 \in 1 .. n /\ 2 \in 1 .. n
      /\ GateStates = {0, 1, 2} /\ StUndef = 2 /\ zero \in {0, 1}
  BY FunctionIsSequence DEF GateStates, StFalse, StTrue, StUndef
<1>1. 0 \in Holds
  OBVIOUS
<1>2. ASSUME NEW k \in Nat, k \in Holds PROVE k + 1 \in Holds
  <2> SUFFICES ASSUME k + 1 \in 2 .. n PROVE s[k + 1] = Met(a, k + 1, zero)
    OBVIOUS
  <2>1. CASE k + 1 = 2
    <3>1. s[2] = op[a[1]][a[2]]
      BY DEF Folds
    <3>2. a[1] \in GateStates /\ a[2] \in GateStates
      BY <1>0
    <3>3. \A i \in 1 .. 2 : i = 1 \/ i = 2
      OBVIOUS
    <3>4. (\E i \in 1 .. 2 : a[i] = zero) <=> a[1] = zero \/ a[2] = zero
      BY <3>3
    <3>5. (\E i \in 1 .. 2 : a[i] = StUndef) <=> a[1] = StUndef \/ a[2] = StUndef
      BY <3>3
    <3>. QED
      BY <2>1, <3>1, <3>2, <3>4, <3>5 DEF Meets, Met
  <2>2. CASE k + 1 # 2
    <3>1. k + 1 \in 3 .. n /\ k \in 2 .. n /\ (k + 1) - 1 = k /\ k + 1 \in 1 .. n
      BY <2>2
    <3>2. s[k + 1] = op[s[k]][a[k + 1]] /\ s[k] \in GateStates /\ a[k + 1] \in GateStates
      BY <1>0, <3>1 DEF Folds
    <3>3. s[k] = Met(a, k, zero)
      BY <1>2, <3>1
    <3>4. \A i \in 1 .. k + 1 : i \in 1 .. k \/ i = k + 1
      OBVIOUS
    <3>5. 1 .. k \subseteq 1 .. k + 1 /\ k + 1 \in 1 .. k + 1
      OBVIOUS
    <3>6. (\E i \in 1 .. k + 1 : a[i] = zero) <=> (\E i \in 1 .. k : a[i] = zero) \/ a[k + 1] = zero
      BY <3>4, <3>5
    <3>7. (\E i \in 1 .. k + 1 : a[i] = StUndef)
          <=> (\E i \in 1 .. k : a[i] = StUndef) \/ a[k + 1] = StUndef
      BY <3>4, <3>5
    <3>8. op[s[k]][a[k + 1]] = IF s[k] = zero \/ a[k + 1] = zero THEN zero
                               ELSE IF s[k] = StUndef \/ a[k + 1] = StUndef THEN StUndef ELSE 1 - zero
      BY <3>2 DEF Meets
    <3>. QED
      BY <1>0, <3>2, <3>3, <3>6, <3>7, <3>8 DEF Met
  <2>. QED
    BY <2>1, <2>2
<1>3. Nat \subseteq Holds
  <2> HIDE DEF Holds
  <2>. QED
    BY <1>1, <1>2, NatSetInduction
<1>. QED
  BY <1>3

(* XOR counts the operands that are true.                                   *)
Counts(op) ==
    \A x, y \in GateStates :
        op[x][y] = IF x = StUndef \/ y = StUndef THEN StUndef
                   ELSE IF x = y THEN StFalse ELSE StTrue

(* The places among the first k that hold a true state.                     *)
Ones(a, k) == {i \in 1 .. k : a[i] = StTrue}

(* What a fold of XOR gives of the first k of the states a.                 *)
Parity(a, k) ==
    IF \E i \in 1 .. k : a[i] = StUndef THEN StUndef ELSE Cardinality(Ones(a, k)) % 2

(* Adding a bit to a number exchanges its remainder modulo two as XOR does. *)
LEMMA ParityStep ==
    ASSUME NEW c \in Nat, NEW d \in Nat, NEW x \in {0, 1}, d = IF x = 1 THEN c + 1 ELSE c
    PROVE  d % 2 = IF c % 2 = x THEN 0 ELSE 1
<1>1. c % 2 \in {0, 1}
  OBVIOUS
<1>2. CASE x = 0
  BY <1>1, <1>2
<1>3. CASE x = 1
  BY <1>1, <1>3
<1>. QED
  BY <1>2, <1>3

(* The fold of XOR over states: undefined if a state is, or else the parity *)
(* of the ones.                                                             *)
LEMMA FoldCounts ==
    ASSUME NEW op, Counts(op), NEW n \in Nat, n >= 2, NEW a \in [1 .. n -> GateStates],
           NEW s, Folds(s, op, a)
    PROVE  s[n] = Parity(a, n)
<1> DEFINE Holds == {k \in Nat : k \in 2 .. n => s[k] = Parity(a, k)}
<1>0. /\ Len(a) = n /\ 1 \in 1 .. n /\ 2 \in 1 .. n
      /\ GateStates = {0, 1, 2} /\ StUndef = 2 /\ StTrue = 1 /\ StFalse = 0
  BY FunctionIsSequence DEF GateStates, StFalse, StTrue, StUndef
<1>1. 0 \in Holds
  OBVIOUS
<1>2. ASSUME NEW k \in Nat
      PROVE  /\ IsFiniteSet(Ones(a, k)) /\ Cardinality(Ones(a, k)) \in Nat
             /\ Cardinality(Ones(a, k + 1)) =
                   IF a[k + 1] = StTrue THEN Cardinality(Ones(a, k)) + 1 ELSE Cardinality(Ones(a, k))
  <2>1. IsFiniteSet(1 .. k) /\ Ones(a, k) \in SUBSET (1 .. k)
    BY FS_Interval DEF Ones
  <2>2. IsFiniteSet(Ones(a, k)) /\ Cardinality(Ones(a, k)) \in Nat
    BY <2>1, FS_Subset, FS_CardinalityType
  <2>3. k + 1 \notin Ones(a, k)
    BY DEF Ones
  <2>4. Ones(a, k + 1) = IF a[k + 1] = StTrue THEN Ones(a, k) \cup {k + 1} ELSE Ones(a, k)
    <3>1. \A i : i \in 1 .. k + 1 <=> i \in 1 .. k \/ i = k + 1
      OBVIOUS
    <3>. QED
      BY <3>1 DEF Ones
  <2>5. Cardinality(Ones(a, k) \cup {k + 1}) = Cardinality(Ones(a, k)) + 1
    BY <2>2, <2>3, FS_AddElement
  <2>. QED
    BY <2>2, <2>4, <2>5
<1>3. \A m \in Nat : m % 2 \in {0, 1} /\ (m + 1) % 2 = 1 - (m % 2)
  OBVIOUS
<1>4. ASSUME NEW k \in Nat, k \in Holds PROVE k + 1 \in Holds
  <2> SUFFICES ASSUME k + 1 \in 2 .. n PROVE s[k + 1] = Parity(a, k + 1)
    OBVIOUS
  <2>1. CASE k + 1 = 2
    <3>1. s[2] = op[a[1]][a[2]]
      BY DEF Folds
    <3>2. a[1] \in {0, 1, 2} /\ a[2] \in {0, 1, 2}
      BY <1>0
    <3>3. \A i \in 1 .. 2 : i = 1 \/ i = 2
      OBVIOUS
    <3>4. (\E i \in 1 .. 2 : a[i] = StUndef) <=> a[1] = StUndef \/ a[2] = StUndef
      BY <3>3
    <3>5. Cardinality(Ones(a, 0)) = 0
      BY FS_EmptySet DEF Ones
    <3>6. Cardinality(Ones(a, 1)) = IF a[1] = 1 THEN 1 ELSE 0
      <4>1. Cardinality(Ones(a, 0 + 1)) =
               IF a[0 + 1] = StTrue THEN Cardinality(Ones(a, 0)) + 1 ELSE Cardinality(Ones(a, 0))
        BY <1>2
      <4>. QED
        BY <1>0, <3>5, <4>1
    <3>7. Cardinality(Ones(a, 2)) = (IF a[1] = 1 THEN 1 ELSE 0) + (IF a[2] = 1 THEN 1 ELSE 0)
      <4>1. Cardinality(Ones(a, 1 + 1)) =
               IF a[1 + 1] = StTrue THEN Cardinality(Ones(a, 1)) + 1 ELSE Cardinality(Ones(a, 1))
        BY <1>2
      <4>. QED
        BY <1>0, <3>6, <4>1
    <3>8. 0 % 2 = 0 /\ 1 % 2 = 1 /\ 2 % 2 = 0
      OBVIOUS
    <3>. QED
      BY <1>0, <2>1, <3>1, <3>2, <3>4, <3>7, <3>8 DEF Parity, Counts
  <2>2. CASE k + 1 # 2
    <3>1. k + 1 \in 3 .. n /\ k \in 2 .. n /\ (k + 1) - 1 = k /\ k + 1 \in 1 .. n
      BY <2>2
    <3>2. s[k + 1] = op[s[k]][a[k + 1]] /\ s[k] \in GateStates /\ a[k + 1] \in GateStates
      BY <1>0, <3>1 DEF Folds
    <3>3. s[k] = Parity(a, k)
      BY <1>4, <3>1
    <3>4. \A i \in 1 .. k + 1 : i \in 1 .. k \/ i = k + 1
      OBVIOUS
    <3>5. 1 .. k \subseteq 1 .. k + 1 /\ k + 1 \in 1 .. k + 1
      OBVIOUS
    <3>6. (\E i \in 1 .. k + 1 : a[i] = StUndef)
          <=> (\E i \in 1 .. k : a[i] = StUndef) \/ a[k + 1] = StUndef
      BY <3>4, <3>5
    <3>7. op[s[k]][a[k + 1]] = IF s[k] = StUndef \/ a[k + 1] = StUndef THEN StUndef
                               ELSE IF s[k] = a[k + 1] THEN StFalse ELSE StTrue
      BY <3>2 DEF Counts
    <3> DEFINE c == Cardinality(Ones(a, k))
               d == Cardinality(Ones(a, k + 1))
    <3>8. c \in Nat /\ d = IF a[k + 1] = 1 THEN c + 1 ELSE c
      BY <1>0, <1>2
    <3>9. c % 2 \in {0, 1}
      BY <1>3, <3>8
    <3>11. Parity(a, k) = IF \E i \in 1 .. k : a[i] = StUndef THEN StUndef ELSE c % 2
      BY DEF Parity
    <3>12. Parity(a, k + 1) = IF \E i \in 1 .. k + 1 : a[i] = StUndef THEN StUndef ELSE d % 2
      BY DEF Parity
    <3> DEFINE u == \E i \in 1 .. k : a[i] = StUndef
    <3> HIDE DEF c, d
    <3>13. s[k] = IF u THEN 2 ELSE c % 2
      BY <1>0, <3>3, <3>11
    <3>14. Parity(a, k + 1) = IF u \/ a[k + 1] = 2 THEN 2 ELSE d % 2
      BY <1>0, <3>6, <3>12
    <3> HIDE DEF u
    <3>15. CASE u \/ a[k + 1] = 2
      BY <1>0, <3>2, <3>7, <3>13, <3>14, <3>15
    <3>16. CASE ~u /\ a[k + 1] # 2
      <4>1. a[k + 1] \in {0, 1} /\ s[k] = c % 2 /\ s[k] # 2
        BY <1>0, <3>2, <3>9, <3>13, <3>16
      <4>2. s[k + 1] = IF s[k] = a[k + 1] THEN 0 ELSE 1
        BY <1>0, <3>2, <3>7, <4>1
      <4>3. Parity(a, k + 1) = d % 2
        BY <3>14, <3>16
      <4>4. d \in Nat
        BY <3>8
      <4>5. d % 2 = IF c % 2 = a[k + 1] THEN 0 ELSE 1
        BY <3>8, <4>1, <4>4, ParityStep
      <4>. QED
        BY <4>1, <4>2, <4>3, <4>5
    <3>. QED
      BY <3>15, <3>16
  <2>. QED
    BY <2>1, <2>2
<1>5. Nat \subseteq Holds
  <2> HIDE DEF Holds
  <2>. QED
    BY <1>1, <1>4, NatSetInduction
<1>. QED
  BY <1>5

(* Whether a zero, or an undefined state, is among the operands does not    *)
(* depend on their order.                                                   *)
LEMMA MetPermuted ==
    ASSUME NEW n \in Nat, NEW zero, NEW a \in [1 .. n -> GateStates],
           NEW p, IsPermutation(p, n), NEW b, b = [i \in 1 .. n |-> a[p[i]]]
    PROVE  Met(b, n, zero) = Met(a, n, zero)
<1>1. \A x : (\E i \in 1 .. n : b[i] = x) <=> (\E i \in 1 .. n : a[i] = x)
  <2>1. ASSUME NEW x, NEW i \in 1 .. n, a[i] = x PROVE \E j \in 1 .. n : b[j] = x
    <3>1. PICK j \in 1 .. n : p[j] = i
      BY DEF IsPermutation
    <3>. QED
      BY <2>1, <3>1
  <2>2. \A i \in 1 .. n : p[i] \in 1 .. n
    BY DEF IsPermutation
  <2>. QED
    BY <2>1, <2>2
<1>. QED
  BY <1>1 DEF Met

(* The parity of the ones does not depend on their order.                   *)
LEMMA ParityPermuted ==
    ASSUME NEW n \in Nat, NEW a \in [1 .. n -> GateStates],
           NEW p, IsPermutation(p, n), NEW b, b = [i \in 1 .. n |-> a[p[i]]]
    PROVE  Parity(b, n) = Parity(a, n)
<1> DEFINE S == Ones(b, n)
           T == Ones(a, n)
           f == [i \in S |-> p[i]]
<1>0. \A i \in 1 .. n : p[i] \in 1 .. n
  BY DEF IsPermutation
<1>1. \A x : (\E i \in 1 .. n : b[i] = x) <=> (\E i \in 1 .. n : a[i] = x)
  <2>1. ASSUME NEW x, NEW i \in 1 .. n, a[i] = x PROVE \E j \in 1 .. n : b[j] = x
    <3>1. PICK j \in 1 .. n : p[j] = i
      BY DEF IsPermutation
    <3>. QED
      BY <2>1, <3>1
  <2>. QED
    BY <1>0, <2>1
<1>2. IsFiniteSet(S)
  <2>1. S \in SUBSET (1 .. n)
    BY DEF Ones
  <2>. QED
    BY <2>1, FS_Interval, FS_Subset
<1>3. \A i \in S : f[i] \in T
  BY <1>0 DEF Ones
<1>4. \A i, j \in S : f[i] = f[j] => i = j
  BY DEF Ones, IsPermutation
<1>5. ASSUME NEW k \in T PROVE \E i \in S : f[i] = k
  <2>1. PICK i \in 1 .. n : p[i] = k
    BY DEF Ones, IsPermutation
  <2>2. i \in S
    BY <2>1 DEF Ones
  <2>. QED
    BY <2>1, <2>2
<1>6. ExistsBijection(S, T)
  <2>1. f \in [S -> T]
    BY <1>3
  <2> HIDE DEF S, T, f
  <2>2. f \in Bijection(S, T)
    BY <1>4, <1>5, <2>1 DEF Bijection, Injection, IsInjective, Surjection
  <2>. QED
    BY <2>2 DEF ExistsBijection
<1>7. Cardinality(S) = Cardinality(T)
  BY <1>2, <1>6, FS_Bijection
<1>. QED
  BY <1>1, <1>7 DEF Parity

(* The three operators that gates fold over.                                *)
LEMMA FoldOperators ==
    /\ Meets(FunctionOf(AND), StFalse)
    /\ Meets(FunctionOf(OR), StTrue)
    /\ Counts(FunctionOf(XOR))
<1>1. ASSUME NEW f, \A x, y \in GateStates : f[x][y] = AND(x, y) PROVE Meets(f, StFalse)
  BY <1>1 DEF Meets, AND, Lookup2, GateStates, StFalse, StTrue, StUndef
<1>2. ASSUME NEW f, \A x, y \in GateStates : f[x][y] = OR(x, y) PROVE Meets(f, StTrue)
  BY <1>2 DEF Meets, OR, Lookup2, GateStates, StFalse, StTrue, StUndef
<1>3. ASSUME NEW f, \A x, y \in GateStates : f[x][y] = XOR(x, y) PROVE Counts(f)
  BY <1>3 DEF Counts, XOR, Lookup2, GateStates, StFalse, StTrue, StUndef
<1>4. \A x, y \in GateStates : FunctionOf(AND)[x][y] = AND(x, y)
  BY DEF FunctionOf
<1>5. \A x, y \in GateStates : FunctionOf(OR)[x][y] = OR(x, y)
  BY DEF FunctionOf
<1>6. \A x, y \in GateStates : FunctionOf(XOR)[x][y] = XOR(x, y)
  BY DEF FunctionOf
<1>. QED
  BY <1>1, <1>2, <1>3, <1>4, <1>5, <1>6, Zenon

(* The three folds of states do not depend on the order of the states.      *)
LEMMA FoldPermuted ==
    ASSUME NEW n \in Nat, n >= 2, NEW a \in [1 .. n -> GateStates],
           NEW p, IsPermutation(p, n), NEW b, b = [i \in 1 .. n |-> a[p[i]]]
    PROVE  /\ FoldMap(FunctionOf(AND), StFalse, b) = FoldMap(FunctionOf(AND), StFalse, a)
           /\ FoldMap(FunctionOf(OR), StTrue, b) = FoldMap(FunctionOf(OR), StTrue, a)
           /\ FoldMap(FunctionOf(XOR), StUndef, b) = FoldMap(FunctionOf(XOR), StUndef, a)
<1>1. b \in [1 .. n -> GateStates]
  BY DEF IsPermutation
<1>2. ASSUME NEW op, IsStateOperator(op), NEW terminal,
             terminal = StUndef \/ \A x \in GateStates : op[terminal][x] = terminal,
             NEW d \in [1 .. n -> GateStates]
      PROVE  \E t : Folds(t, op, d) /\ FoldMap(op, terminal, d) = t[n]
  <2>1. d \in Seq(GateStates) /\ Len(d) = n
    BY FunctionIsSequence
  <2>2. op \in [GateStates -> [GateStates -> GateStates]]
    BY <1>2 DEF IsStateOperator
  <2>3. \E t : Folds(t, op, d) /\ FoldMap(op, terminal, d) = t[Len(d)]
    BY <1>2, <2>1, <2>2, FoldStates
  <2>. QED
    BY <2>1, <2>3
<1>3. ASSUME NEW op, IsStateOperator(op), NEW zero \in {StFalse, StTrue}, Meets(op, zero),
             \A x \in GateStates : op[zero][x] = zero
      PROVE  FoldMap(op, zero, b) = FoldMap(op, zero, a)
  <2>1. PICK s : Folds(s, op, a) /\ FoldMap(op, zero, a) = s[n]
    BY <1>2, <1>3
  <2>2. PICK t : Folds(t, op, b) /\ FoldMap(op, zero, b) = t[n]
    BY <1>1, <1>2, <1>3
  <2>3. s[n] = Met(a, n, zero) /\ t[n] = Met(b, n, zero)
    BY <1>1, <1>3, <2>1, <2>2, FoldMeets
  <2>4. Met(a, n, zero) = Met(b, n, zero)
    BY MetPermuted
  <2>. QED
    BY <2>1, <2>2, <2>3, <2>4
<1>4. ASSUME NEW op, IsStateOperator(op), Counts(op)
      PROVE  FoldMap(op, StUndef, b) = FoldMap(op, StUndef, a)
  <2>1. PICK s : Folds(s, op, a) /\ FoldMap(op, StUndef, a) = s[n]
    BY <1>2, <1>4
  <2>2. PICK t : Folds(t, op, b) /\ FoldMap(op, StUndef, b) = t[n]
    BY <1>1, <1>2, <1>4
  <2>3. s[n] = Parity(a, n) /\ t[n] = Parity(b, n)
    BY <1>1, <1>4, <2>1, <2>2, FoldCounts
  <2>4. Parity(a, n) = Parity(b, n)
    BY ParityPermuted
  <2>. QED
    BY <2>1, <2>2, <2>3, <2>4
<1>5. StFalse \in {StFalse, StTrue} /\ StTrue \in {StFalse, StTrue}
  OBVIOUS
<1>6. FoldMap(FunctionOf(AND), StFalse, b) = FoldMap(FunctionOf(AND), StFalse, a)
  BY <1>3, <1>5, StateOperators, FoldOperators, Zenon
<1>7. FoldMap(FunctionOf(OR), StTrue, b) = FoldMap(FunctionOf(OR), StTrue, a)
  BY <1>3, <1>5, StateOperators, FoldOperators, Zenon
<1>8. FoldMap(FunctionOf(XOR), StUndef, b) = FoldMap(FunctionOf(XOR), StUndef, a)
  BY <1>4, StateOperators, FoldOperators, Zenon
<1>. QED
  BY <1>6, <1>7, <1>8

(* A gate with a symmetric operator does not depend on the order of its     *)
(* operands, which the constructors of GateInfo sort.                       *)
LEMMA OperatorPermuted ==
    ASSUME NEW type \in OperatorTypes, type # "MUX", NEW n \in Nat, ArityOk(type, n),
           NEW a \in [1 .. n -> GateStates],
           NEW p, IsPermutation(p, n), NEW b, b = [i \in 1 .. n |-> a[p[i]]]
    PROVE  Operator(type, b) = Operator(type, a)
<1>1. CASE type \in FoldTypes
  <2>1. n >= 2
    BY <1>1, ArityCases
  <2>2. /\ FoldMap(FunctionOf(AND), StFalse, b) = FoldMap(FunctionOf(AND), StFalse, a)
        /\ FoldMap(FunctionOf(OR), StTrue, b) = FoldMap(FunctionOf(OR), StTrue, a)
        /\ FoldMap(FunctionOf(XOR), StUndef, b) = FoldMap(FunctionOf(XOR), StUndef, a)
    BY <2>1, FoldPermuted
  <2>3. Operator("AND", b) = Operator("AND", a) /\ Operator("NAND", b) = Operator("NAND", a)
    BY <2>2, OperatorCases, ZenonT(60)
  <2>4. Operator("OR", b) = Operator("OR", a) /\ Operator("NOR", b) = Operator("NOR", a)
    BY <2>2, OperatorCases, ZenonT(60)
  <2>5. Operator("XOR", b) = Operator("XOR", a) /\ Operator("NXOR", b) = Operator("NXOR", a)
    BY <2>2, OperatorCases, ZenonT(60)
  <2>. QED
    BY <1>1, <2>3, <2>4, <2>5 DEF FoldTypes
<1>2. CASE type \in {"NOT", "IFF"}
  <2>1. n = 1
    BY <1>2, ArityCases
  <2>2. p[1] = 1 /\ b[1] = a[1]
    BY <2>1 DEF IsPermutation
  <2>3. Operator("NOT", b) = Operator("NOT", a) /\ Operator("IFF", b) = Operator("IFF", a)
    BY <2>2, OperatorCases, ZenonT(60), SMTT(60)
  <2>. QED
    BY <1>2, <2>3
<1>3. CASE type \in {"CONST_FALSE", "CONST_TRUE"}
  <2>1. /\ Operator("CONST_FALSE", b) = Operator("CONST_FALSE", a)
        /\ Operator("CONST_TRUE", b) = Operator("CONST_TRUE", a)
    BY OperatorCases, ZenonT(60)
  <2>. QED
    BY <1>3, <2>1
<1>. QED
  BY <1>1, <1>2, <1>3 DEF OperatorTypes

------------------------------------------------------------------------------
(* Operands x are the n operands a in another order, one that makes no      *)
(* difference to a gate of the type.                                        *)
IsReordering(x, a, n, type) ==
    \E p : /\ IsPermutation(p, n)
           /\ type = "MUX" => p = [i \in 1 .. n |-> i]
           /\ x = [i \in 1 .. n |-> a[p[i]]]

(* The constructor of GateInfo keeps the operands but for their order.      *)
LEMMA InfoFacts ==
    ASSUME NEW type, NEW n \in Nat, NEW a \in [1 .. n -> Nat]
    PROVE  /\ GateInfo(type, a).type = type
           /\ IsReordering(GateInfo(type, a).operands, a, n, type)
<1>1. /\ GateInfo(type, a).type = type
      /\ GateInfo(type, a).operands = IF type # "MUX" THEN Sorted(a) ELSE a
  BY DEF GateInfo, SymmetricOperatorQ
<1>2. CASE type = "MUX"
  <2> DEFINE p == [i \in 1 .. n |-> i]
  <2>1. IsPermutation(p, n)
    BY DEF IsPermutation
  <2>2. GateInfo(type, a).operands = [i \in 1 .. n |-> a[p[i]]]
    BY <1>1, <1>2
  <2> DEFINE x == GateInfo(type, a).operands
  <2>3. p = [i \in 1 .. n |-> i]
    OBVIOUS
  <2> HIDE DEF p, x
  <2>4. IsReordering(x, a, n, type)
    <3> SUFFICES \E q : /\ IsPermutation(q, n)
                        /\ type = "MUX" => q = [i \in 1 .. n |-> i]
                        /\ x = [i \in 1 .. n |-> a[q[i]]]
      BY DEF IsReordering
    <3> WITNESS p
    <3>. QED
      BY <2>1, <2>2, <2>3 DEF x
  <2>. QED
    BY <1>1, <2>4 DEF x
<1>3. CASE type # "MUX"
  <2>1. \E p : IsPermutation(p, n) /\ Sorted(a) = [i \in 1 .. n |-> a[p[i]]]
    BY SortedFacts
  <2>. QED
    BY <1>1, <1>3, <2>1 DEF IsReordering
<1>. QED
  BY <1>2, <1>3

(* The gate made is well typed.                                             *)
LEMMA GateInfoTyped ==
    ASSUME NEW n \in Nat, NEW type \in GateTypes, NEW ops \in Seq(1 .. n)
    PROVE  GateInfo(type, ops) \in GateInfos(n)
<1> DEFINE m == Len(ops)
<1>1. m \in Nat /\ ops \in [1 .. m -> 1 .. n] /\ ops \in [1 .. m -> Nat]
  OBVIOUS
<1>2. PICK p : IsPermutation(p, m) /\ Sorted(ops) = [i \in 1 .. m |-> ops[p[i]]]
  <2> HIDE DEF m
  <2>. QED
    BY <1>1, SortedFacts
<1>3. \A i \in 1 .. m : p[i] \in 1 .. m
  BY <1>2 DEF IsPermutation
<1>4. Sorted(ops) \in [1 .. m -> 1 .. n]
  <2> HIDE DEF m
  <2>. QED
    BY <1>1, <1>2, <1>3
<1>5. Sorted(ops) \in Seq(1 .. n)
  BY <1>1, <1>4, FunctionIsSequence
<1>6. GateInfo(type, ops).type = type /\ GateInfo(type, ops).operands \in Seq(1 .. n)
  BY <1>5 DEF GateInfo
<1>7. GateInfo(type, ops) = [type |-> type, operands |-> GateInfo(type, ops).operands]
  BY DEF GateInfo
<1>. QED
  BY <1>6, <1>7 DEF GateInfos

(* Reordered operands are the same, as a set.                               *)
LEMMA ReorderedSet ==
    ASSUME NEW type, NEW n \in Nat, NEW a, NEW x, IsReordering(x, a, n, type)
    PROVE  /\ DOMAIN x = 1 .. n
           /\ \A i \in 1 .. n : \E k \in 1 .. n : x[i] = a[k]
           /\ \A k \in 1 .. n : \E i \in 1 .. n : x[i] = a[k]
<1>1. PICK p : IsPermutation(p, n) /\ x = [i \in 1 .. n |-> a[p[i]]]
  BY DEF IsReordering
<1>2. \A i \in 1 .. n : p[i] \in 1 .. n
  BY <1>1 DEF IsPermutation
<1>3. \A k \in 1 .. n : \E i \in 1 .. n : p[i] = k
  BY <1>1 DEF IsPermutation
<1>. QED
  BY <1>1, <1>2, <1>3

(* The operands of the gate made are those given.                           *)
LEMMA InfoOperands ==
    ASSUME NEW type, NEW ops \in Seq(Nat)
    PROVE  /\ DOMAIN GateInfo(type, ops).operands = DOMAIN ops
           /\ \A i \in DOMAIN ops : \E k \in DOMAIN ops : GateInfo(type, ops).operands[i] = ops[k]
           /\ \A k \in DOMAIN ops : \E i \in DOMAIN ops : GateInfo(type, ops).operands[i] = ops[k]
<1> DEFINE n == Len(ops)
           x == GateInfo(type, ops).operands
<1>1. n \in Nat /\ ops \in [1 .. n -> Nat] /\ DOMAIN ops = 1 .. n
  OBVIOUS
<1> HIDE DEF n
<1>2. IsReordering(x, ops, n, type)
  BY <1>1, InfoFacts
<1> HIDE DEF x
<1>3. PICK p : IsPermutation(p, n) /\ x = [i \in 1 .. n |-> ops[p[i]]]
  BY <1>2 DEF IsReordering
<1>4. \A i \in 1 .. n : p[i] \in 1 .. n
  BY <1>3 DEF IsPermutation
<1>5. \A k \in 1 .. n : \E i \in 1 .. n : p[i] = k
  BY <1>3 DEF IsPermutation
<1>6. /\ DOMAIN x = 1 .. n
      /\ \A i \in 1 .. n : \E k \in 1 .. n : x[i] = ops[k]
      /\ \A k \in 1 .. n : \E i \in 1 .. n : x[i] = ops[k]
  BY <1>3, <1>4, <1>5
<1>. QED
  BY <1>1, <1>6 DEF x

(* If operands are replaced one by one, a reordering of the new ones is one *)
(* of a reordering of the old ones, replaced one by one.                    *)
LEMMA ReorderReplaced ==
    ASSUME NEW type, NEW n \in Nat, NEW m, NEW a, NEW b, \A i \in 1 .. n : b[i] = m[a[i]],
           NEW x, IsReordering(x, a, n, type), NEW y, IsReordering(y, b, n, type)
    PROVE  IsReordering(y, [i \in 1 .. n |-> m[x[i]]], n, type)
<1>1. PICK p : /\ IsPermutation(p, n)
               /\ type = "MUX" => p = [i \in 1 .. n |-> i]
               /\ x = [i \in 1 .. n |-> a[p[i]]]
  BY DEF IsReordering
<1>2. PICK q : /\ IsPermutation(q, n)
               /\ type = "MUX" => q = [i \in 1 .. n |-> i]
               /\ y = [i \in 1 .. n |-> b[q[i]]]
  BY DEF IsReordering
<1> DEFINE inverse == [k \in 1 .. n |-> CHOOSE i \in 1 .. n : p[i] = k]
           r == [i \in 1 .. n |-> inverse[q[i]]]
           z == [i \in 1 .. n |-> m[x[i]]]
<1>3. \A i \in 1 .. n : z[i] = m[x[i]]
  OBVIOUS
<1>4. \A k \in 1 .. n : inverse[k] \in 1 .. n /\ p[inverse[k]] = k
  BY <1>1 DEF IsPermutation
<1>5. \A i \in 1 .. n : q[i] \in 1 .. n /\ p[i] \in 1 .. n
  BY <1>1, <1>2 DEF IsPermutation
<1> HIDE DEF inverse, z
<1>6. \A i \in 1 .. n : r[i] \in 1 .. n /\ p[r[i]] = q[i]
  BY <1>4, <1>5
<1>7. r \in [1 .. n -> 1 .. n]
  BY <1>4, <1>5
<1> HIDE DEF r
<1>8. IsPermutation(r, n)
  <2>1. \A i, j \in 1 .. n : r[i] = r[j] => i = j
    <3>1. \A i, j \in 1 .. n : q[i] = q[j] => i = j
      BY <1>2 DEF IsPermutation
    <3>. QED
      BY <1>6, <3>1
  <2>. QED
    BY <1>7, <2>1, InjectionIsPermutation
<1>9. type = "MUX" => r = [i \in 1 .. n |-> i]
  <2> SUFFICES ASSUME type = "MUX" PROVE r = [i \in 1 .. n |-> i]
    OBVIOUS
  <2>1. \A i \in 1 .. n : q[i] = i /\ p[i] = i
    BY <1>1, <1>2
  <2>2. \A i \in 1 .. n : r[i] = i
    BY <1>6, <2>1
  <2>. QED
    BY <1>7, <2>2
<1>10. y = [i \in 1 .. n |-> z[r[i]]]
  <2>1. ASSUME NEW i \in 1 .. n PROVE y[i] = z[r[i]]
    <3>1. x[r[i]] = a[q[i]] /\ y[i] = b[q[i]]
      BY <1>1, <1>2, <1>6
    <3>. QED
      BY <1>3, <1>5, <1>6, <3>1
  <2>. QED
    BY <1>2, <2>1
<1>11. IsReordering(y, z, n, type)
  BY <1>8, <1>9, <1>10 DEF IsReordering
<1>. QED
  BY <1>11 DEF z

------------------------------------------------------------------------------
(* m takes the gates of T to copies in another circuit: gates of the same   *)
(* type over the copies of their operands, perhaps in another order.        *)
IsCopy(c, T, d, m) ==
    /\ T \subseteq GateIds(c) /\ IsClosed(c, T)
    /\ \A g \in T :
          /\ m[g] \in GateIds(d)
          /\ Operands(c, g) \in Seq(GateIds(c))
          /\ Type(d, m[g]) = Type(c, g)
          /\ IsReordering(Operands(d, m[g]),
                          [i \in 1 .. Len(Operands(c, g)) |-> m[Operands(c, g)[i]]],
                          Len(Operands(c, g)), Type(c, g))

(* The transformers make copies with the constructor of GateInfo.           *)
LEMMA RebuiltIsCopy ==
    ASSUME NEW c, NEW T, NEW d, NEW m,
           T \subseteq GateIds(c), IsClosed(c, T),
           \A g \in T :
              /\ m[g] \in GateIds(d)
              /\ Operands(c, g) \in Seq(GateIds(c))
              /\ d.gates[m[g]] =
                    GateInfo(Type(c, g), [i \in DOMAIN Operands(c, g) |-> m[Operands(c, g)[i]]])
    PROVE  IsCopy(c, T, d, m)
<1> SUFFICES ASSUME NEW g \in T
             PROVE  /\ Type(d, m[g]) = Type(c, g)
                    /\ IsReordering(Operands(d, m[g]),
                                    [i \in 1 .. Len(Operands(c, g)) |-> m[Operands(c, g)[i]]],
                                    Len(Operands(c, g)), Type(c, g))
  BY DEF IsCopy
<1> DEFINE n == Len(Operands(c, g))
           a == [i \in 1 .. n |-> m[Operands(c, g)[i]]]
<1>1. n \in Nat /\ DOMAIN Operands(c, g) = 1 .. n /\ d.gates[m[g]] = GateInfo(Type(c, g), a)
  OBVIOUS
<1>2. ASSUME NEW i \in 1 .. n PROVE m[Operands(c, g)[i]] \in Nat
  <2>1. Operands(c, g)[i] \in OperandSet(c, g)
    BY <1>1 DEF OperandSet
  <2>2. Operands(c, g)[i] \in T
    BY <2>1 DEF IsClosed
  <2>3. m[Operands(c, g)[i]] \in 1 .. Len(d.gates)
    BY <2>2 DEF GateIds
  <2>. QED
    BY <2>3
<1>3. a \in [1 .. n -> Nat]
  BY <1>2
<1> HIDE DEF a, n
<1>4. /\ GateInfo(Type(c, g), a).type = Type(c, g)
      /\ IsReordering(GateInfo(Type(c, g), a).operands, a, n, Type(c, g))
  BY <1>1, <1>3, InfoFacts
<1>. QED
  BY <1>1, <1>4 DEF n, a, Type, Operands

(* The operands of a copy are the copies of the operands.                   *)
LEMMA CopiedOperands ==
    ASSUME NEW c, NEW T, NEW d, NEW m, IsCopy(c, T, d, m), NEW g \in T
    PROVE  /\ Type(d, m[g]) = Type(c, g)
           /\ \E p :
                 /\ IsPermutation(p, Len(Operands(c, g)))
                 /\ Type(c, g) = "MUX" => p = [i \in 1 .. Len(Operands(c, g)) |-> i]
                 /\ Operands(d, m[g]) =
                       [i \in 1 .. Len(Operands(c, g)) |-> m[Operands(c, g)[p[i]]]]
<1> DEFINE n == Len(Operands(c, g))
           a == [i \in 1 .. n |-> m[Operands(c, g)[i]]]
<1>1. /\ Type(d, m[g]) = Type(c, g)
      /\ IsReordering(Operands(d, m[g]), a, n, Type(c, g))
  BY DEF IsCopy
<1>2. \A i \in 1 .. n : a[i] = m[Operands(c, g)[i]]
  OBVIOUS
<1> HIDE DEF a, n
<1>3. PICK p : /\ IsPermutation(p, n)
               /\ Type(c, g) = "MUX" => p = [i \in 1 .. n |-> i]
               /\ Operands(d, m[g]) = [i \in 1 .. n |-> a[p[i]]]
  BY <1>1 DEF IsReordering
<1>4. Operands(d, m[g]) = [i \in 1 .. n |-> m[Operands(c, g)[p[i]]]]
  BY <1>2, <1>3 DEF IsPermutation
<1>. QED
  BY <1>1, <1>3, <1>4 DEF n

(* The operands of a copy, as a set, are the copies of the operands.        *)
LEMMA CopiedOperandSet ==
    ASSUME NEW c, NEW T, NEW d, NEW m, IsCopy(c, T, d, m), NEW g \in T
    PROVE  OperandSet(d, m[g]) = {m[o] : o \in OperandSet(c, g)}
<1> DEFINE n == Len(Operands(c, g))
<1>1. PICK p : IsPermutation(p, n) /\ Operands(d, m[g]) = [i \in 1 .. n |-> m[Operands(c, g)[p[i]]]]
  BY CopiedOperands
<1>2. OperandSet(d, m[g]) = {m[Operands(c, g)[p[i]]] : i \in 1 .. n}
  BY <1>1 DEF OperandSet
<1>3. DOMAIN Operands(c, g) = 1 .. n
  BY <1>1 DEF IsCopy
<1>4. OperandSet(c, g) = {Operands(c, g)[i] : i \in 1 .. n}
  BY <1>3 DEF OperandSet
<1>5. (\A i \in 1 .. n : p[i] \in 1 .. n) /\ \A k \in 1 .. n : \E i \in 1 .. n : p[i] = k
  BY <1>1 DEF IsPermutation
<1> HIDE DEF n
<1>. QED
  BY <1>2, <1>4, <1>5

(* An operand of a copy is a copy of an operand.                            *)
LEMMA OperandOfCopy ==
    ASSUME NEW c, NEW T, NEW d, NEW m, IsCopy(c, T, d, m), NEW g \in T,
           NEW k \in OperandSet(d, m[g])
    PROVE  \E o \in OperandSet(c, g) : k = m[o]
<1>1. OperandSet(d, m[g]) = {m[o] : o \in OperandSet(c, g)}
  BY CopiedOperandSet
<1>. QED
  BY <1>1

(* A copy has as many operands as the gate.                                 *)
LEMMA CopiedArity ==
    ASSUME NEW c, NEW T, NEW d, NEW m, IsCopy(c, T, d, m), NEW g \in T
    PROVE  Type(d, m[g]) = Type(c, g) /\ Len(Operands(d, m[g])) = Len(Operands(c, g))
<1> DEFINE n == Len(Operands(c, g))
<1>1. Type(d, m[g]) = Type(c, g)
  BY CopiedOperands
<1>2. PICK p : IsPermutation(p, n) /\ Operands(d, m[g]) = [i \in 1 .. n |-> m[Operands(c, g)[p[i]]]]
  BY CopiedOperands
<1>3. n \in Nat
  BY DEF IsCopy
<1> DEFINE V == {m[Operands(c, g)[p[i]]] : i \in 1 .. n}
<1>4. Operands(d, m[g]) \in [1 .. n -> V]
  BY <1>2
<1>5. Len(Operands(d, m[g])) = n
  <2> HIDE DEF n, V
  <2>. QED
    BY <1>3, <1>4, FunctionIsSequence
<1>. QED
  BY <1>1, <1>5

(* The copies have a ranking, and so no cycle, if nothing else is in the    *)
(* circuit and no gate is the copy of two.                                  *)
LEMMA CopyIsAcyclic ==
    ASSUME NEW c, NEW T, NEW d, NEW m, IsCopy(c, T, d, m),
           NEW rank, IsRanking(c, rank), OperandsInside(d),
           \A g, h \in T : m[g] = m[h] => g = h,
           \A k \in GateIds(d) : \E g \in T : m[g] = k
    PROVE  IsAcyclic(d)
<1> DEFINE of == [k \in GateIds(d) |-> CHOOSE g \in T : m[g] = k]
           r == [k \in GateIds(d) |-> rank[of[k]]]
<1>1. \A k \in GateIds(d) : of[k] \in T /\ m[of[k]] = k
  OBVIOUS
<1>2. \A g \in T : of[m[g]] = g
  BY <1>1 DEF IsCopy
<1>3. ASSUME NEW k \in GateIds(d) PROVE r[k] \in Nat /\ \A o \in OperandSet(d, k) : r[o] < r[k]
  <2> DEFINE g == of[k]
  <2>1. g \in T /\ m[g] = k /\ g \in GateIds(c)
    BY <1>1 DEF IsCopy
  <2>2. r[k] = rank[g] /\ rank[g] \in Nat
    BY <2>1 DEF IsRanking
  <2>3. ASSUME NEW o \in OperandSet(d, k) PROVE r[o] < r[k]
    <3>1. OperandSet(d, m[g]) = {m[h] : h \in OperandSet(c, g)}
      BY <2>1, CopiedOperandSet
    <3>2. PICK h \in OperandSet(c, g) : o = m[h]
      BY <2>1, <3>1
    <3>3. h \in T /\ o \in GateIds(d)
      BY <2>1, <3>2 DEF IsCopy, IsClosed
    <3>4. r[o] = rank[h]
      BY <1>2, <3>2, <3>3
    <3>5. rank[h] < rank[g]
      BY <2>1 DEF IsRanking
    <3>. QED
      BY <2>2, <3>4, <3>5
  <2>. QED
    BY <2>2, <2>3
<1>4. IsRanking(d, r)
  <2> HIDE DEF r
  <2>. QED
    BY <1>3 DEF IsRanking
<1>. QED
  BY <1>4, RankedIsAcyclic

(* What is computed from copies is a copy of what it was computed from.     *)
LEMMA CopiedCone ==
    ASSUME NEW c, NEW T, NEW d, NEW m, IsCopy(c, T, d, m),
           OperandsInside(c), OperandsInside(d), NEW S \in SUBSET T
    PROVE  Cone(d, {m[g] : g \in S}) = {m[g] : g \in Cone(c, S)}
<1> DEFINE M == {m[g] : g \in S}
           W == {m[g] : g \in Cone(c, S)}
           U == {g \in T : m[g] \in Cone(d, M)}
<1>1. /\ S \subseteq Cone(c, S) /\ IsClosed(c, Cone(c, S)) /\ Cone(c, S) \subseteq T
      /\ \A V : S \subseteq V /\ IsClosed(c, V) => Cone(c, S) \subseteq V
  <2>1. S \in SUBSET GateIds(c)
    BY DEF IsCopy
  <2>2. /\ S \subseteq Cone(c, S) /\ IsClosed(c, Cone(c, S))
        /\ \A V : S \subseteq V /\ IsClosed(c, V) => Cone(c, S) \subseteq V
    BY <2>1, ConeProperties
  <2>3. Cone(c, S) \subseteq T
    BY <2>2 DEF IsCopy
  <2>. QED
    BY <2>2, <2>3
<1>2. /\ M \subseteq Cone(d, M) /\ IsClosed(d, Cone(d, M))
      /\ \A V : M \subseteq V /\ IsClosed(d, V) => Cone(d, M) \subseteq V
  <2>1. M \in SUBSET GateIds(d)
    BY DEF IsCopy
  <2> HIDE DEF M
  <2>. QED
    BY <2>1, ConeProperties
<1>3. ASSUME NEW g \in T
      PROVE  /\ OperandSet(d, m[g]) = {m[o] : o \in OperandSet(c, g)}
             /\ OperandSet(c, g) \subseteq T
  <2>1. OperandSet(d, m[g]) = {m[o] : o \in OperandSet(c, g)}
    BY CopiedOperandSet
  <2>2. OperandSet(c, g) \subseteq T
    BY DEF IsCopy, IsClosed
  <2>. QED
    BY <2>1, <2>2
<1>4. Cone(d, M) \subseteq W
  <2>1. M \subseteq W
    BY <1>1
  <2>2. IsClosed(d, W)
    <3> SUFFICES ASSUME NEW g \in Cone(c, S), NEW k \in OperandSet(d, m[g]) PROVE k \in W
      BY DEF IsClosed
    <3>1. PICK o \in OperandSet(c, g) : k = m[o]
      BY <1>1, <1>3
    <3>2. o \in Cone(c, S)
      BY <1>1 DEF IsClosed
    <3>. QED
      BY <3>1, <3>2
  <2> HIDE DEF M, W
  <2>. QED
    BY <1>2, <2>1, <2>2
<1>5. W \subseteq Cone(d, M)
  <2>1. S \subseteq U
    BY <1>2
  <2>2. IsClosed(c, U)
    <3> SUFFICES ASSUME NEW g \in U, NEW o \in OperandSet(c, g) PROVE o \in U
      BY DEF IsClosed
    <3>1. o \in T /\ m[o] \in OperandSet(d, m[g])
      BY <1>3
    <3>. QED
      BY <1>2, <3>1 DEF IsClosed
  <2>3. Cone(c, S) \subseteq U
    <3> HIDE DEF U
    <3>. QED
      BY <1>1, <2>1, <2>2
  <2>. QED
    BY <2>3
<1>. QED
  BY <1>4, <1>5

(* A copy is in the state of the gate, when copied inputs are.              *)
LEMMA CopiedStates ==
    ASSUME NEW c, NEW T, NEW d, NEW m, IsCopy(c, T, d, m),
           OperandsInside(c), OperandsInside(d), IsAcyclic(c), IsAcyclic(d),
           \A g \in T : ArityOk(Type(c, g), Len(Operands(c, g))),
           NEW a, NEW b,
           \A g \in T : IF Type(c, g) = "INPUT" THEN a[g] \in GateStates /\ b[m[g]] = a[g]
                                                ELSE a[g] = StUndef /\ b[m[g]] = StUndef
    PROVE  \A g \in T : /\ StatesOf(c, a)[g] \in GateStates
                        /\ StatesOf(d, b)[m[g]] = StatesOf(c, a)[g]
<1> DEFINE s == StatesOf(c, a)
           t == StatesOf(d, b)
           rank == ConeSizes(c)
           P == {g \in T : s[g] \in GateStates /\ t[m[g]] = s[g]}
<1>1. /\ IsRanking(c, rank)
      /\ \A g \in GateIds(c) : s[g] =
            IF IsFree(c, a, g)
            THEN Operator(Type(c, g), [i \in DOMAIN Operands(c, g) |-> s[Operands(c, g)[i]]])
            ELSE a[g]
  BY StatesEquation DEF IsAcyclic
<1>2. \A g \in GateIds(d) : t[g] =
         IF IsFree(d, b, g)
         THEN Operator(Type(d, g), [i \in DOMAIN Operands(d, g) |-> t[Operands(d, g)[i]]])
         ELSE b[g]
  BY StatesEquation DEF IsAcyclic
<1>3. \A g \in T : g \in GateIds(c) /\ m[g] \in GateIds(d) /\ rank[g] \in Nat
  BY <1>1 DEF IsCopy, IsRanking
<1> HIDE DEF s, t, rank
<1>4. ASSUME NEW g \in T, \A h \in T : rank[h] < rank[g] => h \in P PROVE g \in P
  <2>1. Type(d, m[g]) = Type(c, g)
    BY CopiedOperands
  <2>2. CASE Type(c, g) = "INPUT"
    <3>1. ~IsFree(c, a, g) /\ ~IsFree(d, b, m[g])
      BY <2>1, <2>2 DEF IsFree
    <3>. QED
      BY <1>1, <1>2, <1>3, <2>2, <3>1
  <2>3. CASE Type(c, g) # "INPUT"
    <3> DEFINE n == Len(Operands(c, g))
               x == [i \in DOMAIN Operands(c, g) |-> s[Operands(c, g)[i]]]
               y == [i \in DOMAIN Operands(d, m[g]) |-> t[Operands(d, m[g])[i]]]
    <3>1. a[g] = StUndef /\ b[m[g]] = StUndef
      BY <2>3
    <3>2. IsFree(c, a, g) /\ IsFree(d, b, m[g])
      BY <2>1, <2>3, <3>1 DEF IsFree
    <3>3. s[g] = Operator(Type(c, g), x) /\ t[m[g]] = Operator(Type(c, g), y)
      BY <1>1, <1>2, <1>3, <2>1, <3>2
    <3>4. PICK p : /\ IsPermutation(p, n)
                   /\ Type(c, g) = "MUX" => p = [i \in 1 .. n |-> i]
                   /\ Operands(d, m[g]) = [i \in 1 .. n |-> m[Operands(c, g)[p[i]]]]
      BY CopiedOperands
    <3>5. n \in Nat /\ DOMAIN Operands(c, g) = 1 .. n
      BY DEF IsCopy
    <3>6. ASSUME NEW i \in 1 .. n
          PROVE  s[Operands(c, g)[i]] \in GateStates /\ t[m[Operands(c, g)[i]]] = s[Operands(c, g)[i]]
      <4> DEFINE o == Operands(c, g)[i]
      <4>1. o \in OperandSet(c, g)
        BY <3>5 DEF OperandSet
      <4>2. o \in T /\ rank[o] < rank[g]
        BY <1>1, <1>3, <4>1 DEF IsCopy, IsClosed, IsRanking
      <4>. QED
        BY <1>4, <4>2
    <3>7. \A i \in 1 .. n : p[i] \in 1 .. n
      BY <3>4 DEF IsPermutation
    <3>8. x \in [1 .. n -> GateStates]
      BY <3>5, <3>6
    <3>9. y = [i \in 1 .. n |-> x[p[i]]]
      <4>1. DOMAIN Operands(d, m[g]) = 1 .. n
        BY <3>4
      <4>2. y = [i \in 1 .. n |-> t[Operands(d, m[g])[i]]]
        BY <4>1
      <4>3. ASSUME NEW i \in 1 .. n PROVE t[Operands(d, m[g])[i]] = x[p[i]]
        <5>1. Operands(d, m[g])[i] = m[Operands(c, g)[p[i]]]
          BY <3>4
        <5>2. x[p[i]] = s[Operands(c, g)[p[i]]]
          BY <3>5, <3>7
        <5>. QED
          BY <3>6, <3>7, <5>1, <5>2
      <4> HIDE DEF x, y, n
      <4>. QED
        BY <4>2, <4>3
    <3>10. ArityOk(Type(c, g), n) /\ Type(c, g) \in OperatorTypes
      BY <2>3, ArityCases
    <3> HIDE DEF x, y, n
    <3>11. Operator(Type(c, g), x) \in GateStates
      BY <3>5, <3>8, <3>10, OperatorFacts
    <3>12. Operator(Type(c, g), y) = Operator(Type(c, g), x)
      <4>1. CASE Type(c, g) = "MUX"
        <5>1. y = [i \in 1 .. n |-> x[i]]
          BY <3>4, <3>9, <4>1
        <5>2. y = x
          BY <3>8, <5>1
        <5>. QED
          BY <5>2
      <4>2. CASE Type(c, g) # "MUX"
        BY <3>4, <3>5, <3>8, <3>9, <3>10, <4>2, OperatorPermuted, SMTT(60)
      <4>. QED
        BY <4>1, <4>2
    <3>. QED
      BY <3>3, <3>11, <3>12
  <2>. QED
    BY <2>2, <2>3
<1>5. T \subseteq P
  <2> HIDE DEF P
  <2>. QED
    BY <1>3, <1>4, RankInduction, ZenonT(60)
<1>. QED
  BY <1>5 DEF s, t

(* All outputs are evaluated.                                               *)
LEMMA OutputStatesAre ==
    ASSUME NEW c, OperandsInside(c), OutputSet(c) \subseteq GateIds(c), NEW asmt
    PROVE  OutputStates(c, asmt) = [k \in DOMAIN c.outputs |-> StatesOf(c, asmt)[c.outputs[k]]]
<1> DEFINE cut == CutAtGiven(c, asmt)
           live == Cone(cut, OutputSet(c))
<1>1. OperandsInside(cut) /\ GateIds(cut) = GateIds(c)
  BY CutFacts
<1>2. OutputSet(c) \subseteq live
  <2>1. OutputSet(c) \in SUBSET GateIds(cut)
    BY <1>1
  <2> HIDE DEF cut
  <2>. QED
    BY <1>1, <2>1, ConeProperties
<1>3. \A k \in DOMAIN c.outputs : c.outputs[k] \in live /\ c.outputs[k] \in GateIds(c)
  BY <1>2 DEF OutputSet
<1>4. \A g \in GateIds(c) : EvaluateCircuit(c, asmt)[g] = IF g \in live THEN StatesOf(c, asmt)[g] ELSE StUndef
  BY DEF EvaluateCircuit
<1> HIDE DEF live
<1>5. \A k \in DOMAIN c.outputs : EvaluateCircuit(c, asmt)[c.outputs[k]] = StatesOf(c, asmt)[c.outputs[k]]
  BY <1>3, <1>4
<1>6. OutputStates(c, asmt) = [k \in DOMAIN c.outputs |-> EvaluateCircuit(c, asmt)[c.outputs[k]]]
  BY DEF OutputStates
<1>. QED
  BY <1>5, <1>6

(* A circuit whose outputs are the copies of the outputs, and whose inputs  *)
(* are copies of inputs under the same names, computes the same function.   *)
LEMMA CopySameFunction ==
    ASSUME NEW c, NEW T, NEW d, NEW m, IsCopy(c, T, d, m),
           OperandsInside(c), OperandsInside(d), IsAcyclic(c), IsAcyclic(d),
           \A g \in T : ArityOk(Type(c, g), Len(Operands(c, g))),
           OutputSet(c) \subseteq T,
           d.outputs = [k \in DOMAIN c.outputs |-> m[c.outputs[k]]],
           NEW cnames, NEW dnames,
           InputNames(d, dnames) \subseteq InputNames(c, cnames),
           \A g \in T : Type(c, g) = "INPUT" => dnames[m[g]] = cnames[g]
    PROVE  SameFunction(c, cnames, d, dnames)
<1>1. \A g \in T : Type(d, m[g]) = Type(c, g) /\ g \in GateIds(c) /\ m[g] \in GateIds(d)
  <2>1. \A g \in T : Type(d, m[g]) = Type(c, g)
    BY CopiedOperands
  <2>. QED
    BY <2>1 DEF IsCopy
<1>2. ASSUME NEW values \in [InputNames(c, cnames) -> {StFalse, StTrue}]
      PROVE  OutputStates(c, Assignment(c, cnames, values)) = OutputStates(d, Assignment(d, dnames, values))
  <2> DEFINE a == Assignment(c, cnames, values)
             b == Assignment(d, dnames, values)
  <2>1. \A g \in GateIds(c) : a[g] = IF Type(c, g) = "INPUT" THEN values[cnames[g]] ELSE StUndef
    BY DEF Assignment
  <2>2. \A g \in GateIds(d) : b[g] = IF Type(d, g) = "INPUT" THEN values[dnames[g]] ELSE StUndef
    BY DEF Assignment
  <2> HIDE DEF a, b
  <2>3. ASSUME NEW g \in T
        PROVE  IF Type(c, g) = "INPUT" THEN a[g] \in GateStates /\ b[m[g]] = a[g]
                                       ELSE a[g] = StUndef /\ b[m[g]] = StUndef
    <3>1. CASE Type(c, g) = "INPUT"
      <4>1. cnames[g] \in InputNames(c, cnames)
        BY <1>1, <3>1 DEF InputNames, InputGates
      <4>2. values[cnames[g]] \in GateStates
        BY <4>1 DEF GateStates
      <4>. QED
        BY <1>1, <2>1, <2>2, <3>1, <4>2
    <3>2. CASE Type(c, g) # "INPUT"
      BY <1>1, <2>1, <2>2, <3>2
    <3>. QED
      BY <3>1, <3>2
  <2>4. \A g \in T : StatesOf(d, b)[m[g]] = StatesOf(c, a)[g]
    BY <2>3, CopiedStates
  <2>5. /\ DOMAIN d.outputs = DOMAIN c.outputs
        /\ \A k \in DOMAIN c.outputs : c.outputs[k] \in T /\ d.outputs[k] = m[c.outputs[k]]
    BY DEF OutputSet
  <2>6. OutputStates(c, a) = [k \in DOMAIN c.outputs |-> StatesOf(c, a)[c.outputs[k]]]
    <3>1. OutputSet(c) \subseteq GateIds(c)
      BY <1>1
    <3>. QED
      BY <3>1, OutputStatesAre
  <2>7. OutputStates(d, b) = [k \in DOMAIN d.outputs |-> StatesOf(d, b)[d.outputs[k]]]
    <3>1. OutputSet(d) \subseteq GateIds(d)
      BY <1>1, <2>5 DEF OutputSet
    <3>. QED
      BY <3>1, OutputStatesAre
  <2>8. \A k \in DOMAIN c.outputs : StatesOf(d, b)[d.outputs[k]] = StatesOf(c, a)[c.outputs[k]]
    BY <2>4, <2>5
  <2>9. OutputStates(c, a) = OutputStates(d, b)
    BY <2>5, <2>6, <2>7, <2>8
  <2>. QED
    BY <2>9 DEF a, b
<1>. QED
  BY <1>2 DEF SameFunction

(* Where ids are in range, operands are gates of the circuit.               *)
LEMMA InRangeInside ==
    ASSUME NEW d, IdsInRange(d) PROVE OperandsInside(d)
<1> DEFINE n == Len(d.gates)
<1>1. n \in Nat /\ \A g \in 1 .. n : d.gates[g] \in GateInfos(n)
  BY DEF IdsInRange
<1> HIDE DEF n
<1>2. \A g \in 1 .. n : OperandSet(d, g) \subseteq 1 .. n
  BY <1>1 DEF GateInfos, Operands, OperandSet
<1>. QED
  BY <1>1, <1>2 DEF OperandsInside, GateIds, n

(* A circuit made of copies only, without a cycle, is as well formed as the *)
(* one copied and computes the same function.                               *)
LEMMA CopyIsCorrect ==
    ASSUME NEW c, WellFormed(c), NEW T, NEW d, NEW m, IsCopy(c, T, d, m), IdsInRange(d),
           IsAcyclic(d),
           \A k \in GateIds(d) : \E g \in T : m[g] = k,
           OutputSet(c) \subseteq T,
           d.outputs = [k \in DOMAIN c.outputs |-> m[c.outputs[k]]],
           NEW cnames, NEW dnames,
           \A g \in T : Type(c, g) = "INPUT" => dnames[m[g]] = cnames[g]
    PROVE  /\ WellFormed(d)
           /\ SameFunction(c, cnames, d, dnames)
           /\ Cone(d, OutputSet(d)) = {m[g] : g \in Cone(c, OutputSet(c))}
           /\ InputNames(d, dnames) = {cnames[g] : g \in T \cap InputGates(c)}
<1> DEFINE C == Cone(c, OutputSet(c))
<1>1. /\ OperandsInside(c) /\ IsAcyclic(c)
      /\ C \subseteq GateIds(c) /\ IsClosed(c, C) /\ OutputSet(c) \subseteq C
      /\ OutputSet(c) \subseteq GateIds(c)
  BY WellFormedFacts
<1>2. OperandsInside(d)
  BY InRangeInside
<1>4. \A g \in T : /\ Type(d, m[g]) = Type(c, g) /\ Len(Operands(d, m[g])) = Len(Operands(c, g))
                   /\ g \in GateIds(c) /\ m[g] \in GateIds(d)
  <2>1. \A g \in T : Type(d, m[g]) = Type(c, g) /\ Len(Operands(d, m[g])) = Len(Operands(c, g))
    BY CopiedArity
  <2>. QED
    BY <2>1 DEF IsCopy
<1>5. C \subseteq T
  BY <1>1, ConeProperties DEF IsCopy
<1>6. Cone(d, OutputSet(d)) = {m[g] : g \in C}
  <2>1. OutputSet(c) \in SUBSET T /\ OutputSet(d) = {m[g] : g \in OutputSet(c)}
    BY DEF OutputSet
  <2>2. Cone(d, {m[g] : g \in OutputSet(c)}) = {m[g] : g \in Cone(c, OutputSet(c))}
    BY <1>1, <1>2, <2>1, CopiedCone
  <2>. QED
    BY <2>1, <2>2
<1>7. \A g \in C : ArityOk(Type(c, g), Len(Operands(c, g)))
  BY DEF WellFormed
<1> HIDE DEF C
<1>8. \A k \in Cone(d, OutputSet(d)) : ArityOk(Type(d, k), Len(Operands(d, k)))
  BY <1>4, <1>5, <1>6, <1>7
<1>9. \A k \in InputGates(d) : Operands(d, k) = <<>>
  <2> SUFFICES ASSUME NEW k \in InputGates(d) PROVE Operands(d, k) = <<>>
    OBVIOUS
  <2>1. k \in GateIds(d) /\ Type(d, k) = "INPUT"
    BY DEF InputGates
  <2>2. PICK g \in T : m[g] = k
    BY <2>1
  <2>3. g \in InputGates(c)
    BY <1>4, <2>1, <2>2 DEF InputGates
  <2>4. Operands(c, g) = <<>>
    BY <2>3 DEF WellFormed
  <2>5. Len(Operands(d, k)) = 0
    BY <1>4, <2>2, <2>4
  <2>6. Operands(d, k) \in Seq(1 .. Len(d.gates))
    <3>1. d.gates[k] \in GateInfos(Len(d.gates))
      BY <2>1 DEF IdsInRange, GateIds
    <3>. QED
      BY <3>1 DEF GateInfos, Operands
  <2>. QED
    BY <2>5, <2>6
<1>10. WellFormed(d)
  BY <1>8, <1>9 DEF WellFormed
<1>11. InputNames(d, dnames) = {cnames[g] : g \in T \cap InputGates(c)}
  <2>1. ASSUME NEW k \in InputGates(d)
        PROVE  \E g \in T \cap InputGates(c) : dnames[k] = cnames[g]
    <3>1. PICK g \in T : m[g] = k
      BY DEF InputGates
    <3>. QED
      BY <1>4, <3>1 DEF InputGates
  <2>2. ASSUME NEW g \in T \cap InputGates(c)
        PROVE  m[g] \in InputGates(d) /\ dnames[m[g]] = cnames[g]
    BY <1>4 DEF InputGates
  <2>. QED
    BY <2>1, <2>2 DEF InputNames
<1>12. SameFunction(c, cnames, d, dnames)
  <2>1. InputNames(d, dnames) \subseteq InputNames(c, cnames)
    BY <1>11 DEF InputNames
  <2>2. IsCopy(c, C, d, m)
    BY <1>1, <1>5 DEF IsCopy
  <2>3. \A g \in C : Type(c, g) = "INPUT" => dnames[m[g]] = cnames[g]
    BY <1>5
  <2>. QED
    BY <1>1, <1>2, <1>7, <2>1, <2>2, <2>3, CopySameFunction DEF C
<1>. QED
  BY <1>6, <1>10, <1>11, <1>12 DEF C

(* A circuit in which no gate is the copy of two has no cycle.              *)
LEMMA FullCopyIsCorrect ==
    ASSUME NEW c, WellFormed(c), NEW T, NEW d, NEW m, IsCopy(c, T, d, m), IdsInRange(d),
           \A g, h \in T : m[g] = m[h] => g = h,
           \A k \in GateIds(d) : \E g \in T : m[g] = k,
           OutputSet(c) \subseteq T,
           d.outputs = [k \in DOMAIN c.outputs |-> m[c.outputs[k]]],
           NEW cnames, NEW dnames,
           \A g \in T : Type(c, g) = "INPUT" => dnames[m[g]] = cnames[g]
    PROVE  /\ WellFormed(d)
           /\ SameFunction(c, cnames, d, dnames)
           /\ Cone(d, OutputSet(d)) = {m[g] : g \in Cone(c, OutputSet(c))}
           /\ InputNames(d, dnames) = {cnames[g] : g \in T \cap InputGates(c)}
<1>1. OperandsInside(d)
  BY InRangeInside
<1>2. IsAcyclic(d)
  <2>1. IsRanking(c, ConeSizes(c))
    BY DEF WellFormed, IsAcyclic
  <2>. QED
    BY <1>1, <2>1, CopyIsAcyclic
<1>. QED
  BY <1>2, CopyIsCorrect

(* To compute the same function carries over from one circuit to the next.  *)
LEMMA SameFunctionTransitive ==
    ASSUME NEW c1, NEW names1, NEW c2, NEW names2, NEW c3, NEW names3,
           SameFunction(c1, names1, c2, names2), SameFunction(c2, names2, c3, names3)
    PROVE  SameFunction(c1, names1, c3, names3)
<1>1. /\ InputNames(c2, names2) \subseteq InputNames(c1, names1)
      /\ InputNames(c3, names3) \subseteq InputNames(c2, names2)
  BY DEF SameFunction
<1>2. ASSUME NEW values \in [InputNames(c1, names1) -> {StFalse, StTrue}]
      PROVE  OutputStates(c1, Assignment(c1, names1, values)) =
             OutputStates(c3, Assignment(c3, names3, values))
  <2> DEFINE inner == [n \in InputNames(c2, names2) |-> values[n]]
  <2>1. inner \in [InputNames(c2, names2) -> {StFalse, StTrue}]
    BY <1>1
  <2>2. \A n \in InputNames(c2, names2) : inner[n] = values[n]
    OBVIOUS
  <2> HIDE DEF inner
  <2>3. Assignment(c2, names2, inner) = Assignment(c2, names2, values)
    <3>1. \A g \in GateIds(c2) : Type(c2, g) = "INPUT" => inner[names2[g]] = values[names2[g]]
      BY <2>2 DEF InputNames, InputGates
    <3>. QED
      BY <3>1 DEF Assignment
  <2>4. Assignment(c3, names3, inner) = Assignment(c3, names3, values)
    <3>1. \A g \in GateIds(c3) : Type(c3, g) = "INPUT" => inner[names3[g]] = values[names3[g]]
      BY <1>1, <2>2 DEF InputNames, InputGates
    <3>. QED
      BY <3>1 DEF Assignment
  <2>5. OutputStates(c1, Assignment(c1, names1, values)) =
        OutputStates(c2, Assignment(c2, names2, values))
    BY DEF SameFunction
  <2>6. OutputStates(c2, Assignment(c2, names2, inner)) =
        OutputStates(c3, Assignment(c3, names3, inner))
    BY <2>1 DEF SameFunction
  <2>. QED
    BY <2>3, <2>4, <2>5, <2>6
<1>. QED
  BY <1>1, <1>2 DEF SameFunction

------------------------------------------------------------------------------
(* Circuits that compute the same function: the states of the gates that    *)
(* count are the only solution of one equation for each of these gates, so  *)
(* that a solution known from another circuit is what they evaluate to.     *)
Values(c, names) == [InputNames(c, names) -> {StFalse, StTrue}]

(* The states of all gates when the inputs have these values.               *)
StatesFor(c, names, values) == StatesOf(c, Assignment(c, names, values))

(* The equations of the gates of T hold of val.                             *)
Solves(c, names, values, T, val) ==
    \A g \in T :
        val[g] = IF Type(c, g) = "INPUT" THEN values[names[g]]
                 ELSE Operator(Type(c, g), [i \in DOMAIN Operands(c, g) |-> val[Operands(c, g)[i]]])

(* The states that a circuit evaluates to solve the equations.              *)
LEMMA StatesSolve ==
    ASSUME NEW c, OperandsInside(c), IsAcyclic(c), NEW names, NEW values \in Values(c, names)
    PROVE  Solves(c, names, values, GateIds(c), StatesFor(c, names, values))
<1> DEFINE a == Assignment(c, names, values)
           s == StatesOf(c, a)
<1>1. \A g \in GateIds(c) : a[g] = IF Type(c, g) = "INPUT" THEN values[names[g]] ELSE StUndef
  BY DEF Assignment
<1>2. \A g \in GateIds(c) : s[g] =
         IF IsFree(c, a, g)
         THEN Operator(Type(c, g), [i \in DOMAIN Operands(c, g) |-> s[Operands(c, g)[i]]])
         ELSE a[g]
  <2> HIDE DEF a
  <2>. QED
    BY StatesEquation DEF IsAcyclic
<1> HIDE DEF a, s
<1>3. ASSUME NEW g \in GateIds(c)
      PROVE  s[g] = IF Type(c, g) = "INPUT" THEN values[names[g]]
                    ELSE Operator(Type(c, g), [i \in DOMAIN Operands(c, g) |-> s[Operands(c, g)[i]]])
  <2>1. CASE Type(c, g) = "INPUT"
    BY <1>1, <1>2, <2>1 DEF IsFree
  <2>2. CASE Type(c, g) # "INPUT"
    BY <1>1, <1>2, <2>2 DEF IsFree
  <2>. QED
    BY <2>1, <2>2
<1>4. Solves(c, names, values, GateIds(c), s)
  BY <1>3 DEF Solves
<1>. QED
  BY <1>4 DEF StatesFor, s, a

(* There is no other solution.                                              *)
LEMMA SolutionIsStates ==
    ASSUME NEW c, OperandsInside(c), IsAcyclic(c),
           NEW T, T \subseteq GateIds(c), IsClosed(c, T),
           NEW names, NEW values, NEW val, Solves(c, names, values, T, val)
    PROVE  \A g \in T : StatesFor(c, names, values)[g] = val[g]
<1> DEFINE a == Assignment(c, names, values)
           s == StatesOf(c, a)
           rank == ConeSizes(c)
           P == {g \in T : s[g] = val[g]}
<1>1. \A g \in GateIds(c) : a[g] = IF Type(c, g) = "INPUT" THEN values[names[g]] ELSE StUndef
  BY DEF Assignment
<1>2. \A g \in GateIds(c) : s[g] =
         IF IsFree(c, a, g)
         THEN Operator(Type(c, g), [i \in DOMAIN Operands(c, g) |-> s[Operands(c, g)[i]]])
         ELSE a[g]
  <2> HIDE DEF a
  <2>. QED
    BY StatesEquation DEF IsAcyclic
<1>3. IsRanking(c, rank)
  BY DEF IsAcyclic
<1> HIDE DEF a, s, rank
<1>4. ASSUME NEW g \in T, \A h \in T : rank[h] < rank[g] => h \in P
      PROVE  g \in P
  <2>1. CASE Type(c, g) = "INPUT"
    BY <1>1, <1>2, <2>1 DEF IsFree, Solves
  <2>2. CASE Type(c, g) # "INPUT"
    <3>1. s[g] = Operator(Type(c, g), [i \in DOMAIN Operands(c, g) |-> s[Operands(c, g)[i]]])
      BY <1>1, <1>2, <2>2 DEF IsFree
    <3>2. val[g] = Operator(Type(c, g), [i \in DOMAIN Operands(c, g) |-> val[Operands(c, g)[i]]])
      BY <2>2 DEF Solves
    <3>3. ASSUME NEW i \in DOMAIN Operands(c, g)
          PROVE  s[Operands(c, g)[i]] = val[Operands(c, g)[i]]
      <4>1. Operands(c, g)[i] \in OperandSet(c, g)
        BY DEF OperandSet
      <4>2. Operands(c, g)[i] \in T /\ rank[Operands(c, g)[i]] < rank[g]
        BY <1>3, <4>1 DEF IsClosed, IsRanking
      <4>. QED
        BY <1>4, <4>2
    <3>4. [i \in DOMAIN Operands(c, g) |-> s[Operands(c, g)[i]]] =
          [i \in DOMAIN Operands(c, g) |-> val[Operands(c, g)[i]]]
      BY <3>3
    <3>. QED
      BY <3>1, <3>2, <3>4
  <2>. QED
    BY <2>1, <2>2
<1>5. T \subseteq P
  <2>1. \A g \in T : rank[g] \in Nat
    BY <1>3 DEF IsRanking
  <2> HIDE DEF P
  <2>. QED
    BY <1>4, <2>1, RankInduction, ZenonT(60)
<1>. QED
  BY <1>5 DEF StatesFor, s, a

(* An operator applied to operands whose states are known gives one.        *)
LEMMA OperatorDefined ==
    ASSUME NEW type \in OperatorTypes, NEW n \in Nat, ArityOk(type, n),
           NEW a \in [1 .. n -> {StFalse, StTrue}]
    PROVE  Operator(type, a) \in {StFalse, StTrue}
<1>0. a \in [1 .. n -> GateStates] /\ DOMAIN a = 1 .. n
  BY DEF GateStates
<1>1. CASE type = "MUX"
  <2>1. n = 3
    BY <1>1, ArityCases
  <2>2. a[1] \in {StFalse, StTrue} /\ a[2] \in {StFalse, StTrue} /\ a[3] \in {StFalse, StTrue}
    BY <2>1
  <2>3. a[1] \in GateStates /\ a[2] \in GateStates /\ a[3] \in GateStates
    BY <2>1, <1>0
  <2>4. Operator(type, a) = MUX(a[1], a[2], a[3])
    BY <1>1, OperatorCases
  <2>5. MUX(a[1], a[2], a[3]) = IF a[1] = StFalse THEN a[2] ELSE IF a[1] = StTrue THEN a[3] ELSE StUndef
    BY <2>3, MuxSelects
  <2>. QED
    BY <2>2, <2>4, <2>5
<1>2. CASE type # "MUX"
  <2> DEFINE v == Operator(type, a)
  <2>1. v \in GateStates
    BY <1>0, OperatorFacts
  <2>2. \A u \in {StFalse, StTrue} : Refines(u, v) => \E b : Completes(b, a) /\ Operator(type, b) = u
    BY <1>0, <1>2, OperatorFacts
  <2>3. ASSUME NEW b, Completes(b, a) PROVE b = a
    <3>1. \A i \in 1 .. n : a[i] \in {StFalse, StTrue} /\ a[i] # StUndef
      BY DEF StFalse, StTrue, StUndef
    <3>2. \A i \in 1 .. n : b[i] = a[i]
      BY <1>0, <2>3, <3>1 DEF Completes, Refines
    <3>3. b \in [1 .. n -> {StFalse, StTrue}]
      BY <1>0, <2>3 DEF Completes
    <3>. QED
      BY <3>2, <3>3
  <2>4. \A u \in {StFalse, StTrue} : Refines(u, v) => v = u
    BY <2>2, <2>3
  <2> HIDE DEF v
  <2>5. v # StUndef
    BY <2>4 DEF Refines, StFalse, StTrue, StUndef
  <2>6. v \in {StFalse, StTrue}
    BY <2>1, <2>5 DEF GateStates
  <2>. QED
    BY <2>6 DEF v
<1>. QED
  BY <1>1, <1>2

(* With all inputs assigned, every gate that can be evaluated has a state.  *)
LEMMA StatesDefined ==
    ASSUME NEW c, OperandsInside(c), IsAcyclic(c),
           NEW T, T \subseteq GateIds(c), IsClosed(c, T),
           \A g \in T : ArityOk(Type(c, g), Len(Operands(c, g))),
           \A g \in T : Operands(c, g) \in Seq(GateIds(c)),
           NEW names, NEW values \in Values(c, names)
    PROVE  \A g \in T : StatesFor(c, names, values)[g] \in {StFalse, StTrue}
<1> DEFINE s == StatesFor(c, names, values)
           rank == ConeSizes(c)
           P == {g \in T : s[g] \in {StFalse, StTrue}}
<1>1. Solves(c, names, values, GateIds(c), s)
  BY StatesSolve
<1>2. IsRanking(c, rank)
  BY DEF IsAcyclic
<1> HIDE DEF s, rank
<1>3. ASSUME NEW g \in T, \A h \in T : rank[h] < rank[g] => h \in P
      PROVE  g \in P
  <2>0. g \in GateIds(c)
    OBVIOUS
  <2>1. CASE Type(c, g) = "INPUT"
    <3>1. s[g] = values[names[g]]
      BY <1>1, <2>0, <2>1 DEF Solves
    <3>2. names[g] \in InputNames(c, names)
      BY <2>0, <2>1 DEF InputNames, InputGates
    <3>3. s[g] \in {StFalse, StTrue}
      BY <3>1, <3>2 DEF Values
    <3>. QED
      BY <3>3
  <2>2. CASE Type(c, g) # "INPUT"
    <3> DEFINE n == Len(Operands(c, g))
               x == [i \in DOMAIN Operands(c, g) |-> s[Operands(c, g)[i]]]
    <3>1. s[g] = Operator(Type(c, g), x)
      BY <1>1, <2>0, <2>2 DEF Solves
    <3>2. n \in Nat /\ DOMAIN Operands(c, g) = 1 .. n
      BY <2>0
    <3>3. ASSUME NEW i \in 1 .. n PROVE s[Operands(c, g)[i]] \in {StFalse, StTrue}
      <4>1. Operands(c, g)[i] \in OperandSet(c, g)
        BY <3>2 DEF OperandSet
      <4>2. Operands(c, g)[i] \in T /\ rank[Operands(c, g)[i]] < rank[g]
        BY <1>2, <4>1 DEF IsClosed, IsRanking
      <4>. QED
        BY <1>3, <4>2
    <3>4. x \in [1 .. n -> {StFalse, StTrue}]
      BY <3>2, <3>3
    <3>5. ArityOk(Type(c, g), n) /\ Type(c, g) \in OperatorTypes
      BY <2>2, ArityCases
    <3> HIDE DEF x, n
    <3>6. s[g] \in {StFalse, StTrue}
      BY <3>1, <3>2, <3>4, <3>5, OperatorDefined
    <3>. QED
      BY <3>6
  <2>. QED
    BY <2>1, <2>2
<1>4. T \subseteq P
  <2>1. \A g \in T : rank[g] \in Nat
    BY <1>2 DEF IsRanking
  <2> HIDE DEF P
  <2>. QED
    BY <1>3, <2>1, RankInduction, ZenonT(60)
<1>. QED
  BY <1>4 DEF s

(* The states of the operands of a gate, when val gives the states of the   *)
(* gates.                                                                   *)
OperandValues(ops, val) == [i \in DOMAIN ops |-> val[ops[i]]]

(* A gate built by the constructor, which may sort its operands, computes   *)
(* what its type computes of the operands it is given.                      *)
LEMMA InfoComputes ==
    ASSUME NEW type \in OperatorTypes, NEW ops \in Seq(Nat), ArityOk(type, Len(ops)),
           NEW val, \A i \in DOMAIN ops : val[ops[i]] \in GateStates
    PROVE  Operator(type, OperandValues(GateInfo(type, ops).operands, val)) =
              Operator(type, OperandValues(ops, val))
<1> DEFINE n == Len(ops)
           x == GateInfo(type, ops).operands
           a == [i \in 1 .. n |-> val[ops[i]]]
           b == [i \in DOMAIN x |-> val[x[i]]]
<1>0. n \in Nat /\ ops \in [1 .. n -> Nat] /\ DOMAIN ops = 1 .. n /\ ArityOk(type, n)
  OBVIOUS
<1>1. a = OperandValues(ops, val) /\ b = OperandValues(x, val)
  BY <1>0 DEF OperandValues
<1>2. a \in [1 .. n -> GateStates]
  BY <1>0
<1> HIDE DEF n
<1>3. IsReordering(x, ops, n, type)
  BY <1>0, InfoFacts
<1> HIDE DEF x
<1>4. PICK p : /\ IsPermutation(p, n)
               /\ type = "MUX" => p = [i \in 1 .. n |-> i]
               /\ x = [i \in 1 .. n |-> ops[p[i]]]
  BY <1>3, ZenonT(60) DEF IsReordering
<1>5. \A i \in 1 .. n : p[i] \in 1 .. n
  BY <1>4 DEF IsPermutation
<1>6. b = [i \in 1 .. n |-> a[p[i]]]
  <2>1. DOMAIN x = 1 .. n
    BY <1>4
  <2>2. \A i \in 1 .. n : val[x[i]] = a[p[i]]
    BY <1>4, <1>5
  <2> HIDE DEF a
  <2>. QED
    BY <2>1, <2>2
<1> HIDE DEF a, b
<1>7. CASE type = "MUX"
  <2>1. b = [i \in 1 .. n |-> a[i]]
    BY <1>4, <1>6, <1>7
  <2>2. b = a
    BY <1>2, <2>1
  <2>. QED
    BY <1>1, <2>2 DEF x
<1>8. CASE type # "MUX"
  <2>0. type \in OperatorTypes
    OBVIOUS
  <2>1. IsPermutation(p, n)
    BY <1>4
  <2>2. Operator(type, b) = Operator(type, a)
    BY ONLY <1>0, <1>2, <1>6, <1>8, <2>0, <2>1, OperatorPermuted, SMTT(60)
  <2>. QED
    BY <1>1, <2>2 DEF x
<1>. QED
  BY <1>7, <1>8

(* A circuit computes the function of another one if, for each assignment   *)
(* to the inputs, its equations are solved by states that its outputs share *)
(* with those of the other one; only gates that the outputs need count.     *)
LEMMA SolvedIsCorrect ==
    ASSUME NEW c, WellFormed(c), NEW d, IdsInRange(d), IsAcyclic(d),
           \A g \in InputGates(d) : Operands(d, g) = <<>>,
           NEW T, T \subseteq GateIds(d), IsClosed(d, T), OutputSet(d) \subseteq T,
           \A g \in T : ArityOk(Type(d, g), Len(Operands(d, g))),
           DOMAIN d.outputs = DOMAIN c.outputs,
           NEW cnames, NEW dnames, InputNames(d, dnames) \subseteq InputNames(c, cnames),
           \A values \in Values(c, cnames) :
               \E val : /\ Solves(d, dnames, values, T, val)
                        /\ \A k \in DOMAIN c.outputs :
                              val[d.outputs[k]] = StatesFor(c, cnames, values)[c.outputs[k]]
    PROVE  WellFormed(d) /\ SameFunction(c, cnames, d, dnames)
<1>1. OperandsInside(d)
  BY InRangeInside
<1>2. WellFormed(d)
  <2>1. Cone(d, OutputSet(d)) \subseteq T
    <3>1. OutputSet(d) \in SUBSET GateIds(d)
      OBVIOUS
    <3>. QED
      BY <1>1, <3>1, ConeProperties
  <2>. QED
    BY <2>1 DEF WellFormed
<1>3. ASSUME NEW values \in Values(c, cnames)
      PROVE  OutputStates(c, Assignment(c, cnames, values)) = OutputStates(d, Assignment(d, dnames, values))
  <2>1. PICK val : /\ Solves(d, dnames, values, T, val)
                   /\ \A k \in DOMAIN c.outputs :
                         val[d.outputs[k]] = StatesFor(c, cnames, values)[c.outputs[k]]
    OBVIOUS
  <2>2. \A g \in T : StatesFor(d, dnames, values)[g] = val[g]
    BY <1>1, <2>1, SolutionIsStates
  <2>3. \A k \in DOMAIN d.outputs : d.outputs[k] \in T
    BY DEF OutputSet
  <2>4. \A k \in DOMAIN c.outputs :
           StatesFor(d, dnames, values)[d.outputs[k]] = StatesFor(c, cnames, values)[c.outputs[k]]
    BY <2>1, <2>2, <2>3
  <2>5. OutputStates(c, Assignment(c, cnames, values)) =
        [k \in DOMAIN c.outputs |-> StatesFor(c, cnames, values)[c.outputs[k]]]
    BY WellFormedFacts, OutputStatesAre DEF StatesFor
  <2>6. OutputStates(d, Assignment(d, dnames, values)) =
        [k \in DOMAIN d.outputs |-> StatesFor(d, dnames, values)[d.outputs[k]]]
    BY <1>2, WellFormedFacts, OutputStatesAre DEF StatesFor
  <2>. QED
    BY <2>4, <2>5, <2>6
<1>. QED
  BY <1>2, <1>3 DEF SameFunction, Values

------------------------------------------------------------------------------
(* Gates whose operands are replaced by others in another number.  What a   *)
(* gate with one of the operators AND, OR and XOR or their negations comes  *)
(* to, in terms of the states of its operands only; of one operand it is    *)
(* the state or its negation.                                               *)
FoldValue(type, a, n) ==
    CASE type = "AND"  -> Met(a, n, StFalse)
      [] type = "NAND" -> NOT(Met(a, n, StFalse))
      [] type = "OR"   -> Met(a, n, StTrue)
      [] type = "NOR"  -> NOT(Met(a, n, StTrue))
      [] type = "XOR"  -> Parity(a, n)
      [] type = "NXOR" -> NOT(Parity(a, n))

(* Type by type.                                                            *)
LEMMA FoldValueCases ==
    ASSUME NEW a, NEW n
    PROVE  /\ FoldValue("AND", a, n) = Met(a, n, StFalse)
           /\ FoldValue("NAND", a, n) = NOT(Met(a, n, StFalse))
           /\ FoldValue("OR", a, n) = Met(a, n, StTrue)
           /\ FoldValue("NOR", a, n) = NOT(Met(a, n, StTrue))
           /\ FoldValue("XOR", a, n) = Parity(a, n)
           /\ FoldValue("NXOR", a, n) = NOT(Parity(a, n))
  BY DEF FoldValue

(* The operators of gates with two or more operands.                        *)
LEMMA FoldValueIs ==
    ASSUME NEW type \in FoldTypes, NEW n \in Nat, n >= 2, NEW a \in [1 .. n -> GateStates]
    PROVE  Operator(type, a) = FoldValue(type, a, n)
<1>1. ASSUME NEW op, IsStateOperator(op), NEW terminal,
             terminal = StUndef \/ \A x \in GateStates : op[terminal][x] = terminal
      PROVE  \E t : Folds(t, op, a) /\ FoldMap(op, terminal, a) = t[n]
  <2>1. a \in Seq(GateStates) /\ Len(a) = n
    BY FunctionIsSequence
  <2>2. op \in [GateStates -> [GateStates -> GateStates]]
    BY <1>1 DEF IsStateOperator
  <2>3. \E t : Folds(t, op, a) /\ FoldMap(op, terminal, a) = t[Len(a)]
    BY <1>1, <2>1, <2>2, FoldStates
  <2>. QED
    BY <2>1, <2>3
<1>2. ASSUME NEW op, IsStateOperator(op), NEW zero \in {StFalse, StTrue}, Meets(op, zero),
             \A x \in GateStates : op[zero][x] = zero
      PROVE  FoldMap(op, zero, a) = Met(a, n, zero)
  <2>1. PICK s : Folds(s, op, a) /\ FoldMap(op, zero, a) = s[n]
    BY <1>1, <1>2
  <2>. QED
    BY <1>2, <2>1, FoldMeets
<1>3. ASSUME NEW op, IsStateOperator(op), Counts(op)
      PROVE  FoldMap(op, StUndef, a) = Parity(a, n)
  <2>1. PICK s : Folds(s, op, a) /\ FoldMap(op, StUndef, a) = s[n]
    BY <1>1, <1>3
  <2>. QED
    BY <1>3, <2>1, FoldCounts
<1>4. FoldMap(FunctionOf(AND), StFalse, a) = Met(a, n, StFalse)
  BY <1>2, StateOperators, FoldOperators
<1>5. FoldMap(FunctionOf(OR), StTrue, a) = Met(a, n, StTrue)
  BY <1>2, StateOperators, FoldOperators
<1>6. FoldMap(FunctionOf(XOR), StUndef, a) = Parity(a, n)
  BY <1>3, StateOperators, FoldOperators
<1>7. type \in {"AND", "NAND", "OR", "NOR", "XOR", "NXOR"}
  BY DEF FoldTypes
<1>. QED
  BY <1>4, <1>5, <1>6, <1>7, OperatorCases, FoldValueCases

(* One more element to count.                                               *)
LEMMA CountStep ==
    ASSUME NEW k \in Nat, NEW T
    PROVE  /\ Cardinality({i \in 1 .. k : i \in T}) \in Nat
           /\ Cardinality({i \in 1 .. k + 1 : i \in T}) =
                 IF k + 1 \in T THEN Cardinality({i \in 1 .. k : i \in T}) + 1
                                ELSE Cardinality({i \in 1 .. k : i \in T})
<1> DEFINE S == {i \in 1 .. k : i \in T}
<1>1. IsFiniteSet(1 .. k) /\ S \in SUBSET (1 .. k)
  BY FS_Interval
<1>2. IsFiniteSet(S) /\ Cardinality(S) \in Nat
  BY <1>1, FS_Subset, FS_CardinalityType
<1>3. k + 1 \notin S
  OBVIOUS
<1>4. {i \in 1 .. k + 1 : i \in T} = IF k + 1 \in T THEN S \cup {k + 1} ELSE S
  <2>1. \A i : i \in 1 .. k + 1 <=> i \in 1 .. k \/ i = k + 1
    OBVIOUS
  <2>. QED
    BY <2>1
<1>5. Cardinality(S \cup {k + 1}) = Cardinality(S) + 1
  BY <1>2, <1>3, FS_AddElement
<1>. QED
  BY <1>2, <1>4, <1>5

(* How many of the first k elements of s are in P.                          *)
CountIn(s, k, P) == Cardinality({i \in 1 .. k : s[i] \in P})

(* There is nothing to count.                                               *)
LEMMA CountNone ==
    ASSUME NEW s, NEW P PROVE CountIn(s, 0, P) = 0
<1>1. {i \in 1 .. 0 : s[i] \in P} = {}
  OBVIOUS
<1>. QED
  BY <1>1, FS_EmptySet DEF CountIn

(* Counting goes element by element.                                        *)
LEMMA CountInStep ==
    ASSUME NEW s, NEW k \in Nat, NEW P
    PROVE  /\ CountIn(s, k, P) \in Nat
           /\ CountIn(s, k + 1, P) = IF s[k + 1] \in P THEN CountIn(s, k, P) + 1 ELSE CountIn(s, k, P)
<1> DEFINE T == {i \in Nat : s[i] \in P}
<1>1. /\ {i \in 1 .. k : i \in T} = {i \in 1 .. k : s[i] \in P}
      /\ {i \in 1 .. k + 1 : i \in T} = {i \in 1 .. k + 1 : s[i] \in P}
      /\ k + 1 \in T <=> s[k + 1] \in P
  OBVIOUS
<1> HIDE DEF T
<1>2. /\ Cardinality({i \in 1 .. k : i \in T}) \in Nat
      /\ Cardinality({i \in 1 .. k + 1 : i \in T}) =
            IF k + 1 \in T THEN Cardinality({i \in 1 .. k : i \in T}) + 1
                           ELSE Cardinality({i \in 1 .. k : i \in T})
  BY CountStep
<1>. QED
  BY <1>1, <1>2 DEF CountIn

(* The places of `kept` where the first n elements of s are in P.            *)
KeptIn(s, n, kept, P) == {k \in 1 .. n : k \in kept /\ s[k] \in P}

(* What the loop that appends some of the first n elements of s comes to:   *)
(* those elements, as often as they are there.                              *)
IsSelection(r, s, n, kept) ==
    /\ \A i \in 1 .. Len(r) : \E k \in kept : r[i] = s[k]
    /\ \A k \in kept : \E i \in 1 .. Len(r) : r[i] = s[k]
    /\ \A P : CountIn(r, Len(r), P) = Cardinality(KeptIn(s, n, kept, P))

(* Of an empty sequence nothing is selected.                                *)
LEMMA NothingSelected ==
    ASSUME NEW s PROVE IsSelection(<<>>, s, 0, {})
<1>1. Len(<<>>) = 0 /\ 1 .. 0 = {}
  OBVIOUS
<1>2. ASSUME NEW P PROVE CountIn(<<>>, 0, P) = Cardinality(KeptIn(s, 0, {}, P))
  <2>1. KeptIn(s, 0, {}, P) = {}
    BY DEF KeptIn
  <2>. QED
    BY <2>1, CountNone, FS_EmptySet
<1>. QED
  BY <1>1, <1>2 DEF IsSelection

(* The elements of P among the first n + 1 places of `kept`.                *)
LEMMA KeptCount ==
    ASSUME NEW s, NEW n \in Nat, NEW kept, NEW P
    PROVE  Cardinality(KeptIn(s, n + 1, kept, P)) =
              IF n + 1 \in kept /\ s[n + 1] \in P
              THEN Cardinality(KeptIn(s, n, kept \cap 1 .. n, P)) + 1
              ELSE Cardinality(KeptIn(s, n, kept \cap 1 .. n, P))
<1> DEFINE T == {k \in kept : s[k] \in P}
<1>1. /\ {k \in 1 .. n : k \in T} = KeptIn(s, n, kept \cap 1 .. n, P)
      /\ {k \in 1 .. n + 1 : k \in T} = KeptIn(s, n + 1, kept, P)
      /\ n + 1 \in T <=> n + 1 \in kept /\ s[n + 1] \in P
  BY DEF KeptIn
<1> HIDE DEF T
<1>2. Cardinality({i \in 1 .. n + 1 : i \in T}) =
          IF n + 1 \in T THEN Cardinality({i \in 1 .. n : i \in T}) + 1
                         ELSE Cardinality({i \in 1 .. n : i \in T})
  BY CountStep
<1>. QED
  BY <1>1, <1>2

(* Counting in a sequence that one more element is appended to.             *)
LEMMA CountAppend ==
    ASSUME NEW S, NEW r \in Seq(S), NEW e \in S, NEW P
    PROVE  CountIn(Append(r, e), Len(r) + 1, P) =
              IF e \in P THEN CountIn(r, Len(r), P) + 1 ELSE CountIn(r, Len(r), P)
<1> DEFINE q == Append(r, e)
           m == Len(r)
<1>1. m \in Nat /\ q[m + 1] = e /\ \A i \in 1 .. m : q[i] = r[i]
  OBVIOUS
<1> HIDE DEF q, m
<1>2. {i \in 1 .. m : q[i] \in P} = {i \in 1 .. m : r[i] \in P}
  BY <1>1
<1>3. CountIn(q, m, P) = CountIn(r, m, P)
  BY <1>2 DEF CountIn
<1>4. CountIn(q, m + 1, P) = IF q[m + 1] \in P THEN CountIn(q, m, P) + 1 ELSE CountIn(q, m, P)
  BY <1>1, CountInStep
<1>5. CountIn(q, m + 1, P) = IF e \in P THEN CountIn(r, m, P) + 1 ELSE CountIn(r, m, P)
  BY <1>1, <1>3, <1>4
<1>. QED
  BY <1>5 DEF q, m

(* The loop goes on: it passes an element, ...                              *)
LEMMA SelectionSkips ==
    ASSUME NEW r, NEW s, NEW n \in Nat, NEW kept \in SUBSET (1 .. n + 1), n + 1 \notin kept,
           IsSelection(r, s, n, kept \cap 1 .. n)
    PROVE  IsSelection(r, s, n + 1, kept)
<1>1. kept \cap 1 .. n = kept
  <2>1. \A k : k \in 1 .. n + 1 <=> k \in 1 .. n \/ k = n + 1
    OBVIOUS
  <2>. QED
    BY <2>1
<1>2. ASSUME NEW P
      PROVE  CountIn(r, Len(r), P) = Cardinality(KeptIn(s, n + 1, kept, P))
  <2>1. CountIn(r, Len(r), P) = Cardinality(KeptIn(s, n, kept \cap 1 .. n, P))
    BY DEF IsSelection
  <2>. QED
    BY <2>1, KeptCount
<1>. QED
  BY <1>1, <1>2 DEF IsSelection

(* ... or it appends it.                                                    *)
LEMMA SelectionTakes ==
    ASSUME NEW S, NEW r \in Seq(S), NEW s, NEW n \in Nat,
           NEW kept \in SUBSET (1 .. n + 1), n + 1 \in kept, s[n + 1] \in S,
           IsSelection(r, s, n, kept \cap 1 .. n)
    PROVE  IsSelection(Append(r, s[n + 1]), s, n + 1, kept)
<1> DEFINE q == Append(r, s[n + 1])
           m == Len(r)
           before == kept \cap 1 .. n
<1>1. /\ m \in Nat /\ Len(q) = m + 1 /\ q[m + 1] = s[n + 1]
      /\ \A i \in 1 .. m : q[i] = r[i]
      /\ \A i \in 1 .. m + 1 : i \in 1 .. m \/ i = m + 1
      /\ 1 .. m \subseteq 1 .. m + 1 /\ m + 1 \in 1 .. m + 1
  OBVIOUS
<1>2. before \subseteq kept /\ \A k \in kept : k \in before \/ k = n + 1
  OBVIOUS
<1>3. /\ \A i \in 1 .. m : \E k \in before : r[i] = s[k]
      /\ \A k \in before : \E i \in 1 .. m : r[i] = s[k]
      /\ \A P : CountIn(r, m, P) = Cardinality(KeptIn(s, n, kept \cap 1 .. n, P))
  BY DEF IsSelection
<1>4. ASSUME NEW P
      PROVE  CountIn(q, m + 1, P) = Cardinality(KeptIn(s, n + 1, kept, P))
  <2>1. CountIn(q, m + 1, P) =
           IF s[n + 1] \in P THEN CountIn(r, m, P) + 1 ELSE CountIn(r, m, P)
    BY CountAppend
  <2>2. Cardinality(KeptIn(s, n + 1, kept, P)) =
              IF n + 1 \in kept /\ s[n + 1] \in P
              THEN Cardinality(KeptIn(s, n, kept \cap 1 .. n, P)) + 1
              ELSE Cardinality(KeptIn(s, n, kept \cap 1 .. n, P))
    BY KeptCount
  <2> HIDE DEF q, m
  <2>3. CountIn(r, m, P) = Cardinality(KeptIn(s, n, kept \cap 1 .. n, P))
    BY <1>3
  <2>. QED
    BY <2>1, <2>2, <2>3
<1> HIDE DEF q, m, before
<1>5. ASSUME NEW i \in 1 .. m + 1 PROVE \E k \in kept : q[i] = s[k]
  <2>1. CASE i = m + 1
    BY <1>1, <2>1
  <2>2. CASE i \in 1 .. m
    <3>1. PICK k \in before : r[i] = s[k]
      BY <1>3, <2>2
    <3>. QED
      BY <1>1, <1>2, <2>2, <3>1
  <2>. QED
    BY <1>1, <2>1, <2>2
<1>6. \A k \in kept : \E i \in 1 .. m + 1 : q[i] = s[k]
  BY <1>1, <1>2, <1>3
<1>7. IsSelection(q, s, n + 1, kept)
  BY <1>1, <1>4, <1>5, <1>6 DEF IsSelection
<1>. QED
  BY <1>7 DEF q

(* What the loop comes to.                                                  *)
LEMMA SelectedFacts ==
    ASSUME NEW S, NEW s \in Seq(S), NEW kept \in SUBSET (1 .. Len(s))
    PROVE  Selected(s, kept) \in Seq(S) /\ IsSelection(Selected(s, kept), s, Len(s), kept)
<1> DEFINE n == Len(s)
<1>1. n \in Nat /\ DOMAIN s = 1 .. n /\ \A k \in 1 .. n : s[k] \in S
  OBVIOUS
<1>2. PICK f : IsKeptLoop(f, s, n, kept)
  BY <1>1, KeptLoopExists
<1> DEFINE selected == CHOOSE selected : selected = [k \in 0 .. Len(s) |->
              IF k = 0 THEN <<>>
              ELSE IF k \in kept THEN Append(selected[k - 1], s[k]) ELSE selected[k - 1]]
<1>3. Selected(s, kept) = selected[n]
  BY DEF Selected
<1>4. f = [k \in 0 .. Len(s) |->
              IF k = 0 THEN <<>>
              ELSE IF k \in kept THEN Append(f[k - 1], s[k]) ELSE f[k - 1]]
  BY <1>2 DEF IsKeptLoop
<1>5. selected = [k \in 0 .. n |->
              IF k = 0 THEN <<>>
              ELSE IF k \in kept THEN Append(selected[k - 1], s[k]) ELSE selected[k - 1]]
  BY <1>4
<1> HIDE DEF selected
<1> DEFINE Good(m) == /\ selected[m] \in Seq(S)
                      /\ IsSelection(selected[m], s, m, kept \cap 1 .. m)
           Holds == {m \in Nat : m <= n => Good(m)}
<1>6. Good(0)
  <2>1. kept \cap 1 .. 0 = {} /\ selected[0] = <<>>
    BY <1>1, <1>5
  <2>2. <<>> \in Seq(S)
    OBVIOUS
  <2>3. IsSelection(selected[0], s, 0, kept \cap 1 .. 0)
    BY <2>1, NothingSelected
  <2>. QED
    BY <2>1, <2>2, <2>3
<1>7. ASSUME NEW m \in Nat, m + 1 <= n, Good(m) PROVE Good(m + 1)
  <2> DEFINE now == kept \cap 1 .. m + 1
             before == kept \cap 1 .. m
  <2>1. m + 1 \in 0 .. n /\ m + 1 # 0 /\ (m + 1) - 1 = m /\ m + 1 \in 1 .. n /\ s[m + 1] \in S
    BY <1>1, <1>7
  <2>2. now \cap 1 .. m = before /\ now \in SUBSET (1 .. m + 1)
        /\ (m + 1 \in now <=> m + 1 \in kept)
    OBVIOUS
  <2>3. selected[m + 1] = IF m + 1 \in now THEN Append(selected[m], s[m + 1]) ELSE selected[m]
    BY <1>5, <2>1, <2>2
  <2>4. selected[m] \in Seq(S) /\ IsSelection(selected[m], s, m, before)
    BY <1>7
  <2> HIDE DEF now, before
  <2>5. IsSelection(selected[m], s, m, now \cap 1 .. m)
    BY <2>2, <2>4
  <2>6. CASE m + 1 \notin now
    <3>1. selected[m + 1] = selected[m]
      BY <2>3, <2>6
    <3>2. IsSelection(selected[m], s, m + 1, now)
      BY <2>2, <2>5, <2>6, SelectionSkips
    <3>. QED
      BY <2>4, <3>1, <3>2 DEF now
  <2>7. CASE m + 1 \in now
    <3>1. selected[m + 1] = Append(selected[m], s[m + 1])
      BY <2>3, <2>7
    <3>2. Append(selected[m], s[m + 1]) \in Seq(S)
      BY <2>1, <2>4
    <3>3. IsSelection(Append(selected[m], s[m + 1]), s, m + 1, now)
      <4> DEFINE r == selected[m]
      <4>1. r \in Seq(S) /\ IsSelection(r, s, m, now \cap 1 .. m)
        BY <2>4, <2>5
      <4> HIDE DEF r
      <4>2. IsSelection(Append(r, s[m + 1]), s, m + 1, now)
        BY <2>1, <2>2, <2>7, <4>1, SelectionTakes
      <4>. QED
        BY <4>2 DEF r
    <3>. QED
      BY <3>1, <3>2, <3>3 DEF now
  <2>. QED
    BY <2>6, <2>7
<1> HIDE DEF Good
<1>8. 0 \in Holds /\ \A m \in Nat : m \in Holds => m + 1 \in Holds
  BY <1>1, <1>6, <1>7
<1>9. Good(n)
  <2>1. Nat \subseteq Holds
    <3> HIDE DEF Holds
    <3>. QED
      BY <1>8, NatSetInduction
  <2>. QED
    BY <1>1, <2>1
<1>10. kept \cap 1 .. n = kept
  OBVIOUS
<1>11. selected[n] \in Seq(S) /\ IsSelection(selected[n], s, n, kept)
  BY <1>9, <1>10 DEF Good
<1>. QED
  BY <1>3, <1>11

(* The states of gates when all inputs are assigned.                        *)
Bits == {StFalse, StTrue}

(* Bits, as numbers.                                                        *)
LEMMA BitFacts ==
    /\ Bits = {0, 1} /\ StFalse = 0 /\ StTrue = 1 /\ StUndef = 2 /\ GateStates = {0, 1, 2}
    /\ NOT(0) = 1 /\ NOT(1) = 0 /\ NOT(2) = 2
  BY DEF Bits, StFalse, StTrue, StUndef, GateStates, NOT, Lookup1

(* Their names.                                                             *)
LEMMA BitNames ==
    StFalse \in Bits /\ StTrue \in Bits
  BY DEF Bits

(* Of a single operand there is nothing to fold.                            *)
LEMMA FoldValueOne ==
    ASSUME NEW type \in FoldTypes, NEW b, b[1] \in Bits
    PROVE  FoldValue(type, b, 1) = IF type \in {"AND", "OR", "XOR"} THEN b[1] ELSE NOT(b[1])
<1>1. \A i : i \in 1 .. 1 <=> i = 1
  OBVIOUS
<1>2. b[1] = 0 \/ b[1] = 1
  BY BitFacts
<1>3. Met(b, 1, StFalse) = b[1] /\ Met(b, 1, StTrue) = b[1]
  BY <1>1, <1>2, BitFacts DEF Met
<1>4. Parity(b, 1) = b[1]
  <2>1. CASE b[1] = 0
    <3>1. Ones(b, 1) = {}
      BY <1>1, <2>1, BitFacts DEF Ones
    <3>2. Cardinality({}) = 0
      BY FS_EmptySet
    <3>. QED
      BY <1>1, <2>1, <3>1, <3>2, BitFacts DEF Parity
  <2>2. CASE b[1] = 1
    <3>1. Ones(b, 1) = {1}
      BY <1>1, <2>2, BitFacts DEF Ones
    <3>2. Cardinality({1}) = 1
      BY FS_Singleton
    <3>. QED
      BY <1>1, <2>2, <3>1, <3>2, BitFacts DEF Parity
  <2>. QED
    BY <1>2, <2>1, <2>2
<1>5. type \in {"AND", "NAND", "OR", "NOR", "XOR", "NXOR"}
  BY DEF FoldTypes
<1>. QED
  BY <1>3, <1>4, <1>5, FoldValueCases

(* Of bits, only whether there is a zero matters to AND and OR ...          *)
LEMMA MetOfBits ==
    ASSUME NEW n \in Nat, NEW a, \A i \in 1 .. n : a[i] \in Bits,
           NEW m \in Nat, NEW b, \A i \in 1 .. m : b[i] \in Bits,
           NEW zero \in Bits,
           (\E i \in 1 .. n : a[i] = zero) <=> (\E i \in 1 .. m : b[i] = zero)
    PROVE  Met(a, n, zero) = Met(b, m, zero)
<1>1. StUndef \notin Bits
  BY BitFacts
<1>2. ~(\E i \in 1 .. n : a[i] = StUndef) /\ ~(\E i \in 1 .. m : b[i] = StUndef)
  BY <1>1
<1>. QED
  BY <1>2 DEF Met

(* ... and to XOR the number of ones.                                       *)
LEMMA ParityOfBits ==
    ASSUME NEW n \in Nat, NEW a, \A i \in 1 .. n : a[i] \in Bits
    PROVE  /\ Parity(a, n) = CountIn(a, n, {StTrue}) % 2
           /\ Parity(a, n) \in Bits
<1>1. ~(\E i \in 1 .. n : a[i] = StUndef)
  BY BitFacts
<1>2. Ones(a, n) = {i \in 1 .. n : a[i] \in {StTrue}}
  BY DEF Ones
<1>3. Parity(a, n) = CountIn(a, n, {StTrue}) % 2
  BY <1>1, <1>2 DEF Parity, CountIn
<1> DEFINE count == CountIn(a, n, {StTrue})
<1>4. count \in Nat
  BY CountInStep
<1> HIDE DEF count
<1>5. count % 2 \in Bits
  BY <1>4, BitFacts
<1>. QED
  BY <1>3, <1>5 DEF count

(* Sums modulo two.                                                         *)
LEMMA SumModTwo ==
    ASSUME NEW p \in Nat, NEW q \in Nat, NEW r, r = p + q
    PROVE  r % 2 = IF q % 2 = 1 THEN NOT(p % 2) ELSE p % 2
<1>1. /\ p % 2 \in {0, 1}
      /\ r % 2 = IF q % 2 = 1 THEN 1 - (p % 2) ELSE p % 2
  OBVIOUS
<1>2. \A x \in {0, 1} : NOT(x) = 1 - x
  BY BitFacts
<1>. QED
  BY <1>1, <1>2

(* x is what is known of the operands of a gate while the inputs are not    *)
(* assigned, a their states when they are, and b those of the operands that *)
(* are not known, U.                                                        *)
IsDropped(x, a, n, U, b, m) ==
    /\ x \in [1 .. n -> GateStates] /\ a \in [1 .. n -> Bits]
    /\ \A i \in 1 .. n : Refines(a[i], x[i])
    /\ U = {i \in 1 .. n : x[i] = StUndef}
    /\ \A i \in 1 .. m : \E k \in U : b[i] = a[k]
    /\ \A k \in U : \E i \in 1 .. m : b[i] = a[k]
    /\ CountIn(b, m, {StTrue}) = Cardinality(KeptIn(a, n, U, {StTrue}))

(* What that says place by place.                                           *)
LEMMA DroppedFacts ==
    ASSUME NEW x, NEW a, NEW n \in Nat, NEW U, NEW b, NEW m \in Nat, IsDropped(x, a, n, U, b, m)
    PROVE  /\ \A i \in 1 .. n : a[i] \in Bits /\ a[i] \in GateStates
           /\ \A i \in 1 .. m : b[i] \in Bits
           /\ \A i \in 1 .. n : x[i] \in GateStates /\ (i \in U \/ a[i] = x[i])
           /\ \A k \in U : k \in 1 .. n /\ x[k] = StUndef
  BY BitFacts DEF IsDropped, Refines

(* Where AND or OR leaves a gate undefined, the operands that are known are *)
(* the ones that do not decide.                                             *)
LEMMA MetDropped ==
    ASSUME NEW x, NEW a, NEW n \in Nat, NEW U, NEW b, NEW m \in Nat, IsDropped(x, a, n, U, b, m),
           NEW zero \in Bits, Met(x, n, zero) = StUndef
    PROVE  U # {} /\ Met(a, n, zero) = Met(b, m, zero)
<1>1. zero # StUndef /\ 1 - zero # StUndef
  BY BitFacts
<1>2. ~(\E i \in 1 .. n : x[i] = zero) /\ \E i \in 1 .. n : x[i] = StUndef
  BY <1>1 DEF Met
<1>3. ASSUME NEW i \in 1 .. n, a[i] = zero PROVE \E j \in 1 .. m : b[j] = zero
  <2>1. i \in U
    BY <1>2, <1>3, DroppedFacts
  <2>. QED
    BY <1>3, <2>1 DEF IsDropped
<1>4. ASSUME NEW j \in 1 .. m, b[j] = zero PROVE \E i \in 1 .. n : a[i] = zero
  <2>1. PICK k \in U : b[j] = a[k]
    BY DEF IsDropped
  <2>. QED
    BY <1>4, <2>1, DroppedFacts
<1>5. (\A i \in 1 .. n : a[i] \in Bits) /\ (\A i \in 1 .. m : b[i] \in Bits)
  BY DroppedFacts
<1>6. Met(a, n, zero) = Met(b, m, zero)
  BY <1>3, <1>4, <1>5, MetOfBits
<1>7. U # {}
  BY <1>2 DEF IsDropped
<1>. QED
  BY <1>6, <1>7

(* Of XOR the known operands only change the parity.                        *)
LEMMA ParityDropped ==
    ASSUME NEW x, NEW a, NEW n \in Nat, NEW U, NEW b, NEW m \in Nat, IsDropped(x, a, n, U, b, m),
           Parity(x, n) = StUndef
    PROVE  /\ U # {}
           /\ Parity(b, m) \in Bits
           /\ Parity(a, n) = IF CountIn(x, n, {StTrue}) % 2 = 1 THEN NOT(Parity(b, m)) ELSE Parity(b, m)
<1> DEFINE A == KeptIn(a, n, U, {StTrue})
           B == {i \in 1 .. n : x[i] \in {StTrue}}
           C == {i \in 1 .. n : a[i] \in {StTrue}}
<1>1. IsFiniteSet(A) /\ IsFiniteSet(B) /\ Cardinality(A) \in Nat /\ Cardinality(B) \in Nat
  <2>1. A \in SUBSET (1 .. n) /\ B \in SUBSET (1 .. n) /\ IsFiniteSet(1 .. n)
    BY FS_Interval DEF KeptIn
  <2> HIDE DEF A, B
  <2>. QED
    BY <2>1, FS_Subset, FS_CardinalityType
<1>2. C = A \cup B /\ A \cap B = {}
  <2>1. \A i \in 1 .. n : i \in C <=> (i \in U /\ a[i] = StTrue) \/ x[i] = StTrue
    BY DroppedFacts, BitFacts
  <2>. QED
    BY <2>1, DroppedFacts, BitFacts DEF KeptIn
<1>3. /\ Cardinality(C) = CountIn(a, n, {StTrue}) /\ Cardinality(B) = CountIn(x, n, {StTrue})
      /\ Cardinality(A) = CountIn(b, m, {StTrue})
  BY DEF CountIn, IsDropped
<1> HIDE DEF A, B, C
<1>4. Cardinality(C) = Cardinality(A) + Cardinality(B)
  <2>1. Cardinality(A \cup B) = Cardinality(A) + Cardinality(B) - Cardinality(A \cap B)
    BY <1>1, FS_Union
  <2>2. Cardinality(A \cap B) = 0
    BY <1>2, FS_EmptySet
  <2>3. Cardinality(C) = Cardinality(A) + Cardinality(B) - 0
    BY <1>2, <2>1, <2>2
  <2>. QED
    BY <1>1, <2>3
<1>5. /\ Parity(a, n) = Cardinality(C) % 2
      /\ Parity(b, m) = Cardinality(A) % 2 /\ Parity(b, m) \in Bits
  <2>1. (\A i \in 1 .. n : a[i] \in Bits) /\ (\A i \in 1 .. m : b[i] \in Bits)
    BY DroppedFacts
  <2>2. Parity(a, n) = CountIn(a, n, {StTrue}) % 2
    BY <2>1, ParityOfBits
  <2>3. Parity(b, m) = CountIn(b, m, {StTrue}) % 2 /\ Parity(b, m) \in Bits
    BY <2>1, ParityOfBits
  <2>. QED
    BY <1>3, <2>2, <2>3
<1>6. U # {}
  <2>1. ASSUME ~\E i \in 1 .. n : x[i] = StUndef PROVE FALSE
    <3>1. \A i \in 1 .. n : x[i] \in Bits
      BY <2>1, DroppedFacts, BitFacts
    <3>2. Parity(x, n) \in Bits
      BY <3>1, ParityOfBits
    <3>. QED
      BY <3>2, BitFacts
  <2>. QED
    BY <2>1 DEF IsDropped
<1>7. Cardinality(C) % 2 = IF Cardinality(B) % 2 = 1 THEN NOT(Cardinality(A) % 2) ELSE Cardinality(A) % 2
  BY <1>1, <1>4, SumModTwo
<1>. QED
  BY <1>3, <1>5, <1>6, <1>7

(* If to drop an operand that is true is made up for by the opposite type.  *)
OddOnes(x, n) == CountIn(x, n, {StTrue}) % 2 = 1

(* The type that a XOR or NXOR gets when its true operands are dropped.     *)
ParityType(type, x, n) ==
    IF OddOnes(x, n) /\ type = "XOR" THEN "NXOR"
    ELSE IF OddOnes(x, n) /\ type = "NXOR" THEN "XOR" ELSE type

(* So a gate that is undefined while the inputs are may do without the      *)
(* operands that are known, of which there always is another one.           *)
LEMMA KnownDropped ==
    ASSUME NEW type \in FoldTypes, NEW n \in Nat, n >= 2, NEW x, NEW a, NEW U, NEW b, NEW m \in Nat,
           IsDropped(x, a, n, U, b, m), Operator(type, x) = StUndef
    PROVE  /\ m >= 1
           /\ Operator(type, a) = FoldValue(ParityType(type, x, n), b, m)
<1>1. type \in {"AND", "NAND", "OR", "NOR", "XOR", "NXOR"}
  BY DEF FoldTypes
<1>2. Operator(type, a) = FoldValue(type, a, n) /\ FoldValue(type, x, n) = StUndef
  <2>1. a \in [1 .. n -> GateStates] /\ x \in [1 .. n -> GateStates]
    BY BitFacts DEF IsDropped
  <2>. QED
    BY <2>1, FoldValueIs
<1>3. \A y \in GateStates : NOT(y) = StUndef => y = StUndef
  BY BitFacts
<1>4. Met(x, n, StFalse) \in GateStates /\ Met(x, n, StTrue) \in GateStates
  BY BitFacts DEF Met
<1>5. Parity(x, n) \in GateStates
  <2>1. CASE \E i \in 1 .. n : x[i] = StUndef
    BY <2>1, BitFacts DEF Parity
  <2>2. CASE ~\E i \in 1 .. n : x[i] = StUndef
    <3>1. \A i \in 1 .. n : x[i] \in GateStates
      BY DroppedFacts
    <3>2. \A i \in 1 .. n : x[i] \in Bits
      BY <2>2, <3>1, BitFacts
    <3>3. Parity(x, n) \in Bits
      BY <3>2, ParityOfBits
    <3>. QED
      BY <3>3, BitFacts
  <2>. QED
    BY <2>1, <2>2
<1>6. CASE type \in {"AND", "NAND"}
  <2>1. Met(x, n, StFalse) = StUndef
    BY <1>2, <1>3, <1>4, <1>6, FoldValueCases
  <2>2. U # {} /\ Met(a, n, StFalse) = Met(b, m, StFalse)
    BY <2>1, MetDropped, BitNames
  <2>3. ParityType(type, x, n) = type
    BY <1>6 DEF ParityType
  <2>4. FoldValue(type, a, n) = FoldValue(ParityType(type, x, n), b, m)
    BY <1>6, <2>2, <2>3, FoldValueCases
  <2>. QED
    BY <1>2, <2>2, <2>4 DEF IsDropped
<1>7. CASE type \in {"OR", "NOR"}
  <2>1. Met(x, n, StTrue) = StUndef
    BY <1>2, <1>3, <1>4, <1>7, FoldValueCases
  <2>2. U # {} /\ Met(a, n, StTrue) = Met(b, m, StTrue)
    BY <2>1, MetDropped, BitNames
  <2>3. ParityType(type, x, n) = type
    BY <1>7 DEF ParityType
  <2>4. FoldValue(type, a, n) = FoldValue(ParityType(type, x, n), b, m)
    BY <1>7, <2>2, <2>3, FoldValueCases
  <2>. QED
    BY <1>2, <2>2, <2>4 DEF IsDropped
<1>8. CASE type \in {"XOR", "NXOR"}
  <2>1. Parity(x, n) = StUndef
    BY <1>2, <1>3, <1>5, <1>8, FoldValueCases
  <2>2. /\ U # {} /\ Parity(b, m) \in Bits
        /\ Parity(a, n) = IF OddOnes(x, n) THEN NOT(Parity(b, m)) ELSE Parity(b, m)
    BY <2>1, ParityDropped DEF OddOnes
  <2>3. NOT(NOT(Parity(b, m))) = Parity(b, m)
    BY <2>2, BitFacts
  <2>4. FoldValue(type, a, n) = FoldValue(ParityType(type, x, n), b, m)
    <3>1. CASE type = "XOR"
      BY <2>2, <3>1, FoldValueCases DEF ParityType
    <3>2. CASE type = "NXOR"
      BY <2>2, <2>3, <3>2, FoldValueCases DEF ParityType
    <3>. QED
      BY <1>8, <3>1, <3>2
  <2>. QED
    BY <1>2, <2>2, <2>4 DEF IsDropped
<1>. QED
  BY <1>1, <1>6, <1>7, <1>8

------------------------------------------------------------------------------
(* Circuits that are reduced gate by gate.  A circuit c is turned into d in *)
(* place: its gates keep their ids, those of W still wait, new gates are    *)
(* appended, and `link` refers the users of a gate to another one.          *)
Target(link, g) == IF link[g] # 0 THEN link[g] ELSE g

(* What can be worked on even if no output needs it and it is not           *)
(* evaluated.                                                               *)
IsUsable(info) ==
    /\ info.type \in OperatorTypes \cup {"INPUT"}
    /\ info.type = "INPUT" => info.operands = <<>>
    /\ info.type = "MUX" => Len(info.operands) = 3

(* Circuits that a transformer can be given.                                *)
Usable(c) == \A g \in GateIds(c) : IsUsable(c.gates[g])

(* Links need to be followed only once, and lead to gates that do not wait  *)
(* and rank no higher.                                                      *)
IsTarget(t, link, W) == t \in DOMAIN link \ W /\ Target(link, t) = t

(* All gates but the waiting ones of W are linked to such a gate.           *)
LinksSettled(link, W, rank) ==
    \A k \in DOMAIN link \ W :
        IsTarget(Target(link, k), link, W) /\ rank[Target(link, k)] <= rank[k]

(* What holds between a circuit c, the circuit d that is rebuilt from it,   *)
(* and the links: rank tells that d has no cycle.                           *)
IsReduction(c, d, link, W, rank) ==
    /\ d.gates \in Seq(GateInfos(Len(d.gates)))
    /\ link \in Seq(0 .. Len(d.gates))
    /\ Len(c.gates) <= Len(link) /\ Len(link) <= Len(d.gates)
    /\ W \subseteq GateIds(c)
    /\ \A g \in W : link[g] = 0 /\ d.gates[g] = NoGateInfo
    /\ LinksSettled(link, W, rank)
    /\ IsRanking(c, rank) /\ IsRanking(d, rank)
    /\ \A k \in GateIds(d) \ W : IsUsable(d.gates[k])
    /\ InputGates(d) \subseteq InputGates(c)

(* Before the first gate, nothing is linked.                                *)
LEMMA ReductionBegins ==
    ASSUME NEW c, Len(c.gates) \in Nat, NEW rank, IsRanking(c, rank),
           NEW d, d.gates = [g \in GateIds(c) |-> NoGateInfo],
           NEW link, link = [g \in GateIds(c) |-> 0]
    PROVE  IsReduction(c, d, link, GateIds(c), rank)
<1> DEFINE n == Len(c.gates)
<1>1. /\ n \in Nat /\ GateIds(c) = 1 .. n
      /\ d.gates = [g \in 1 .. n |-> NoGateInfo] /\ link = [g \in 1 .. n |-> 0]
  BY DEF GateIds
<1>2. NoGateInfo \in GateInfos(n)
  BY DEF NoGateInfo, GateInfos, GateTypes
<1> HIDE DEF n
<1>3. d.gates \in [1 .. n -> GateInfos(n)] /\ link \in [1 .. n -> 0 .. n]
  BY <1>1, <1>2
<1>4. /\ d.gates \in Seq(GateInfos(n)) /\ Len(d.gates) = n
      /\ link \in Seq(0 .. n) /\ Len(link) = n /\ DOMAIN link = 1 .. n
  BY <1>1, <1>3, FunctionIsSequence
<1>5. GateIds(d) = GateIds(c)
  BY <1>1, <1>4 DEF GateIds
<1>6. \A g \in GateIds(d) : OperandSet(d, g) = {} /\ Type(d, g) = "UNDEFINED"
  BY <1>1, <1>5 DEF OperandSet, Operands, Type, NoGateInfo
<1>7. IsRanking(d, rank)
  BY <1>5, <1>6 DEF IsRanking
<1>8. InputGates(d) = {}
  BY <1>6 DEF InputGates
<1>9. LinksSettled(link, GateIds(c), rank)
  BY <1>1, <1>4 DEF LinksSettled
<1>. QED
  BY <1>1, <1>4, <1>5, <1>7, <1>8, <1>9 DEF IsReduction, n

(* The gates of d, and one more.                                            *)
IsAppended(d, e, new, type, ops) ==
    /\ Len(d.gates) \in Nat /\ new = Len(d.gates) + 1 /\ Len(e.gates) = new
    /\ GateIds(e) = GateIds(d) \cup {new} /\ new \notin GateIds(d)
    /\ \A k \in GateIds(d) : e.gates[k] = d.gates[k]
    /\ e.gates[new] = GateInfo(type, ops)
    /\ e.gates \in Seq(GateInfos(Len(e.gates)))
    /\ Type(e, new) = type
    /\ \A o \in OperandSet(e, new) : \E i \in DOMAIN ops : o = ops[i]

(* What the gates of d are when one is appended.                            *)
LEMMA AppendedGates ==
    ASSUME NEW d, d.gates \in Seq(GateInfos(Len(d.gates))),
           NEW type \in OperatorTypes, NEW ops \in Seq(GateIds(d)),
           NEW e, e.gates = Append(d.gates, GateInfo(type, ops)),
           NEW new, new = Len(d.gates) + 1
    PROVE  IsAppended(d, e, new, type, ops)
<1> DEFINE n == Len(d.gates)
           made == GateInfo(type, ops)
<1>1. n \in Nat /\ d.gates \in Seq(GateInfos(n)) /\ ops \in Seq(1 .. n)
  BY DEF GateIds
<1>2. type \in GateTypes
  BY DEF GateTypes
<1>3. made \in GateInfos(n)
  BY <1>1, <1>2, GateInfoTyped
<1>4. GateInfos(n) \subseteq GateInfos(n + 1)
  <2>1. Seq(1 .. n) \subseteq Seq(1 .. n + 1)
    BY <1>1
  <2>. QED
    BY <2>1 DEF GateInfos
<1>5. made.type = type /\ DOMAIN made.operands = DOMAIN ops
      /\ \A i \in DOMAIN ops : \E k \in DOMAIN ops : made.operands[i] = ops[k]
  <2>1. ops \in Seq(Nat)
    BY <1>1
  <2>2. DOMAIN made.operands = DOMAIN ops
      /\ \A i \in DOMAIN ops : \E k \in DOMAIN ops : made.operands[i] = ops[k]
    BY <2>1, InfoOperands
  <2>. QED
    BY <2>2 DEF GateInfo
<1> HIDE DEF made, n
<1>6. e.gates = Append(d.gates, made) /\ new = n + 1 /\ Len(d.gates) = n
  BY DEF made, n
<1>7. /\ Len(e.gates) = n + 1
      /\ \A k \in 1 .. n : e.gates[k] = d.gates[k]
      /\ e.gates[n + 1] = made
      /\ e.gates \in Seq(GateInfos(n + 1))
  <2>1. d.gates \in Seq(GateInfos(n + 1)) /\ made \in GateInfos(n + 1)
    BY <1>1, <1>3, <1>4
  <2>. QED
    BY <1>1, <1>6, <2>1
<1>8. GateIds(d) = 1 .. n /\ GateIds(e) = 1 .. n + 1
  BY <1>6, <1>7 DEF GateIds
<1>9. 1 .. n + 1 = (1 .. n) \cup {n + 1} /\ n + 1 \notin 1 .. n
  BY <1>1
<1>10. \A o \in OperandSet(e, new) : \E i \in DOMAIN ops : o = ops[i]
  BY <1>5, <1>6, <1>7 DEF OperandSet, Operands
<1>. QED
  BY <1>1, <1>5, <1>6, <1>7, <1>8, <1>9, <1>10 DEF made, Type, IsAppended

(* Ranks that one more gate gets one among.                                 *)
RankAdded(rank, new, r) == [k \in 1 .. new |-> IF k = new THEN r ELSE rank[k]]

(* A gate is appended above its operands; nothing is referred to it yet.    *)
LEMMA ReductionAppends ==
    ASSUME NEW c, NEW d, NEW link, NEW W, NEW rank, OperandsInside(c), IsReduction(c, d, link, W, rank),
           NEW type \in OperatorTypes, type # "MUX", NEW ops \in Seq(GateIds(d)),
           NEW r \in Nat, \A i \in DOMAIN ops : rank[ops[i]] < r,
           NEW e, e.gates = Append(d.gates, GateInfo(type, ops)),
           NEW new, new = Len(d.gates) + 1
    PROVE  IsReduction(c, e, link, W, RankAdded(rank, new, r))
<1> DEFINE ranks == RankAdded(rank, new, r)
<1>1. d.gates \in Seq(GateInfos(Len(d.gates)))
  BY DEF IsReduction
<1>2. /\ Len(d.gates) \in Nat /\ new = Len(d.gates) + 1 /\ Len(e.gates) = new
      /\ GateIds(e) = GateIds(d) \cup {new} /\ new \notin GateIds(d)
      /\ \A k \in GateIds(d) : e.gates[k] = d.gates[k]
      /\ e.gates[new] = GateInfo(type, ops)
      /\ e.gates \in Seq(GateInfos(Len(e.gates)))
      /\ Type(e, new) = type
      /\ \A o \in OperandSet(e, new) : \E i \in DOMAIN ops : o = ops[i]
  <2>1. IsAppended(d, e, new, type, ops)
    BY <1>1, AppendedGates
  <2>. QED
    BY <2>1 DEF IsAppended
<1>3. /\ ranks[new] = r /\ \A k \in GateIds(d) : ranks[k] = rank[k]
      /\ GateIds(c) \subseteq GateIds(d)
      /\ DOMAIN link \subseteq GateIds(d)
  <2>1. GateIds(d) = 1 .. Len(d.gates) /\ GateIds(c) = 1 .. Len(c.gates)
    BY DEF GateIds
  <2>2. /\ Len(c.gates) <= Len(link) /\ Len(link) <= Len(d.gates)
        /\ DOMAIN link = 1 .. Len(link) /\ Len(link) \in Nat
    BY DEF IsReduction
  <2>3. GateIds(c) \subseteq GateIds(d) /\ DOMAIN link \subseteq GateIds(d)
    BY <1>2, <2>1, <2>2
  <2>4. ranks = [k \in 1 .. new |-> IF k = new THEN r ELSE rank[k]]
    BY DEF RankAdded
  <2>. QED
    BY <1>2, <2>1, <2>3, <2>4
<1> HIDE DEF ranks
<1>4. link \in Seq(0 .. Len(e.gates)) /\ Len(link) <= Len(e.gates)
  <2>1. link \in Seq(0 .. Len(d.gates)) /\ Len(link) <= Len(d.gates)
    BY DEF IsReduction
  <2>2. 0 .. Len(d.gates) \subseteq 0 .. Len(e.gates)
    BY <1>2
  <2>3. link \in Seq(0 .. Len(e.gates))
    BY <2>1, <2>2
  <2>. QED
    BY <1>2, <2>1, <2>3
<1>5. LinksSettled(link, W, ranks)
  BY <1>3 DEF LinksSettled, IsReduction, IsTarget
<1>6. IsRanking(c, ranks)
  BY <1>3 DEF IsReduction, IsRanking, OperandsInside
<1>7. IsRanking(d, rank) /\ \A k \in GateIds(d) : OperandSet(e, k) = OperandSet(d, k)
  BY <1>2 DEF IsReduction, OperandSet, Operands
<1>8. \A k \in GateIds(d) : OperandSet(d, k) \subseteq GateIds(d)
  <2>1. \A k \in GateIds(d) : d.gates[k] \in GateInfos(Len(d.gates))
    BY <1>1 DEF GateIds
  <2>. QED
    BY <2>1 DEF GateInfos, OperandSet, Operands, GateIds
<1>9. IsRanking(e, ranks)
  <2>1. \A k \in GateIds(e) : ranks[k] \in Nat
    BY <1>2, <1>3, <1>7 DEF IsRanking
  <2>2. ASSUME NEW k \in GateIds(d), NEW o \in OperandSet(e, k) PROVE ranks[o] < ranks[k]
    BY <1>3, <1>7, <1>8, <2>2 DEF IsRanking
  <2>3. ASSUME NEW o \in OperandSet(e, new) PROVE ranks[o] < ranks[new]
    <3>1. PICK i \in DOMAIN ops : o = ops[i]
      BY <1>2
    <3>2. ops[i] \in GateIds(d)
      OBVIOUS
    <3>. QED
      BY <1>3, <3>1, <3>2
  <2>. QED
    BY <1>2, <2>1, <2>2, <2>3 DEF IsRanking
<1>10. \A k \in GateIds(e) \ W : IsUsable(e.gates[k])
  <2>1. IsUsable(e.gates[new])
    <3>1. e.gates[new].type = type
      BY <1>2 DEF Type
    <3>2. type # "INPUT"
      BY DEF OperatorTypes, FoldTypes
    <3>. QED
      BY <3>1, <3>2 DEF IsUsable
  <2>. QED
    BY <1>2, <2>1 DEF IsReduction
<1>11. InputGates(e) \subseteq InputGates(c)
  <2>1. type # "INPUT"
    BY DEF OperatorTypes, FoldTypes
  <2>2. InputGates(e) \subseteq InputGates(d)
    BY <1>2, <2>1 DEF InputGates, Type
  <2>. QED
    BY <2>2 DEF IsReduction
<1>12. \A g \in W : link[g] = 0 /\ e.gates[g] = NoGateInfo
  BY <1>2, <1>3 DEF IsReduction
<1>13. Len(c.gates) <= Len(link) /\ W \subseteq GateIds(c)
  BY DEF IsReduction
<1>. QED
  BY <1>2, <1>4, <1>5, <1>6, <1>9, <1>10, <1>11, <1>12, <1>13 DEF IsReduction, ranks

(* A gate that has been appended becomes one that others can be linked to.  *)
LEMMA LinkAppended ==
    ASSUME NEW c, Len(c.gates) \in Nat, NEW d, NEW link, NEW W, NEW rank, IsReduction(c, d, link, W, rank),
           Len(link) < Len(d.gates), NEW new, new = Len(link) + 1,
           NEW longer, longer = Append(link, new)
    PROVE  IsReduction(c, d, longer, W, rank) /\ IsTarget(new, longer, W)
<1>1. /\ link \in Seq(0 .. Len(d.gates)) /\ Len(d.gates) \in Nat
      /\ Len(c.gates) <= Len(link) /\ W \subseteq 1 .. Len(c.gates)
  BY DEF IsReduction, GateIds
<1>2. /\ Len(link) \in Nat /\ new \in 0 .. Len(d.gates) /\ DOMAIN link = 1 .. Len(link)
      /\ longer \in Seq(0 .. Len(d.gates)) /\ Len(longer) = new
      /\ \A k \in DOMAIN link : longer[k] = link[k]
      /\ longer[new] = new /\ DOMAIN longer = 1 .. new
  BY <1>1
<1>3. DOMAIN longer = DOMAIN link \cup {new} /\ new \notin DOMAIN link
  BY <1>2
<1>4. new \notin W /\ W \subseteq DOMAIN link
  BY <1>1, <1>2
<1>5. Target(longer, new) = new
  BY <1>2 DEF Target
<1>6. \A k \in DOMAIN link : Target(longer, k) = Target(link, k)
  BY <1>2 DEF Target
<1>7. IsTarget(new, longer, W)
  BY <1>3, <1>4, <1>5 DEF IsTarget
<1>8. LinksSettled(longer, W, rank)
  <2>1. ASSUME NEW k \in DOMAIN link \ W
        PROVE  IsTarget(Target(longer, k), longer, W) /\ rank[Target(longer, k)] <= rank[k]
    BY <1>3, <1>6 DEF IsReduction, LinksSettled, IsTarget
  <2>2. rank[new] <= rank[new]
    <3>1. new \in GateIds(d)
      BY <1>1, <1>2 DEF GateIds
    <3>2. rank[new] \in Nat
      BY <3>1 DEF IsReduction, IsRanking
    <3>. QED
      BY <3>2
  <2>. QED
    BY <1>3, <1>5, <1>7, <2>1, <2>2 DEF LinksSettled
<1>9. Len(c.gates) <= Len(longer) /\ Len(longer) <= Len(d.gates)
  BY <1>1, <1>2
<1>10. \A g \in W : longer[g] = 0 /\ d.gates[g] = NoGateInfo
  BY <1>2, <1>4 DEF IsReduction
<1>. QED
  BY <1>2, <1>7, <1>8, <1>9, <1>10 DEF IsReduction

(* The operands of a gate that is made are those given, if any.             *)
LEMMA MadeOperands ==
    ASSUME NEW n \in Nat, NEW type, NEW ops \in Seq(1 .. n)
    PROVE  /\ GateInfo(type, ops).type = type
           /\ \A i \in DOMAIN GateInfo(type, ops).operands :
                 \E k \in DOMAIN ops : GateInfo(type, ops).operands[i] = ops[k]
<1>1. ops \in Seq(Nat)
  OBVIOUS
<1>2. DOMAIN GateInfo(type, ops).operands = DOMAIN ops
  BY <1>1, InfoOperands
<1>4. ASSUME NEW i \in DOMAIN ops PROVE \E k \in DOMAIN ops : GateInfo(type, ops).operands[i] = ops[k]
  BY <1>1, InfoOperands
<1>. QED
  BY <1>2, <1>4 DEF GateInfo

(* A gate made without operands has none.                                   *)
LEMMA NoOperandsMade ==
    ASSUME NEW type PROVE GateInfo(type, <<>>).operands = <<>>
<1>1. Sorted(<<>>) = <<>>
  BY DEF Sorted
<1>. QED
  BY <1>1 DEF GateInfo

(* What the gates are when one is rebuilt.                                  *)
IsReplaced(d, e, g, type, ops) ==
    /\ Len(e.gates) = Len(d.gates) /\ GateIds(e) = GateIds(d)
    /\ \A k \in GateIds(d) : k # g => e.gates[k] = d.gates[k]
    /\ e.gates[g] = GateInfo(type, ops)
    /\ e.gates \in Seq(GateInfos(Len(e.gates)))
    /\ Type(e, g) = type
    /\ \A o \in OperandSet(e, g) : \E i \in DOMAIN ops : o = ops[i]

(* To write a new gate over a gate of the circuit replaces that one and no  *)
(* other.                                                                   *)
LEMMA ReplacedGates ==
    ASSUME NEW d, d.gates \in Seq(GateInfos(Len(d.gates))), NEW g \in GateIds(d),
           NEW type \in GateTypes, NEW ops \in Seq(GateIds(d)),
           NEW e, e.gates = [d.gates EXCEPT ![g] = GateInfo(type, ops)]
    PROVE  IsReplaced(d, e, g, type, ops)
<1> DEFINE n == Len(d.gates)
           made == GateInfo(type, ops)
<1>1. n \in Nat /\ d.gates \in Seq(GateInfos(n)) /\ ops \in Seq(1 .. n)
  BY DEF GateIds
<1>2. made \in GateInfos(n)
  BY <1>1, GateInfoTyped
<1>3. /\ made.type = type
      /\ \A i \in DOMAIN made.operands : \E k \in DOMAIN ops : made.operands[i] = ops[k]
  BY <1>1, MadeOperands
<1> HIDE DEF made
<1>4. /\ Len(e.gates) = n
      /\ \A k \in 1 .. n : k # g => e.gates[k] = d.gates[k]
      /\ e.gates[g] = made
      /\ e.gates \in Seq(GateInfos(n))
  <2>1. e.gates = [d.gates EXCEPT ![g] = made] /\ g \in 1 .. n /\ DOMAIN d.gates = 1 .. n
    BY <1>1 DEF made, GateIds
  <2> HIDE DEF n
  <2>2. e.gates \in [1 .. n -> GateInfos(n)]
    BY <1>1, <1>2, <2>1
  <2>3. e.gates \in Seq(GateInfos(n)) /\ Len(e.gates) = n
    BY <1>1, <2>2, FunctionIsSequence
  <2>. QED
    BY <2>1, <2>3
<1>5. GateIds(d) = 1 .. n /\ GateIds(e) = 1 .. n
  BY <1>4 DEF GateIds
<1>6. \A o \in OperandSet(e, g) : \E i \in DOMAIN ops : o = ops[i]
  BY <1>3, <1>4 DEF OperandSet, Operands
<1>. QED
  BY <1>3, <1>4, <1>5, <1>6 DEF made, Type, IsReplaced

(* A gate may be rebuilt over operands that rank below it, well typed, ...   *)
CanBuild(c, d, rank, g, type, ops) ==
    /\ type \in OperatorTypes \cup {"INPUT"}
    /\ ops \in Seq(GateIds(d)) /\ \A i \in DOMAIN ops : rank[ops[i]] < rank[g]
    /\ type = "INPUT" => ops = <<>> /\ Type(c, g) = "INPUT"
    /\ type = "MUX" => Len(ops) = 3

(* ... and gets a link to another one, or to itself, or none.               *)
IsVisited(d, e, link, relink, g, type, ops, t) ==
    /\ e.gates = [d.gates EXCEPT ![g] = GateInfo(type, ops)]
    /\ relink = [link EXCEPT ![g] = t]

(* Where g may be linked to when it is rebuilt.                             *)
CanLink(link, W, rank, g, t) ==
    t \in {0, g} \/ (IsTarget(t, link, W) /\ rank[t] <= rank[g])

(* A waiting gate is rebuilt and linked to itself (or not at all) or to a   *)
(* gate of no higher rank that others may be linked to.                     *)
LEMMA ReductionVisits ==
    ASSUME NEW c, Len(c.gates) \in Nat, NEW d, NEW link, NEW W, NEW rank, IsReduction(c, d, link, W, rank),
           NEW g \in W, NEW type, NEW ops, CanBuild(c, d, rank, g, type, ops),
           NEW t, CanLink(link, W, rank, g, t),
           NEW e, NEW relink, IsVisited(d, e, link, relink, g, type, ops, t)
    PROVE  IsReduction(c, e, relink, W \ {g}, rank)
<1>a. /\ type \in OperatorTypes \cup {"INPUT"}
      /\ ops \in Seq(GateIds(d)) /\ \A i \in DOMAIN ops : rank[ops[i]] < rank[g]
      /\ type = "INPUT" => ops = <<>> /\ Type(c, g) = "INPUT"
      /\ type = "MUX" => Len(ops) = 3
  BY DEF CanBuild
<1>b. /\ e.gates = [d.gates EXCEPT ![g] = GateInfo(type, ops)]
      /\ relink = [link EXCEPT ![g] = t]
  BY DEF IsVisited
<1>c. t \in {0, g} \/ (IsTarget(t, link, W) /\ rank[t] <= rank[g])
  BY DEF CanLink
<1>1. /\ link \in Seq(0 .. Len(d.gates)) /\ Len(d.gates) \in Nat
      /\ Len(c.gates) <= Len(link) /\ Len(link) <= Len(d.gates) /\ W \subseteq 1 .. Len(c.gates)
  BY DEF IsReduction, GateIds
<1>2. g \in GateIds(c) /\ g \in GateIds(d) /\ g \in DOMAIN link /\ W \subseteq DOMAIN link /\ g # 0
  BY <1>1 DEF GateIds
<1>d. t \in 0 .. Len(d.gates)
  <2>1. IsTarget(t, link, W) => t \in DOMAIN link
    BY DEF IsTarget
  <2>. QED
    BY <1>1, <1>2, <1>c, <2>1 DEF GateIds
<1>3. type \in GateTypes
  BY <1>a DEF GateTypes
<1>4. IsReplaced(d, e, g, type, ops)
  BY <1>a, <1>b, <1>2, <1>3, ReplacedGates DEF IsReduction
<1>5. /\ Len(e.gates) = Len(d.gates) /\ GateIds(e) = GateIds(d)
      /\ \A k \in GateIds(d) : k # g => e.gates[k] = d.gates[k]
      /\ e.gates[g] = GateInfo(type, ops)
      /\ e.gates \in Seq(GateInfos(Len(e.gates)))
      /\ Type(e, g) = type
      /\ \A o \in OperandSet(e, g) : \E i \in DOMAIN ops : o = ops[i]
  BY <1>4 DEF IsReplaced
<1>6. /\ relink \in Seq(0 .. Len(d.gates)) /\ Len(relink) = Len(link) /\ DOMAIN relink = DOMAIN link
      /\ \A k \in DOMAIN link : k # g => relink[k] = link[k]
      /\ relink[g] = t
  BY <1>1, <1>2, <1>b, <1>d
<1>7. /\ \A k \in DOMAIN link : k # g => Target(relink, k) = Target(link, k)
      /\ Target(relink, g) = IF t # 0 THEN t ELSE g
  BY <1>6 DEF Target
<1>8. \A k : IsTarget(k, link, W) => IsTarget(k, relink, W \ {g})
  BY <1>6, <1>7 DEF IsTarget
<1>9. rank[g] \in Nat
  BY <1>2 DEF IsReduction, IsRanking
<1>10. IsTarget(Target(relink, g), relink, W \ {g}) /\ rank[Target(relink, g)] <= rank[g]
  <2>1. CASE t \in {0, g}
    BY <1>2, <1>6, <1>7, <1>9, <2>1 DEF IsTarget
  <2>2. CASE IsTarget(t, link, W) /\ rank[t] <= rank[g] /\ t # 0
    BY <1>7, <1>8, <2>2
  <2>. QED
    BY <1>c, <2>1, <2>2
<1>11. LinksSettled(relink, W \ {g}, rank)
  <2>1. ASSUME NEW k \in DOMAIN relink \ (W \ {g})
        PROVE  IsTarget(Target(relink, k), relink, W \ {g}) /\ rank[Target(relink, k)] <= rank[k]
    <3>1. CASE k = g
      BY <1>10, <3>1
    <3>2. CASE k # g
      <4>1. k \in DOMAIN link \ W
        BY <1>6, <3>2
      <4>2. IsTarget(Target(link, k), link, W) /\ rank[Target(link, k)] <= rank[k]
        BY <4>1 DEF IsReduction, LinksSettled
      <4>. QED
        BY <1>7, <1>8, <3>2, <4>1, <4>2
    <3>. QED
      BY <3>1, <3>2
  <2>. QED
    BY <2>1 DEF LinksSettled
<1>12. IsRanking(e, rank)
  <2>1. IsRanking(d, rank)
    BY DEF IsReduction
  <2>2. ASSUME NEW k \in GateIds(e), NEW o \in OperandSet(e, k) PROVE rank[o] < rank[k]
    <3>1. CASE k = g
      BY <1>a, <1>5, <2>2, <3>1
    <3>2. CASE k # g
      <4>1. OperandSet(e, k) = OperandSet(d, k)
        BY <1>5, <3>2 DEF OperandSet, Operands
      <4>. QED
        BY <1>5, <2>1, <2>2, <4>1 DEF IsRanking
    <3>. QED
      BY <3>1, <3>2
  <2>. QED
    BY <1>5, <2>1, <2>2 DEF IsRanking
<1>13. \A k \in GateIds(e) \ (W \ {g}) : IsUsable(e.gates[k])
  <2>1. IsUsable(e.gates[g])
    <3>1. e.gates[g].type = type
      BY <1>5 DEF Type
    <3>2. type = "INPUT" => GateInfo(type, ops).operands = <<>>
      BY <1>a, NoOperandsMade
    <3>3. type = "MUX" => Len(GateInfo(type, ops).operands) = 3
      BY <1>a DEF GateInfo, SymmetricOperatorQ
    <3>. QED
      BY <1>a, <1>5, <3>1, <3>2, <3>3 DEF IsUsable
  <2>2. \A k \in GateIds(d) \ W : IsUsable(d.gates[k])
    BY DEF IsReduction
  <2>. QED
    BY <1>5, <2>1, <2>2
<1>14. InputGates(e) \subseteq InputGates(c)
  <2>1. InputGates(d) \subseteq InputGates(c)
    BY DEF IsReduction
  <2>2. ASSUME NEW k \in InputGates(e) PROVE k \in InputGates(c)
    <3>1. CASE k = g
      BY <1>a, <1>2, <1>5, <3>1 DEF InputGates
    <3>2. CASE k # g
      BY <1>5, <2>1, <3>2 DEF InputGates, Type
    <3>. QED
      BY <3>1, <3>2
  <2>. QED
    BY <2>2
<1>15. \A k \in W \ {g} : relink[k] = 0 /\ e.gates[k] = NoGateInfo
  <2>1. \A k \in W : link[k] = 0 /\ d.gates[k] = NoGateInfo /\ k \in GateIds(d)
    BY <1>1 DEF IsReduction, GateIds
  <2>. QED
    BY <1>2, <1>5, <1>6, <2>1
<1>16. W \ {g} \subseteq GateIds(c) /\ IsRanking(c, rank)
  BY DEF IsReduction
<1>. QED
  BY <1>1, <1>5, <1>6, <1>11, <1>12, <1>13, <1>14, <1>15, <1>16 DEF IsReduction

(* The gates that the outputs depend on.                                    *)
LiveGates(c) == Cone(c, OutputSet(c))

(* The right side of the equation of a gate.                                *)
ValueIn(d, dnames, values, val, k) ==
    IF Type(d, k) = "INPUT" THEN values[dnames[k]]
                            ELSE Operator(Type(d, k), OperandValues(Operands(d, k), val))

(* The equations, with their right sides named.                             *)
LEMMA SolvesIs ==
    ASSUME NEW d, NEW dnames, NEW values, NEW T, NEW val
    PROVE  Solves(d, dnames, values, T, val) <=>
              \A k \in T : val[k] = ValueIn(d, dnames, values, val, k)
  BY DEF Solves, ValueIn, OperandValues

(* It depends on the states of the operands only, and on the gate.          *)
LEMMA ValueAgrees ==
    ASSUME NEW d, NEW dnames, NEW e, NEW enames, NEW values, NEW val, NEW other, NEW k,
           e.gates[k] = d.gates[k], enames[k] = dnames[k],
           \A o \in OperandSet(d, k) : other[o] = val[o]
    PROVE  ValueIn(e, enames, values, other, k) = ValueIn(d, dnames, values, val, k)
<1>1. \A i \in DOMAIN Operands(d, k) : other[Operands(d, k)[i]] = val[Operands(d, k)[i]]
  BY DEF OperandSet
<1>2. OperandValues(Operands(d, k), other) = OperandValues(Operands(d, k), val)
  BY <1>1 DEF OperandValues
<1>. QED
  BY <1>2 DEF ValueIn, Type, Operands

(* The gates T of d are ones that can be evaluated, and those that are      *)
(* referred to in the place of the gates the outputs of c need.             *)
Carries(c, d, link, W, T) ==
    /\ T \subseteq GateIds(d) \ W /\ IsClosed(d, T)
    /\ \A k \in T : ArityOk(Type(d, k), Len(Operands(d, k)))
    /\ \A g \in LiveGates(c) \ W : Target(link, g) \in T

(* They have the states of the gates they stand for.                        *)
Represents(c, names, d, dnames, link, W, T, values, val) ==
    /\ Solves(d, dnames, values, T, val)
    /\ \A k \in T : val[k] \in Bits
    /\ \A g \in LiveGates(c) \ W : val[Target(link, g)] = StatesFor(c, names, values)[g]

(* The gates of T stand, through the links, for the gates of the circuit,   *)
(* whatever the inputs are.                                                 *)
Computes(c, names, d, dnames, link, W, T) ==
    /\ Carries(c, d, link, W, T)
    /\ \A values \in Values(c, names) : \E val :
          Represents(c, names, d, dnames, link, W, T, values, val)

(* Before the first gate there is nothing to compute.                       *)
LEMMA ComputesNothing ==
    ASSUME NEW c, NEW names, NEW d, NEW dnames, NEW link, LiveGates(c) \subseteq GateIds(c)
    PROVE  Computes(c, names, d, dnames, link, GateIds(c), {})
<1>1. Carries(c, d, link, GateIds(c), {})
  BY DEF Carries, IsClosed
<1>2. \A values, val : Represents(c, names, d, dnames, link, GateIds(c), {}, values, val)
  BY DEF Represents, Solves
<1>. QED
  BY <1>1, <1>2 DEF Computes

(* What d and e have in common.                                             *)
AgreeOn(T, d, dnames, e, enames) ==
    \A k \in T : e.gates[k] = d.gates[k] /\ enames[k] = dnames[k]

(* Circuits that agree on the gates of T have the same equations there.     *)
LEMMA AgreedSolutions ==
    ASSUME NEW d, NEW dnames, NEW e, NEW enames, NEW T, AgreeOn(T, d, dnames, e, enames),
           NEW values, NEW val
    PROVE  Solves(e, enames, values, T, val) <=> Solves(d, dnames, values, T, val)
<1>1. ASSUME NEW k \in T
      PROVE  ValueIn(e, enames, values, val, k) = ValueIn(d, dnames, values, val, k)
  BY ValueAgrees DEF AgreeOn
<1>. QED
  BY <1>1, SolvesIs

(* The states of a larger part are states of the part.                      *)
LEMMA RepresentsLess ==
    ASSUME NEW c, NEW names, NEW d, NEW dnames, NEW link, NEW W, NEW T,
           NEW e, NEW enames, NEW relink, NEW U \in SUBSET W, NEW S,
           T \subseteq S, AgreeOn(T, d, dnames, e, enames),
           \A g \in LiveGates(c) \ W : Target(relink, g) = Target(link, g),
           NEW values, NEW val, Represents(c, names, e, enames, relink, U, S, values, val)
    PROVE  Represents(c, names, d, dnames, link, W, T, values, val)
<1>1. Solves(e, enames, values, T, val)
  BY DEF Represents, Solves
<1>2. Solves(d, dnames, values, T, val)
  BY <1>1, AgreedSolutions
<1>. QED
  BY <1>2 DEF Represents

(* A gate that can be evaluated gets a state from its operands.             *)
LEMMA ValueIsBit ==
    ASSUME NEW d, NEW dnames, NEW values, NEW val, NEW k, NEW T,
           OperandSet(d, k) \subseteq T, \A o \in T : val[o] \in Bits,
           Len(Operands(d, k)) \in Nat, DOMAIN Operands(d, k) = 1 .. Len(Operands(d, k)),
           ArityOk(Type(d, k), Len(Operands(d, k))),
           Type(d, k) = "INPUT" => values[dnames[k]] \in Bits
    PROVE  ValueIn(d, dnames, values, val, k) \in Bits
<1>1. CASE Type(d, k) = "INPUT"
  BY <1>1 DEF ValueIn
<1>2. CASE Type(d, k) # "INPUT"
  <2> DEFINE n == Len(Operands(d, k))
             a == OperandValues(Operands(d, k), val)
  <2>1. Type(d, k) \in OperatorTypes
    BY <1>2, ArityCases
  <2>2. \A i \in 1 .. n : val[Operands(d, k)[i]] \in Bits
    BY DEF OperandSet
  <2>3. a \in [1 .. n -> {StFalse, StTrue}]
    BY <2>2 DEF OperandValues, Bits
  <2> HIDE DEF a
  <2>4. Operator(Type(d, k), a) \in {StFalse, StTrue}
    BY <2>1, <2>3, OperatorDefined
  <2>. QED
    BY <1>2, <2>4 DEF ValueIn, Bits, a
<1>. QED
  BY <1>1, <1>2

(* T and one more gate k, over operands of T.                               *)
GateFits(c, names, e, enames, T, k) ==
    /\ OperandSet(e, k) \subseteq T
    /\ Operands(e, k) \in Seq(Nat)
    /\ ArityOk(Type(e, k), Len(Operands(e, k)))
    /\ Type(e, k) = "INPUT" => enames[k] \in InputNames(c, names)

(* A solution that goes on to one more gate.                                *)
GoesOnTo(e, enames, values, T, k, val, more) ==
    /\ Solves(e, enames, values, T \cup {k}, more)
    /\ \A o \in T \cup {k} : more[o] \in Bits
    /\ \A o \in T : more[o] = val[o]
    /\ more[k] = ValueIn(e, enames, values, val, k)

(* A solution for T goes on to one more gate whose operands are in T.       *)
LEMMA SolutionExtends ==
    ASSUME NEW c, NEW names, NEW d, NEW dnames, NEW T, IsClosed(d, T),
           NEW e, NEW enames, AgreeOn(T, d, dnames, e, enames),
           NEW k, k \notin T, GateFits(c, names, e, enames, T, k),
           NEW values \in Values(c, names), NEW val,
           Solves(d, dnames, values, T, val), \A o \in T : val[o] \in Bits
    PROVE  \E more : GoesOnTo(e, enames, values, T, k, val, more)
<1> DEFINE more == [o \in T \cup {k} |-> IF o = k THEN ValueIn(e, enames, values, val, k) ELSE val[o]]
<1>1. /\ \A o \in T : more[o] = val[o]
      /\ more[k] = ValueIn(e, enames, values, val, k)
  OBVIOUS
<1> HIDE DEF more
<1>2. ValueIn(e, enames, values, val, k) \in Bits
  <2>1. Type(e, k) = "INPUT" => values[enames[k]] \in Bits
    BY DEF GateFits, Values, Bits
  <2>2. Len(Operands(e, k)) \in Nat /\ DOMAIN Operands(e, k) = 1 .. Len(Operands(e, k))
    BY DEF GateFits
  <2>. QED
    BY <2>1, <2>2, ValueIsBit DEF GateFits
<1>3. ASSUME NEW o \in T
      PROVE  more[o] = ValueIn(e, enames, values, more, o)
  <2>1. \A p \in OperandSet(d, o) : more[p] = val[p]
    BY <1>1 DEF IsClosed
  <2>2. ValueIn(e, enames, values, more, o) = ValueIn(d, dnames, values, val, o)
    BY <2>1, ValueAgrees DEF AgreeOn
  <2>3. val[o] = ValueIn(d, dnames, values, val, o)
    BY SolvesIs
  <2>. QED
    BY <1>1, <2>2, <2>3
<1>4. more[k] = ValueIn(e, enames, values, more, k)
  <2>1. \A p \in OperandSet(e, k) : more[p] = val[p]
    BY <1>1 DEF GateFits
  <2>. QED
    BY <1>1, <2>1, ValueAgrees
<1>5. Solves(e, enames, values, T \cup {k}, more)
  BY <1>3, <1>4, SolvesIs
<1>. QED
  BY <1>1, <1>2, <1>5 DEF GoesOnTo

(* T stays closed when e differs from d elsewhere, ...                      *)
LEMMA AgreedGates ==
    ASSUME NEW d, NEW dnames, NEW e, NEW enames, NEW T, AgreeOn(T, d, dnames, e, enames),
           IsClosed(d, T), \A k \in T : ArityOk(Type(d, k), Len(Operands(d, k)))
    PROVE  IsClosed(e, T) /\ \A k \in T : ArityOk(Type(e, k), Len(Operands(e, k)))
  BY DEF AgreeOn, IsClosed, OperandSet, Operands, Type

(* ... and with one more gate.                                              *)
LEMMA AgreedGatesAnd ==
    ASSUME NEW c, NEW names, NEW d, NEW dnames, NEW e, NEW enames, NEW T,
           AgreeOn(T, d, dnames, e, enames),
           IsClosed(d, T), \A k \in T : ArityOk(Type(d, k), Len(Operands(d, k))),
           NEW k, GateFits(c, names, e, enames, T, k)
    PROVE  /\ IsClosed(e, T \cup {k})
           /\ \A o \in T \cup {k} : ArityOk(Type(e, o), Len(Operands(e, o)))
<1>1. IsClosed(e, T) /\ \A o \in T : ArityOk(Type(e, o), Len(Operands(e, o)))
  BY AgreedGates
<1>. QED
  BY <1>1 DEF IsClosed, GateFits

(* One more gate is there to be referred to.                                *)
LEMMA ComputesMore ==
    ASSUME NEW c, NEW names, NEW d, NEW dnames, NEW link, NEW W, NEW T,
           Computes(c, names, d, dnames, link, W, T),
           NEW e, NEW enames, AgreeOn(T, d, dnames, e, enames),
           NEW relink, \A g \in LiveGates(c) \ W : Target(relink, g) = Target(link, g),
           NEW k \in GateIds(e) \ W, k \notin T, GateFits(c, names, e, enames, T, k),
           GateIds(d) \subseteq GateIds(e)
    PROVE  Computes(c, names, e, enames, relink, W, T \cup {k})
<1>1. Carries(c, d, link, W, T)
  BY DEF Computes
<1>2. IsClosed(d, T) /\ \A o \in T : ArityOk(Type(d, o), Len(Operands(d, o)))
  BY <1>1 DEF Carries
<1>3. /\ IsClosed(e, T \cup {k})
      /\ \A o \in T \cup {k} : ArityOk(Type(e, o), Len(Operands(e, o)))
  BY <1>2, AgreedGatesAnd
<1>4. Carries(c, e, relink, W, T \cup {k})
  BY <1>1, <1>3 DEF Carries
<1>5. ASSUME NEW values \in Values(c, names)
      PROVE  \E val : Represents(c, names, e, enames, relink, W, T \cup {k}, values, val)
  <2>1. PICK val : Represents(c, names, d, dnames, link, W, T, values, val)
    BY DEF Computes
  <2>2. Solves(d, dnames, values, T, val) /\ \A o \in T : val[o] \in Bits
    BY <2>1 DEF Represents
  <2>3. \E more : GoesOnTo(e, enames, values, T, k, val, more)
    BY <1>2, <2>2, SolutionExtends
  <2>6. PICK more : GoesOnTo(e, enames, values, T, k, val, more)
    BY <2>3
  <2>4. \A g \in LiveGates(c) \ W : more[Target(relink, g)] = StatesFor(c, names, values)[g]
    BY <1>1, <2>1, <2>6 DEF Represents, Carries, GoesOnTo
  <2>5. Represents(c, names, e, enames, relink, W, T \cup {k}, values, more)
    BY <2>4, <2>6 DEF Represents, GoesOnTo
  <2>. QED
    BY <2>5
<1>. QED
  BY <1>4, <1>5 DEF Computes

(* A gate is visited that no output needs, or its users are referred to a   *)
(* gate with its states.                                                    *)
LEMMA ComputesLinked ==
    ASSUME NEW c, NEW names, NEW d, NEW dnames, NEW link, NEW W, NEW T,
           Computes(c, names, d, dnames, link, W, T),
           NEW e, NEW enames, AgreeOn(T, d, dnames, e, enames), GateIds(d) \subseteq GateIds(e),
           NEW g \in W, NEW relink, \A h \in LiveGates(c) \ W : Target(relink, h) = Target(link, h),
           g \in LiveGates(c) =>
              /\ Target(relink, g) \in T
              /\ \A values \in Values(c, names) : \A val :
                    Represents(c, names, d, dnames, link, W, T, values, val) =>
                        val[Target(relink, g)] = StatesFor(c, names, values)[g]
    PROVE  Computes(c, names, e, enames, relink, W \ {g}, T)
<1>1. Carries(c, d, link, W, T)
  BY DEF Computes
<1>2. IsClosed(d, T) /\ \A o \in T : ArityOk(Type(d, o), Len(Operands(d, o)))
  BY <1>1 DEF Carries
<1>3. IsClosed(e, T) /\ \A o \in T : ArityOk(Type(e, o), Len(Operands(e, o)))
  BY <1>2, AgreedGates
<1>4. Carries(c, e, relink, W \ {g}, T)
  BY <1>1, <1>3 DEF Carries
<1>5. ASSUME NEW values \in Values(c, names)
      PROVE  \E val : Represents(c, names, e, enames, relink, W \ {g}, T, values, val)
  <2>1. PICK val : Represents(c, names, d, dnames, link, W, T, values, val)
    BY DEF Computes
  <2>2. Solves(e, enames, values, T, val) /\ \A o \in T : val[o] \in Bits
    BY <2>1, AgreedSolutions DEF Represents
  <2>3. \A h \in LiveGates(c) \ (W \ {g}) :
           val[Target(relink, h)] = StatesFor(c, names, values)[h]
    <3>1. \A h \in LiveGates(c) \ W : val[Target(relink, h)] = StatesFor(c, names, values)[h]
      BY <2>1 DEF Represents
    <3>2. g \in LiveGates(c) => val[Target(relink, g)] = StatesFor(c, names, values)[g]
      BY <2>1
    <3>. QED
      BY <3>1, <3>2
  <2>4. Represents(c, names, e, enames, relink, W \ {g}, T, values, val)
    BY <2>2, <2>3 DEF Represents
  <2>. QED
    BY <2>4
<1>. QED
  BY <1>4, <1>5 DEF Computes

(* A gate is visited and stays, in the state it has.                        *)
LEMMA ComputesKept ==
    ASSUME NEW c, NEW names, NEW d, NEW dnames, NEW link, NEW W, NEW T,
           Computes(c, names, d, dnames, link, W, T),
           NEW e, NEW enames, AgreeOn(T, d, dnames, e, enames), GateIds(d) \subseteq GateIds(e),
           NEW g \in W, g \in GateIds(e), GateFits(c, names, e, enames, T, g),
           NEW relink, \A h \in LiveGates(c) \ W : Target(relink, h) = Target(link, h),
           Target(relink, g) = g,
           \A values \in Values(c, names) : \A val :
              Represents(c, names, d, dnames, link, W, T, values, val) =>
                  ValueIn(e, enames, values, val, g) = StatesFor(c, names, values)[g]
    PROVE  Computes(c, names, e, enames, relink, W \ {g}, T \cup {g})
<1>1. Carries(c, d, link, W, T)
  BY DEF Computes
<1>2. /\ IsClosed(d, T) /\ \A o \in T : ArityOk(Type(d, o), Len(Operands(d, o)))
      /\ g \notin T
  BY <1>1 DEF Carries
<1>3. /\ IsClosed(e, T \cup {g})
      /\ \A o \in T \cup {g} : ArityOk(Type(e, o), Len(Operands(e, o)))
  BY <1>2, AgreedGatesAnd
<1>4. Carries(c, e, relink, W \ {g}, T \cup {g})
  BY <1>1, <1>3 DEF Carries
<1>5. ASSUME NEW values \in Values(c, names)
      PROVE  \E val : Represents(c, names, e, enames, relink, W \ {g}, T \cup {g}, values, val)
  <2>1. PICK val : Represents(c, names, d, dnames, link, W, T, values, val)
    BY DEF Computes
  <2>2. Solves(d, dnames, values, T, val) /\ \A o \in T : val[o] \in Bits
    BY <2>1 DEF Represents
  <2>3. \E more : GoesOnTo(e, enames, values, T, g, val, more)
    BY <1>2, <2>2, SolutionExtends
  <2>7. PICK more : GoesOnTo(e, enames, values, T, g, val, more)
    BY <2>3
  <2>4. \A h \in LiveGates(c) \ W : more[Target(relink, h)] = StatesFor(c, names, values)[h]
    BY <1>1, <2>1, <2>7 DEF Represents, Carries, GoesOnTo
  <2>5. more[Target(relink, g)] = StatesFor(c, names, values)[g]
    BY <2>1, <2>7 DEF GoesOnTo
  <2>6. Represents(c, names, e, enames, relink, W \ {g}, T \cup {g}, values, more)
    BY <2>4, <2>5, <2>7 DEF Represents, GoesOnTo
  <2>. QED
    BY <2>6
<1>. QED
  BY <1>4, <1>5 DEF Computes

(* When no gate waits, the result is a circuit that computes what c does,   *)
(* if its outputs do.                                                       *)
LEMMA ReductionIsCorrect ==
    ASSUME NEW c, WellFormed(c), NEW names, NEW d, NEW dnames, NEW link, NEW rank,
           IsReduction(c, d, link, {}, rank),
           \A k \in GateIds(c) : dnames[k] = names[k],
           NEW T, Computes(c, names, d, dnames, link, {}, T),
           d.outputs \in Seq(T), DOMAIN d.outputs = DOMAIN c.outputs,
           \A k \in DOMAIN c.outputs : \A values \in Values(c, names) : \A val :
              Represents(c, names, d, dnames, link, {}, T, values, val) =>
                  val[d.outputs[k]] = StatesFor(c, names, values)[c.outputs[k]]
    PROVE  WellFormed(d) /\ SameFunction(c, names, d, dnames) /\ Usable(d)
<1>1. /\ T \subseteq GateIds(d) /\ IsClosed(d, T)
      /\ \A k \in T : ArityOk(Type(d, k), Len(Operands(d, k)))
  BY DEF Computes, Carries
<1>2. d.outputs \in Seq(GateIds(d)) /\ OutputSet(d) \subseteq T
  BY <1>1 DEF OutputSet
<1>3. IdsInRange(d)
  BY <1>2 DEF IdsInRange, IsReduction
<1>4. IsAcyclic(d)
  <2>1. OperandsInside(d)
    BY <1>3, InRangeInside
  <2>2. IsRanking(d, rank)
    BY DEF IsReduction
  <2>. QED
    BY <2>1, <2>2, RankedIsAcyclic
<1>5. Usable(d)
  BY DEF IsReduction, Usable
<1>6. \A g \in InputGates(d) : Operands(d, g) = <<>>
  BY <1>5 DEF InputGates, Usable, IsUsable, Type, Operands
<1>7. InputNames(d, dnames) \subseteq InputNames(c, names)
  <2>1. InputGates(d) \subseteq InputGates(c) /\ InputGates(c) \subseteq GateIds(c)
    BY DEF IsReduction, InputGates
  <2>. QED
    BY <2>1 DEF InputNames
<1>8. ASSUME NEW values \in Values(c, names)
      PROVE  \E val : /\ Solves(d, dnames, values, T, val)
                      /\ \A k \in DOMAIN c.outputs :
                            val[d.outputs[k]] = StatesFor(c, names, values)[c.outputs[k]]
  <2>1. PICK val : Represents(c, names, d, dnames, link, {}, T, values, val)
    BY DEF Computes
  <2>2. Solves(d, dnames, values, T, val)
    BY <2>1 DEF Represents
  <2>. QED
    BY <2>1, <2>2
<1>9. ASSUME NEW values \in Values(c, names)
      PROVE  \E val : /\ Solves(d, dnames, values, T, val)
                      /\ \A k \in DOMAIN c.outputs :
                            val[d.outputs[k]] = StatesFor(c, names, values)[c.outputs[k]]
  BY <1>8
<1>10. WellFormed(d) /\ SameFunction(c, names, d, dnames)
  <2>1. T \subseteq GateIds(d) /\ IsClosed(d, T) /\ OutputSet(d) \subseteq T
    BY <1>1, <1>2
  <2>2. \A g \in T : ArityOk(Type(d, g), Len(Operands(d, g)))
    BY <1>1
  <2>3. DOMAIN d.outputs = DOMAIN c.outputs
    OBVIOUS
  <2>. QED
    BY ONLY WellFormed(c), <1>3, <1>4, <1>6, <1>7, <1>9, <2>1, <2>2, <2>3, SolvedIsCorrect
<1>. QED
  BY <1>5, <1>10

------------------------------------------------------------------------------
(* What is known of a circuit while no input is assigned.                   *)
Known(c) == StatesOf(c, NoAssignment(c))

(* It is what the operators derive.                                         *)
LEMMA KnownEquation ==
    ASSUME NEW c, WellFormed(c), NEW g \in GateIds(c)
    PROVE  Known(c)[g] = IF Type(c, g) = "INPUT" THEN StUndef
                         ELSE Operator(Type(c, g), OperandValues(Operands(c, g), Known(c)))
<1>1. OperandsInside(c) /\ IsRanking(c, ConeSizes(c))
  BY WellFormedFacts DEF IsAcyclic
<1>2. NoAssignment(c)[g] = StUndef
  BY DEF NoAssignment
<1>3. StatesOf(c, NoAssignment(c))[g] =
          IF IsFree(c, NoAssignment(c), g)
          THEN Operator(Type(c, g), [i \in DOMAIN Operands(c, g) |->
                                       StatesOf(c, NoAssignment(c))[Operands(c, g)[i]]])
          ELSE NoAssignment(c)[g]
  BY <1>1, StatesEquation
<1>. QED
  BY <1>2, <1>3 DEF IsFree, Known, OperandValues

(* The gates that outputs need, with their states and what they are         *)
(* computed from.                                                           *)
LEMMA LiveFacts ==
    ASSUME NEW c, WellFormed(c), NEW names, NEW values \in Values(c, names)
    PROVE  /\ LiveGates(c) \subseteq GateIds(c) /\ IsClosed(c, LiveGates(c))
           /\ \A g \in LiveGates(c) :
                 /\ ArityOk(Type(c, g), Len(Operands(c, g)))
                 /\ Operands(c, g) \in Seq(GateIds(c))
                 /\ StatesFor(c, names, values)[g] \in Bits
                 /\ StatesFor(c, names, values)[g] =
                       ValueIn(c, names, values, StatesFor(c, names, values), g)
<1> DEFINE L == LiveGates(c)
<1>1. /\ OperandsInside(c) /\ IsAcyclic(c)
      /\ L \subseteq GateIds(c) /\ IsClosed(c, L)
      /\ \A g \in L : Operands(c, g) \in Seq(GateIds(c))
  BY WellFormedFacts DEF LiveGates
<1>2. \A g \in L : ArityOk(Type(c, g), Len(Operands(c, g)))
  BY DEF WellFormed, LiveGates
<1>3. Solves(c, names, values, GateIds(c), StatesFor(c, names, values))
  BY <1>1, StatesSolve
<1>4. \A g \in GateIds(c) :
         StatesFor(c, names, values)[g] = ValueIn(c, names, values, StatesFor(c, names, values), g)
  BY <1>3, SolvesIs
<1> HIDE DEF L
<1>5. \A g \in L : StatesFor(c, names, values)[g] \in {StFalse, StTrue}
  BY <1>1, <1>2, StatesDefined
<1>. QED
  BY <1>1, <1>2, <1>4, <1>5 DEF L, Bits

(* The states of the operands that the outputs need.                        *)
LEMMA LiveOperands ==
    ASSUME NEW c, WellFormed(c), NEW names, NEW values \in Values(c, names),
           NEW g \in LiveGates(c), NEW n, n = Len(Operands(c, g))
    PROVE  /\ n \in Nat /\ DOMAIN Operands(c, g) = 1 .. n
           /\ \A i \in 1 .. n : Operands(c, g)[i] \in LiveGates(c)
           /\ OperandValues(Operands(c, g), StatesFor(c, names, values)) \in [1 .. n -> Bits]
<1>1. /\ IsClosed(c, LiveGates(c)) /\ Operands(c, g) \in Seq(GateIds(c))
      /\ \A o \in LiveGates(c) : StatesFor(c, names, values)[o] \in Bits
  BY LiveFacts
<1>2. n \in Nat /\ DOMAIN Operands(c, g) = 1 .. n
  BY <1>1
<1>3. \A i \in 1 .. n : Operands(c, g)[i] \in LiveGates(c)
  BY <1>1, <1>2 DEF IsClosed, OperandSet
<1>. QED
  BY <1>1, <1>2, <1>3 DEF OperandValues

(* It is not contradicted when the inputs are assigned.                     *)
LEMMA KnownStays ==
    ASSUME NEW c, WellFormed(c), NEW names, NEW values \in Values(c, names)
    PROVE  \A g \in LiveGates(c) :
              /\ Known(c)[g] \in GateStates
              /\ Refines(StatesFor(c, names, values)[g], Known(c)[g])
<1> DEFINE L == LiveGates(c)
           val == StatesFor(c, names, values)
           Good == {g \in L : Known(c)[g] \in GateStates /\ Refines(val[g], Known(c)[g])}
           rank == ConeSizes(c)
<1>1. L \subseteq GateIds(c) /\ IsClosed(c, L)
  BY LiveFacts
<1>2. IsRanking(c, rank)
  BY WellFormedFacts DEF IsAcyclic
<1>3. /\ \A g \in L : rank[g] \in Nat
      /\ \A g \in L : \A o \in OperandSet(c, g) : o \in L /\ rank[o] < rank[g]
  BY <1>1, <1>2 DEF IsRanking, IsClosed
<1> HIDE DEF rank
<1>4. ASSUME NEW g \in L, \A o \in L : rank[o] < rank[g] => o \in Good
      PROVE  g \in Good
  <2> DEFINE ops == Operands(c, g)
             n == Len(ops)
             x == OperandValues(ops, Known(c))
             a == OperandValues(ops, val)
  <2>1. /\ n \in Nat /\ DOMAIN ops = 1 .. n /\ a \in [1 .. n -> Bits]
        /\ ArityOk(Type(c, g), n)
        /\ val[g] = ValueIn(c, names, values, val, g)
    BY LiveFacts, LiveOperands
  <2>2. \A i \in 1 .. n : ops[i] \in Good
    BY <1>3, <1>4, <2>1 DEF OperandSet
  <2>3. x \in [1 .. n -> GateStates] /\ \A i \in 1 .. n : Refines(a[i], x[i])
    BY <2>1, <2>2 DEF OperandValues
  <2>4. g \in GateIds(c)
    BY <1>1
  <2>5. CASE Type(c, g) = "INPUT"
    <3>1. Known(c)[g] = StUndef
      BY <2>4, <2>5, KnownEquation
    <3>. QED
      BY <3>1 DEF Refines, GateStates
  <2>6. CASE Type(c, g) # "INPUT"
    <3>1. Known(c)[g] = Operator(Type(c, g), x) /\ val[g] = Operator(Type(c, g), a)
      BY <2>1, <2>4, <2>6, KnownEquation DEF ValueIn
    <3>2. Type(c, g) \in OperatorTypes
      BY <2>1, <2>6, ArityCases
    <3>3. a \in [1 .. n -> GateStates]
      BY <2>1 DEF Bits, GateStates
    <3> HIDE DEF a, x, n
    <3>4. Operator(Type(c, g), x) \in GateStates
          /\ \A b \in [1 .. n -> GateStates] :
                (\A i \in 1 .. n : Refines(b[i], x[i])) =>
                    Refines(Operator(Type(c, g), b), Operator(Type(c, g), x))
      BY <2>1, <2>3, <3>2, OperatorFacts
    <3>. QED
      BY <2>3, <3>1, <3>3, <3>4
  <2>. QED
    BY <2>5, <2>6
<1>5. L \subseteq Good
  <2>1. \A g \in L : (\A o \in L : rank[o] < rank[g] => o \in Good) => g \in Good
    BY <1>4
  <2> HIDE DEF Good, L
  <2>. QED
    BY <1>3, <2>1, RankInduction
<1>. QED
  BY <1>5

(* What the circuit is evaluated to with no input assigned.                 *)
LEMMA EvaluatedIsKnown ==
    ASSUME NEW c, WellFormed(c)
    PROVE  EvaluateCircuit(c, NoAssignment(c)) =
              [g \in GateIds(c) |-> IF g \in LiveGates(c) THEN Known(c)[g] ELSE StUndef]
<1> DEFINE cut == CutAtGiven(c, NoAssignment(c))
           S == OutputSet(c)
<1>1. OperandsInside(c) /\ S \subseteq GateIds(c)
  BY WellFormedFacts
<1>2. /\ OperandsInside(cut) /\ GateIds(cut) = GateIds(c)
      /\ \A g \in GateIds(c) : OperandSet(cut, g) =
            IF IsFree(c, NoAssignment(c), g) THEN OperandSet(c, g) ELSE {}
  BY <1>1, CutFacts
<1> HIDE DEF cut
<1>3. ASSUME NEW g \in GateIds(c) PROVE OperandSet(cut, g) = OperandSet(c, g)
  <2>1. NoAssignment(c)[g] = StUndef
    BY DEF NoAssignment
  <2>2. CASE Type(c, g) = "INPUT"
    <3>1. Operands(c, g) = <<>>
      BY <2>2 DEF WellFormed, InputGates
    <3>2. OperandSet(c, g) = {}
      BY <3>1 DEF OperandSet
    <3>. QED
      BY <1>2, <3>2
  <2>3. CASE Type(c, g) # "INPUT"
    BY <1>2, <2>1, <2>3 DEF IsFree
  <2>. QED
    BY <2>2, <2>3
<1>4. /\ S \subseteq Cone(c, S) /\ Cone(c, S) \subseteq GateIds(c) /\ IsClosed(c, Cone(c, S))
      /\ \A T : S \subseteq T /\ IsClosed(c, T) => Cone(c, S) \subseteq T
  BY <1>1, ConeProperties
<1>5. /\ S \subseteq Cone(cut, S) /\ Cone(cut, S) \subseteq GateIds(cut) /\ IsClosed(cut, Cone(cut, S))
      /\ \A T : S \subseteq T /\ IsClosed(cut, T) => Cone(cut, S) \subseteq T
  <2>1. S \in SUBSET GateIds(cut)
    BY <1>1, <1>2
  <2> HIDE DEF S
  <2>. QED
    BY <1>2, <2>1, ConeProperties
<1>6. \A T : T \subseteq GateIds(c) => (IsClosed(c, T) <=> IsClosed(cut, T))
  BY <1>3 DEF IsClosed
<1>7. Cone(cut, S) = Cone(c, S)
  <2>1. IsClosed(c, Cone(cut, S)) /\ IsClosed(cut, Cone(c, S))
    BY <1>2, <1>4, <1>5, <1>6
  <2>. QED
    BY <1>4, <1>5, <2>1
<1>. QED
  BY <1>7 DEF EvaluateCircuit, LiveGates, Known, cut

------------------------------------------------------------------------------
(* The names of a circuit that gates have been added to: those it had, and  *)
(* new ones, of the prefix and the id of the gate.                          *)
AreNames(names) == \E S : names \in Seq(S)

(* No gate has a name that begins with the prefix.                          *)
PrefixFree(prefix, names) == \A g \in DOMAIN names : names[g][1] # prefix

(* The encoder goes on where the names of the circuit end.                  *)
NamesExtended(names, prefix, encoder, n) ==
    /\ AreNames(encoder) /\ n \in Nat /\ Len(encoder) = n
    /\ IsEncoder(encoder)
    /\ \A k \in DOMAIN names : k \in DOMAIN encoder /\ encoder[k] = names[k]
    /\ \A k \in DOMAIN encoder : \A j \in Nat : j > n => encoder[k] # NewGateName(prefix, j)

(* A prefix that is drawn is one no name has, if there is one.              *)
LEMMA PrefixDrawn ==
    ASSUME NEW ids, NEW names, \E p \in ids : PrefixFree(p, names)
    PROVE  PrefixFree(UniquePrefix(ids, names), names)
  BY DEF PrefixFree, UniquePrefix

(* Before the first gate is added.                                          *)
LEMMA NamesBegin ==
    ASSUME NEW c, Len(c.gates) \in Nat, NEW names, AreNames(names), NamesGates(c, names),
           NEW prefix, PrefixFree(prefix, names)
    PROVE  NamesExtended(names, prefix, names, Len(c.gates))
<1>1. PICK S : names \in Seq(S)
  BY DEF AreNames
<1>2. /\ Len(names) = Len(c.gates) /\ DOMAIN names = GateIds(c)
      /\ \A g, h \in GateIds(c) : names[g] = names[h] => g = h
  BY <1>1 DEF NamesGates, GateIds
<1>3. ASSUME NEW k \in DOMAIN names, NEW j \in Nat PROVE names[k] # NewGateName(prefix, j)
  BY <1>3 DEF PrefixFree, NewGateName
<1>. QED
  BY <1>2, <1>3 DEF NamesExtended, IsEncoder

(* The name of a gate that is added is new: it gets the next id.            *)
IsNameAdded(names, prefix, encoder, n, key, longer) ==
    /\ EncodeGate(encoder, key) = longer
    /\ IdOf(encoder, key) = n + 1
    /\ NamesExtended(names, prefix, longer, n + 1)
    /\ \A k \in DOMAIN encoder : longer[k] = encoder[k]

(* The name of an added gate is new, so it gets the next id.                *)
LEMMA NameAdded ==
    ASSUME NEW names, NEW prefix, NEW encoder, NEW n, NamesExtended(names, prefix, encoder, n),
           NEW key, key = NewGateName(prefix, n + 1)
    PROVE  \E longer : IsNameAdded(names, prefix, encoder, n, key, longer)
<1> DEFINE longer == Append(encoder, key)
<1>1. PICK S : encoder \in Seq(S)
  BY DEF NamesExtended, AreNames
<1> DEFINE W == S \cup {key}
<1>2. encoder \in Seq(W) /\ key \in W /\ n \in Nat /\ Len(encoder) = n /\ DOMAIN encoder = 1 .. n
  BY <1>1 DEF NamesExtended
<1>3. \A k \in 1 .. n : encoder[k] # key
  BY <1>2 DEF NamesExtended
<1>4. ~KeyExists(encoder, key)
  BY <1>2, <1>3 DEF KeyExists
<1> HIDE DEF W
<1>5. EncodeGate(encoder, key) = longer
  BY <1>4 DEF EncodeGate
<1>6. IdOf(encoder, key) = n + 1
  BY <1>2, <1>4, NewIdFacts
<1>7. /\ longer \in Seq(W) /\ Len(longer) = n + 1 /\ DOMAIN longer = 1 .. n + 1
      /\ \A k \in 1 .. n : longer[k] = encoder[k]
      /\ longer[n + 1] = key
  BY <1>2
<1> HIDE DEF longer
<1>8. IsEncoder(longer)
  BY <1>2, <1>3, <1>7 DEF IsEncoder, NamesExtended
<1>9. \A k \in DOMAIN names : k \in DOMAIN longer /\ longer[k] = names[k]
  BY <1>2, <1>7 DEF NamesExtended
<1>10. ASSUME NEW k \in 1 .. n + 1, NEW j \in Nat, j > n + 1 PROVE longer[k] # NewGateName(prefix, j)
  <2>1. CASE k \in 1 .. n
    BY <1>2, <1>7, <1>10, <2>1 DEF NamesExtended
  <2>2. CASE k = n + 1
    BY <1>2, <1>7, <1>10, <2>2 DEF NewGateName
  <2>. QED
    BY <1>2, <2>1, <2>2
<1>11. NamesExtended(names, prefix, longer, n + 1)
  BY <1>2, <1>7, <1>8, <1>9, <1>10 DEF NamesExtended, AreNames
<1>12. IsNameAdded(names, prefix, encoder, n, key, longer)
  BY <1>2, <1>5, <1>6, <1>7, <1>11 DEF IsNameAdded
<1>. QED
  BY <1>12

(* The extended names are those of the gates, the old ones among them.      *)
LEMMA ExtendedFacts ==
    ASSUME NEW names, NEW prefix, NEW encoder, NEW d, NEW n, n = Len(d.gates),
           NamesExtended(names, prefix, encoder, n)
    PROVE  NamesGates(d, encoder) /\ AreNames(encoder)
           /\ \A k \in DOMAIN names : encoder[k] = names[k]
<1>1. PICK S : encoder \in Seq(S)
  BY DEF NamesExtended, AreNames
<1>2. n \in Nat /\ Len(encoder) = n /\ DOMAIN encoder = GateIds(d)
  BY <1>1 DEF NamesExtended, GateIds
<1>. QED
  BY <1>2 DEF NamesExtended, NamesGates, IsEncoder

(* A loop that appends one element of one.                                  *)
LEMMA SelectedOne ==
    ASSUME NEW S, NEW s \in Seq(S), Len(s) = 1, NEW kept \in SUBSET (1 .. 1)
    PROVE  Selected(s, kept) \in Seq(S)
           /\ (1 \in kept => Len(Selected(s, kept)) = 1 /\ Selected(s, kept)[1] = s[1])
<1> DEFINE r == Selected(s, kept)
           P == {s[1]}
<1>1. r \in Seq(S) /\ IsSelection(r, s, Len(s), kept)
  BY SelectedFacts
<1> HIDE DEF r
<1>2. ASSUME 1 \in kept PROVE Len(r) = 1 /\ r[1] = s[1]
  <2>1. /\ Len(r) \in Nat
        /\ \A i \in 1 .. Len(r) : \E k \in kept : r[i] = s[k]
        /\ \E i \in 1 .. Len(r) : r[i] = s[1]
        /\ CountIn(r, Len(r), P) = Cardinality(KeptIn(s, 1, kept, P))
    BY <1>1, <1>2 DEF IsSelection
  <2>2. \A i \in 1 .. Len(r) : r[i] = s[1]
    BY <2>1
  <2>3. {i \in 1 .. Len(r) : r[i] \in P} = 1 .. Len(r)
    BY <2>2
  <2>4. KeptIn(s, 1, kept, P) = 1 .. 1
    BY <1>2 DEF KeptIn
  <2>5. Cardinality(1 .. Len(r)) = Len(r) /\ Cardinality(1 .. 1) = 1
    <3> HIDE DEF P
    <3> DEFINE l == Len(r)
    <3>1. l \in Nat
      BY <2>1
    <3> HIDE DEF l
    <3>2. Cardinality(1 .. l) = l
      BY <3>1, FS_Interval
    <3>3. Cardinality(1 .. 1) = 1
      <4>1. 1 .. 1 = {1}
        OBVIOUS
      <4>. QED
        BY <4>1, FS_Singleton
    <3>. QED
      BY <3>2, <3>3 DEF l
  <2>6. Len(r) = 1
    <3>1. CountIn(r, Len(r), P) = Cardinality(1 .. Len(r))
      BY <2>3 DEF CountIn
    <3>. QED
      BY <2>1, <2>4, <2>5, <3>1
  <2>. QED
    BY <2>2, <2>6
<1>. QED
  BY <1>1, <1>2 DEF r

(* Nothing is left of nothing.                                              *)
LEMMA SelectedNone ==
    ASSUME NEW S, NEW s \in Seq(S), Len(s) = 0, NEW kept \in SUBSET (1 .. 0)
    PROVE  Selected(s, kept) = <<>>
<1> DEFINE r == Selected(s, kept)
<1>1. r \in Seq(S) /\ IsSelection(r, s, Len(s), kept)
  BY SelectedFacts
<1>2. kept = {}
  OBVIOUS
<1> HIDE DEF r
<1>3. \A i \in 1 .. Len(r) : FALSE
  BY <1>1, <1>2 DEF IsSelection
<1>4. r = <<>>
  BY <1>1, <1>3
<1>. QED
  BY <1>4 DEF r

(* A gate that is rebuilt over the operands that are not known computes the *)
(* same, or is left with one operand and is that operand or its negation.   *)
Rebuilds(type, a, newtype, ops, val) ==
    IF Len(ops) = 1 /\ newtype \in {"AND", "OR", "XOR", "IFF"}
    THEN Operator(type, a) = val[ops[1]]
    ELSE IF Len(ops) = 1 /\ newtype \in {"NAND", "NOR", "NXOR"}
    THEN Operator(type, a) = NOT(val[ops[1]])
    ELSE /\ ArityOk(newtype, Len(ops))
         /\ Operator(newtype, OperandValues(ops, val)) = Operator(type, a)

(* What a gate has known operands for.                                      *)
IsKnownOf(x, links, val, n) ==
    /\ x \in [1 .. n -> GateStates]
    /\ \A i \in 1 .. n : val[links[i]] \in Bits /\ Refines(val[links[i]], x[i])

(* The states of the operands that stay.                                    *)
LEMMA StayingOperands ==
    ASSUME NEW S, NEW links \in Seq(S), NEW n, n = Len(links), NEW val, NEW x,
           IsKnownOf(x, links, val, n),
           NEW U, U = {i \in 1 .. n : x[i] = StUndef},
           NEW ops, ops = Selected(links, U)
    PROVE  /\ ops \in Seq(S)
           /\ IsDropped(x, OperandValues(links, val), n, U, OperandValues(ops, val), Len(ops))
<1> DEFINE a == OperandValues(links, val)
           b == OperandValues(ops, val)
           m == Len(ops)
<1>1. n \in Nat /\ DOMAIN links = 1 .. n /\ U \in SUBSET (1 .. n)
  OBVIOUS
<1>2. ops \in Seq(S) /\ IsSelection(ops, links, n, U)
  BY <1>1, SelectedFacts
<1>3. m \in Nat /\ DOMAIN ops = 1 .. m
  BY <1>2
<1>4. /\ a \in [1 .. n -> Bits] /\ \A i \in 1 .. n : a[i] = val[links[i]] /\ Refines(a[i], x[i])
      /\ \A i \in 1 .. m : b[i] = val[ops[i]]
  BY <1>1, <1>3 DEF OperandValues, IsKnownOf
<1>5. /\ \A i \in 1 .. m : \E k \in U : ops[i] = links[k]
      /\ \A k \in U : \E i \in 1 .. m : ops[i] = links[k]
  BY <1>2 DEF IsSelection
<1> DEFINE P == {k \in S : val[k] = StTrue}
<1>6. CountIn(ops, m, P) = Cardinality(KeptIn(links, n, U, P))
  BY <1>2 DEF IsSelection
<1>7. CountIn(b, m, {StTrue}) = CountIn(ops, m, P)
  <2>1. \A i \in 1 .. m : ops[i] \in S
    BY <1>2, <1>3
  <2>2. {i \in 1 .. m : b[i] \in {StTrue}} = {i \in 1 .. m : ops[i] \in P}
    BY <1>4, <2>1
  <2>. QED
    BY <2>2 DEF CountIn
<1>8. KeptIn(a, n, U, {StTrue}) = KeptIn(links, n, U, P)
  <2>1. \A i \in 1 .. n : links[i] \in S
    BY <1>1
  <2>. QED
    BY <1>4, <2>1 DEF KeptIn
<1> HIDE DEF a, b, m, P
<1>9. /\ \A i \in 1 .. m : \E k \in U : b[i] = a[k]
      /\ \A k \in U : \E i \in 1 .. m : b[i] = a[k]
  <2>1. \A i \in 1 .. m, k \in U : ops[i] = links[k] => b[i] = a[k]
    BY <1>1, <1>4
  <2>2. \A i \in 1 .. m : \E k \in U : b[i] = a[k]
    BY <1>5, <2>1
  <2>3. \A k \in U : \E i \in 1 .. m : b[i] = a[k]
    BY <1>5, <2>1
  <2>. QED
    BY <2>2, <2>3
<1>10. IsDropped(x, a, n, U, b, m)
  BY <1>4, <1>6, <1>7, <1>8, <1>9 DEF IsDropped, IsKnownOf
<1>. QED
  BY <1>2, <1>10 DEF a, b, m

(* The types whose operands can be left out.                                *)
LEMMA ParityTypes ==
    ASSUME NEW type, NEW x, NEW n
    PROVE  /\ type \in FoldTypes => ParityType(type, x, n) \in FoldTypes
           /\ type \notin FoldTypes => ParityType(type, x, n) = type
           /\ (type = "MUX" <=> ParityType(type, x, n) = "MUX")
           /\ (type = "INPUT" <=> ParityType(type, x, n) = "INPUT")
           /\ type \in OperatorTypes => ParityType(type, x, n) \in OperatorTypes
  BY DEF ParityType, FoldTypes, OperatorTypes

(* AND, OR, XOR and their negations.                                        *)
LEMMA FoldRebuilds ==
    ASSUME NEW type \in FoldTypes, NEW S, NEW links \in Seq(S), NEW n, n = Len(links), n >= 2,
           NEW val, NEW x, IsKnownOf(x, links, val, n), Operator(type, x) = StUndef,
           NEW U, U = {i \in 1 .. n : x[i] = StUndef},
           NEW ops, ops = Selected(links, U)
    PROVE  Rebuilds(type, OperandValues(links, val),
                    ParityType(type, x, n), ops, val)
<1> DEFINE a == OperandValues(links, val)
           b == OperandValues(ops, val)
           m == Len(ops)
           newtype == ParityType(type, x, n)
<1>1. ops \in Seq(S) /\ IsDropped(x, a, n, U, b, m)
  BY StayingOperands
<1>2. m \in Nat /\ DOMAIN ops = 1 .. m /\ n \in Nat /\ \A i \in 1 .. m : b[i] = val[ops[i]]
  BY <1>1 DEF OperandValues
<1>3. newtype \in FoldTypes
  BY ParityTypes
<1>4. b \in [1 .. m -> GateStates] /\ \A i \in 1 .. m : b[i] \in Bits
  <2>1. \A i \in 1 .. m : b[i] \in Bits
    <3> HIDE DEF a, b, m
    <3>. QED
      BY ONLY <1>1, <1>2, DroppedFacts
  <2>. QED
    BY <1>2, <2>1 DEF OperandValues, Bits, GateStates
<1> HIDE DEF a, b, m
<1>0. type \in FoldTypes /\ n >= 2 /\ Operator(type, x) = StUndef
  OBVIOUS
<1>5. m >= 1 /\ Operator(type, a) = FoldValue(newtype, b, m)
  <2>1. m >= 1 /\ Operator(type, a) = FoldValue(ParityType(type, x, n), b, m)
    BY ONLY <1>0, <1>1, <1>2, KnownDropped
  <2>. QED
    BY <2>1
<1> HIDE DEF newtype
<1>6. CASE m = 1
  <2>1. FoldValue(newtype, b, 1) = IF newtype \in {"AND", "OR", "XOR"} THEN b[1] ELSE NOT(b[1])
    BY <1>3, <1>4, <1>6, FoldValueOne
  <2>2. b[1] = val[ops[1]]
    BY <1>2, <1>6
  <2>3. newtype \in {"AND", "OR", "XOR", "NAND", "NOR", "NXOR"}
    BY <1>3 DEF FoldTypes
  <2>. QED
    BY <1>5, <1>6, <2>1, <2>2, <2>3 DEF Rebuilds, m, a, newtype
<1>7. CASE m # 1
  <2>1. m >= 2
    BY <1>2, <1>5, <1>7
  <2>2. Operator(newtype, b) = FoldValue(newtype, b, m)
    BY <1>2, <1>3, <1>4, <2>1, FoldValueIs
  <2>3. ArityOk(newtype, m)
    BY <1>3, <2>1 DEF ArityOk, FoldTypes
  <2>. QED
    BY <1>5, <1>7, <2>2, <2>3 DEF Rebuilds, m, a, b, newtype
<1>. QED
  BY <1>6, <1>7

(* All other types that have no operand chosen by another.                  *)
LEMMA GateRebuilds ==
    ASSUME NEW type \in OperatorTypes, type # "MUX", NEW S, NEW links \in Seq(S), NEW n,
           n = Len(links), ArityOk(type, n),
           NEW val, NEW x, IsKnownOf(x, links, val, n),
           Operator(type, x) = StUndef \/ type \in {"CONST_TRUE", "CONST_FALSE"},
           NEW U, U = {i \in 1 .. n : x[i] = StUndef},
           NEW ops, ops = Selected(links, U)
    PROVE  /\ ops \in Seq(S)
           /\ Rebuilds(type, OperandValues(links, val),
                       ParityType(type, x, n), ops, val)
<1> DEFINE a == OperandValues(links, val)
           b == OperandValues(ops, val)
<1>1. n \in Nat /\ DOMAIN links = 1 .. n /\ U \in SUBSET (1 .. n)
  OBVIOUS
<1>2. ops \in Seq(S)
  BY <1>1, SelectedFacts
<1>4. CASE type \in FoldTypes
  <2>1. n >= 2
    BY <1>4, ArityCases
  <2>2. Operator(type, x) = StUndef
    BY <1>4 DEF FoldTypes
  <2> HIDE DEF a, b
  <2>3. Rebuilds(type, OperandValues(links, val),
                 ParityType(type, x, n), ops, val)
    BY <1>4, <2>1, <2>2, FoldRebuilds
  <2>. QED
    BY <1>2, <2>3
<1>5. CASE type \in {"NOT", "IFF"}
  <2>1. n = 1 /\ ParityType(type, x, n) = type
    BY <1>5, ArityCases DEF ParityType
  <2>2. Operator(type, x) = IF type = "NOT" THEN NOT(x[1]) ELSE IFF(x[1])
    BY <1>5, OperatorCases
  <2>3. x[1] \in GateStates /\ Operator(type, x) = StUndef
    BY <1>5, <2>1 DEF IsKnownOf
  <2>4. x[1] = StUndef
    BY <1>5, <2>2, <2>3 DEF NOT, IFF, Lookup1, StUndef, GateStates, StFalse, StTrue
  <2>5. Len(ops) = 1 /\ ops[1] = links[1]
    BY <1>1, <2>1, <2>4, SelectedOne
  <2>6. Operator(type, a) = (IF type = "NOT" THEN NOT(a[1]) ELSE IFF(a[1]))
        /\ Operator(type, b) = (IF type = "NOT" THEN NOT(b[1]) ELSE IFF(b[1]))
    <3> HIDE DEF a, b
    <3>. QED
      BY <1>5, OperatorCases
  <2>7. a[1] = val[links[1]] /\ b[1] = val[links[1]] /\ val[links[1]] \in Bits
    <3>1. 1 \in DOMAIN links /\ 1 \in DOMAIN ops
      BY <1>1, <1>2, <2>1, <2>5
    <3>. QED
      BY <2>1, <2>5, <3>1 DEF OperandValues, IsKnownOf
  <2> HIDE DEF a, b
  <2>8. CASE type = "NOT"
    <3>1. ArityOk(type, Len(ops))
      BY <2>5, <2>8 DEF ArityOk, FoldTypes
    <3>. QED
      BY <1>2, <2>1, <2>5, <2>6, <2>7, <2>8, <3>1 DEF Rebuilds, a, b
  <2>9. CASE type = "IFF"
    <3>1. IFF(a[1]) = val[ops[1]]
      BY <2>5, <2>7 DEF IFF, Lookup1, Bits, StFalse, StTrue
    <3>. QED
      BY <1>2, <2>1, <2>5, <2>6, <2>9, <3>1 DEF Rebuilds, a
  <2>. QED
    BY <1>5, <2>8, <2>9
<1>6. CASE type \in {"CONST_TRUE", "CONST_FALSE"}
  <2>1. n = 0 /\ ParityType(type, x, n) = type
    BY <1>6, ArityCases DEF ParityType
  <2>2. ops = <<>>
    BY <1>1, <2>1, SelectedNone
  <2>3. Operator(type, a) = Operator(type, b)
    <3> HIDE DEF a, b
    <3>. QED
      BY <1>6, OperatorCases
  <2>4. Len(ops) = 0 /\ ArityOk(type, Len(ops))
    BY <1>6, <2>2 DEF ArityOk, FoldTypes
  <2> HIDE DEF a, b
  <2>. QED
    BY <1>2, <1>6, <2>1, <2>3, <2>4 DEF Rebuilds, a, b
<1>. QED
  BY <1>4, <1>5, <1>6 DEF OperatorTypes

------------------------------------------------------------------------------
(* The gates that still wait, in the order in which they will be visited:   *)
(* each once, after its operands.                                           *)
Waiting(s) == {s[i] : i \in DOMAIN s}

(* Gates that wait in an order in which operands come first.                *)
IsQueue(c, s) ==
    /\ s \in Seq(GateIds(c))
    /\ \A i, j \in DOMAIN s : s[i] = s[j] => i = j
    /\ \A i, j \in DOMAIN s : s[j] \in OperandSet(c, s[i]) => j < i

(* At first all gates wait.                                                 *)
LEMMA QueueBegins ==
    ASSUME NEW c, NEW s, HasOperandsFirst(c, s)
    PROVE  IsQueue(c, s) /\ Waiting(s) = GateIds(c)
<1>1. s \in Seq(GateIds(c)) /\ DOMAIN s = 1 .. Len(s)
  BY DEF HasOperandsFirst
<1>2. IsQueue(c, s)
  BY <1>1 DEF HasOperandsFirst, IsQueue
<1>3. Waiting(s) = GateIds(c)
  BY <1>1 DEF HasOperandsFirst, Waiting
<1>. QED
  BY <1>2, <1>3

(* When the first of them is visited, none of its operands waits any more.  *)
LEMMA QueueServes ==
    ASSUME NEW c, NEW s, IsQueue(c, s), s # <<>>
    PROVE  /\ Head(s) \in GateIds(c) /\ Head(s) \in Waiting(s)
           /\ IsQueue(c, Tail(s)) /\ Waiting(Tail(s)) = Waiting(s) \ {Head(s)}
           /\ \A o \in OperandSet(c, Head(s)) : o \notin Waiting(s)
<1>1. s \in Seq(GateIds(c)) /\ DOMAIN s = 1 .. Len(s) /\ Len(s) \in Nat /\ Len(s) # 0
  BY DEF IsQueue
<1>2. Head(s) = s[1] /\ 1 \in DOMAIN s
  BY <1>1
<1>3. /\ Tail(s) \in Seq(GateIds(c)) /\ DOMAIN Tail(s) = 1 .. Len(s) - 1
      /\ \A i \in 1 .. Len(s) - 1 : Tail(s)[i] = s[i + 1]
  BY <1>1
<1>4. \A i, j \in DOMAIN s : s[i] = s[j] => i = j
  BY DEF IsQueue
<1>5. \A i, j \in DOMAIN s : s[j] \in OperandSet(c, s[i]) => j < i
  BY DEF IsQueue
<1>6. IsQueue(c, Tail(s))
  <2>1. ASSUME NEW i \in DOMAIN Tail(s), NEW j \in DOMAIN Tail(s)
        PROVE  /\ Tail(s)[i] = Tail(s)[j] => i = j
               /\ Tail(s)[j] \in OperandSet(c, Tail(s)[i]) => j < i
    <3>1. i \in Int /\ j \in Int /\ i + 1 \in DOMAIN s /\ j + 1 \in DOMAIN s
      BY <1>1, <1>3
    <3>2. Tail(s)[i] = s[i + 1] /\ Tail(s)[j] = s[j + 1]
      BY <1>3
    <3>3. Tail(s)[i] = Tail(s)[j] => i + 1 = j + 1
      BY <1>4, <3>1, <3>2
    <3>4. Tail(s)[j] \in OperandSet(c, Tail(s)[i]) => j + 1 < i + 1
      BY <1>5, <3>1, <3>2
    <3>. QED
      BY <3>1, <3>3, <3>4
  <2>. QED
    BY <2>1, <1>3 DEF IsQueue
<1>7. Waiting(Tail(s)) = Waiting(s) \ {Head(s)}
  <2>1. ASSUME NEW g \in Waiting(Tail(s)) PROVE g \in Waiting(s) \ {Head(s)}
    <3>1. PICK i \in DOMAIN Tail(s) : g = Tail(s)[i]
      BY DEF Waiting
    <3>2. i \in Int /\ i + 1 \in DOMAIN s /\ g = s[i + 1] /\ i + 1 # 1
      BY <3>1, <1>1, <1>3
    <3>. QED
      BY <3>2, <1>2, <1>4 DEF Waiting
  <2>2. ASSUME NEW g \in Waiting(s) \ {Head(s)} PROVE g \in Waiting(Tail(s))
    <3>1. PICK i \in DOMAIN s : g = s[i]
      BY DEF Waiting
    <3>2. i # 1
      BY <3>1, <1>2
    <3>3. i - 1 \in DOMAIN Tail(s) /\ Tail(s)[i - 1] = s[i - 1 + 1] /\ i - 1 + 1 = i
      BY <3>2, <1>1, <1>3
    <3>. QED
      BY <3>1, <3>3 DEF Waiting
  <2>. QED
    BY <2>1, <2>2
<1>8. \A o \in OperandSet(c, Head(s)) : o \notin Waiting(s)
  <2> SUFFICES ASSUME NEW o \in OperandSet(c, Head(s)), o \in Waiting(s) PROVE FALSE
    OBVIOUS
  <2>1. PICK j \in DOMAIN s : o = s[j]
    BY DEF Waiting
  <2>2. j < 1
    BY <2>1, <1>2, <1>5
  <2>. QED
    BY <2>2, <1>1
<1>9. Head(s) \in GateIds(c) /\ Head(s) \in Waiting(s)
  BY <1>1, <1>2 DEF Waiting
<1>. QED
  BY <1>6, <1>7, <1>8, <1>9

(* In the end none waits.                                                   *)
LEMMA NoneWaits ==
    Waiting(<<>>) = {}
  BY DEF Waiting

------------------------------------------------------------------------------
(* What the states that have been evaluated say of gates that have been     *)
(* visited: a link is there unless the state is known, and leads to a gate  *)
(* of which as much is known.                                               *)
LinksKnown(c, link, W, ra) ==
    /\ ra \in Seq(GateStates) /\ Len(ra) = Len(link)
    /\ \A g \in GateIds(c) : ra[g] = IF g \in LiveGates(c) THEN Known(c)[g] ELSE StUndef
    /\ \A g \in GateIds(c) \ W : ra[g] = StUndef => link[g] # 0
    /\ \A g \in LiveGates(c) \ W : ra[Target(link, g)] = ra[g]

(* Before the first gate is visited.                                        *)
LEMMA LinksBegin ==
    ASSUME NEW c, WellFormed(c), NEW link, link = [g \in GateIds(c) |-> 0],
           NEW ra, ra = EvaluateCircuit(c, NoAssignment(c))
    PROVE  LinksKnown(c, link, GateIds(c), ra)
<1>1. ra = [g \in GateIds(c) |-> IF g \in LiveGates(c) THEN Known(c)[g] ELSE StUndef]
  BY EvaluatedIsKnown
<1>2. Len(c.gates) \in Nat
  BY DEF WellFormed, IdsInRange
<1>3. PICK names : names = NaturalNames(c)
  OBVIOUS
<1>4. PICK values : values = [n \in InputNames(c, names) |-> StFalse]
  OBVIOUS
<1>5. values \in Values(c, names)
  BY <1>4 DEF Values
<1>6. \A g \in LiveGates(c) : Known(c)[g] \in GateStates
  BY <1>5, KnownStays
<1>7. LiveGates(c) \subseteq GateIds(c)
  BY <1>5, LiveFacts
<1>8. ra \in [GateIds(c) -> GateStates]
  BY <1>1, <1>6 DEF GateStates
<1>9. /\ ra \in Seq(GateStates) /\ Len(ra) = Len(c.gates)
      /\ link \in [1 .. Len(c.gates) -> {0}] /\ Len(link) = Len(c.gates)
  <2>1. ra \in [1 .. Len(c.gates) -> GateStates]
    BY <1>8 DEF GateIds
  <2>2. link \in [1 .. Len(c.gates) -> {0}]
    BY DEF GateIds
  <2>. QED
    BY <1>2, <2>1, <2>2, FunctionIsSequence
<1>10. LiveGates(c) \ GateIds(c) = {}
  BY <1>7
<1>11. \A g \in GateIds(c) : ra[g] = IF g \in LiveGates(c) THEN Known(c)[g] ELSE StUndef
  BY <1>1
<1>. QED
  BY <1>9, <1>10, <1>11 DEF LinksKnown

(* The operands of a gate, with their links followed.                       *)
LinksOf(c, link, g) == [i \in DOMAIN Operands(c, g) |-> Target(link, Operands(c, g)[i])]

(* They can be referred to, and rank below the gate.                        *)
LEMMA LinkedOperands ==
    ASSUME NEW c, WellFormed(c), NEW d, NEW link, NEW W, NEW rank, IsReduction(c, d, link, W, rank),
           NEW g \in GateIds(c), \A o \in OperandSet(c, g) : o \notin W,
           NEW links, links = LinksOf(c, link, g)
    PROVE  /\ links \in Seq(GateIds(d)) /\ Len(links) = Len(Operands(c, g))
           /\ DOMAIN links = 1 .. Len(Operands(c, g))
           /\ \A i \in DOMAIN links : IsTarget(links[i], link, W) /\ rank[links[i]] < rank[g]
<1>1. Operands(c, g) \in Seq(GateIds(c)) /\ Len(c.gates) \in Nat
  BY WellFormedFacts DEF WellFormed, IdsInRange
<1>2. /\ DOMAIN Operands(c, g) = 1 .. Len(Operands(c, g)) /\ Len(Operands(c, g)) \in Nat
      /\ \A i \in DOMAIN Operands(c, g) : Operands(c, g)[i] \in GateIds(c)
  BY <1>1
<1>3. /\ Len(link) \in Nat /\ Len(d.gates) \in Nat /\ DOMAIN link = 1 .. Len(link)
      /\ Len(c.gates) <= Len(link) /\ Len(link) <= Len(d.gates)
      /\ LinksSettled(link, W, rank) /\ IsRanking(c, rank) /\ IsRanking(d, rank)
  BY DEF IsReduction
<1>4. GateIds(c) \subseteq DOMAIN link /\ DOMAIN link \subseteq GateIds(d)
  BY <1>1, <1>3 DEF GateIds
<1>5. ASSUME NEW i \in DOMAIN Operands(c, g)
      PROVE  /\ links[i] \in GateIds(d) /\ IsTarget(links[i], link, W)
             /\ rank[links[i]] < rank[g]
  <2>1. PICK o : o = Operands(c, g)[i]
    OBVIOUS
  <2>2. o \in OperandSet(c, g) /\ o \in GateIds(c)
    BY <2>1, <1>2 DEF OperandSet
  <2>3. o \in DOMAIN link \ W /\ links[i] = Target(link, o)
    BY <2>1, <2>2, <1>4 DEF LinksOf
  <2>4. IsTarget(links[i], link, W) /\ rank[links[i]] <= rank[o]
    BY <2>3, <1>3 DEF LinksSettled
  <2>5. links[i] \in GateIds(d)
    BY <2>4, <1>4 DEF IsTarget
  <2>6. rank[o] < rank[g] /\ rank[o] \in Nat /\ rank[g] \in Nat /\ rank[links[i]] \in Nat
    BY <2>2, <2>5, <1>3 DEF IsRanking
  <2>. QED
    BY <2>4, <2>5, <2>6
<1>6. DOMAIN links = 1 .. Len(Operands(c, g))
  BY <1>2 DEF LinksOf
<1>7. links \in [1 .. Len(Operands(c, g)) -> GateIds(d)]
  BY <1>2, <1>5, <1>6 DEF LinksOf
<1>. QED
  BY <1>2, <1>5, <1>6, <1>7, FunctionIsSequence

(* The states of the operands of a gate that outputs need: those of the     *)
(* gates they are linked to, of which as much is known.                     *)
LEMMA LinkedLive ==
    ASSUME NEW c, WellFormed(c), NEW d, NEW link, NEW W, NEW T, Carries(c, d, link, W, T),
           NEW ra, LinksKnown(c, link, W, ra),
           NEW g \in LiveGates(c), \A o \in OperandSet(c, g) : o \notin W,
           NEW links, links = LinksOf(c, link, g)
    PROVE  /\ links \in Seq(T)
           /\ DOMAIN links = 1 .. Len(Operands(c, g)) /\ Len(links) = Len(Operands(c, g))
           /\ \A i \in DOMAIN links : ra[links[i]] = Known(c)[Operands(c, g)[i]]
<1>1. LiveGates(c) \subseteq GateIds(c) /\ IsClosed(c, LiveGates(c))
  BY WellFormedFacts DEF LiveGates
<1>2. Operands(c, g) \in Seq(GateIds(c))
  BY <1>1, WellFormedFacts
<1>3. DOMAIN Operands(c, g) = 1 .. Len(Operands(c, g)) /\ Len(Operands(c, g)) \in Nat
  BY <1>2
<1>4. ASSUME NEW i \in DOMAIN Operands(c, g)
      PROVE  links[i] \in T /\ ra[links[i]] = Known(c)[Operands(c, g)[i]]
  <2>1. PICK o : o = Operands(c, g)[i]
    OBVIOUS
  <2>2. o \in OperandSet(c, g)
    BY <2>1 DEF OperandSet
  <2>3. o \in LiveGates(c) \ W /\ o \in GateIds(c)
    BY <1>1, <2>2 DEF IsClosed
  <2>4. links[i] = Target(link, o)
    BY <2>1 DEF LinksOf
  <2>5. links[i] \in T
    BY <2>3, <2>4 DEF Carries
  <2>6. ra[links[i]] = ra[o] /\ ra[o] = Known(c)[o]
    BY <2>3, <2>4 DEF LinksKnown
  <2>. QED
    BY <2>1, <2>5, <2>6
<1>5. DOMAIN links = DOMAIN Operands(c, g) /\ links \in [1 .. Len(Operands(c, g)) -> T]
  BY <1>3, <1>4 DEF LinksOf
<1>. QED
  BY <1>3, <1>4, <1>5, FunctionIsSequence

(* The states of a gate and of the gates its operands are linked to.        *)
StatesLinked(c, names, links, values, val, g) ==
    /\ IsKnownOf(OperandValues(Operands(c, g), Known(c)), links, val, Len(Operands(c, g)))
    /\ StatesFor(c, names, values)[g] =
          IF Type(c, g) = "INPUT" THEN values[names[g]]
          ELSE Operator(Type(c, g), OperandValues(links, val))

(* Links of the operands lead to the states of the operands.                *)
LEMMA LinkedStates ==
    ASSUME NEW c, WellFormed(c), NEW names, NEW d, NEW dnames, NEW link, NEW W, NEW T,
           NEW g \in LiveGates(c), \A o \in OperandSet(c, g) : o \notin W,
           NEW links, links = LinksOf(c, link, g),
           NEW values \in Values(c, names), NEW val,
           Represents(c, names, d, dnames, link, W, T, values, val)
    PROVE  StatesLinked(c, names, links, values, val, g)
<1> DEFINE n == Len(Operands(c, g))
           ops == Operands(c, g)
           state == StatesFor(c, names, values)
<1>1. /\ n \in Nat /\ DOMAIN ops = 1 .. n
      /\ \A i \in 1 .. n : ops[i] \in LiveGates(c)
  BY LiveOperands
<1>2. ASSUME NEW i \in 1 .. n
      PROVE  /\ val[links[i]] = state[ops[i]] /\ state[ops[i]] \in Bits
             /\ Known(c)[ops[i]] \in GateStates /\ Refines(state[ops[i]], Known(c)[ops[i]])
  <2>1. PICK o : o = ops[i]
    OBVIOUS
  <2>2. o \in OperandSet(c, g) /\ o \in LiveGates(c)
    BY <1>1, <2>1 DEF OperandSet
  <2>3. links[i] = Target(link, o)
    BY <1>1, <2>1 DEF LinksOf
  <2>4. val[Target(link, o)] = state[o]
    BY <2>2 DEF Represents
  <2>5. state[o] \in Bits
    BY <2>2, LiveFacts
  <2>6. Known(c)[o] \in GateStates /\ Refines(state[o], Known(c)[o])
    BY <2>2, KnownStays
  <2>. QED
    BY <2>1, <2>3, <2>4, <2>5, <2>6
<1>3. DOMAIN links = 1 .. n
  BY <1>1 DEF LinksOf
<1>4. OperandValues(ops, Known(c)) = [i \in 1 .. n |-> Known(c)[ops[i]]]
  BY <1>1 DEF OperandValues
<1>5. IsKnownOf(OperandValues(ops, Known(c)), links, val, n)
  BY <1>2, <1>4 DEF IsKnownOf
<1>6. OperandValues(links, val) = OperandValues(ops, state)
  BY <1>1, <1>2, <1>3 DEF OperandValues
<1>7. state[g] = ValueIn(c, names, values, state, g)
  BY LiveFacts
<1>. QED
  BY <1>5, <1>6, <1>7 DEF ValueIn, StatesLinked

------------------------------------------------------------------------------
(* All that holds while gates are visited.                                  *)
Reduces(c, names, d, dnames, link, W, T, rank, ra) ==
    /\ IsReduction(c, d, link, W, rank)
    /\ Computes(c, names, d, dnames, link, W, T)
    /\ LinksKnown(c, link, W, ra)

(* The gates, but for the one rebuilt, and their links stay.                *)
StaysBut(c, d, dnames, e, link, relink, T, g, t) ==
    /\ GateIds(e) = GateIds(d) /\ g \in GateIds(d) /\ g \in GateIds(c) /\ g \notin T /\ g # 0
    /\ AgreeOn(T, d, dnames, e, dnames)
    /\ \A h \in DOMAIN link : h # g => relink[h] = link[h] /\ Target(relink, h) = Target(link, h)
    /\ relink[g] = t /\ Target(relink, g) = IF t # 0 THEN t ELSE g
    /\ GateIds(c) \subseteq DOMAIN link /\ Len(relink) = Len(link)

(* So it is when one gate is visited.                                       *)
LEMMA VisitStays ==
    ASSUME NEW c, Len(c.gates) \in Nat, NEW d, NEW dnames, NEW link, NEW W, NEW rank,
           IsReduction(c, d, link, W, rank), NEW T, T \subseteq GateIds(d) \ W,
           NEW g \in W, NEW type, NEW ops, NEW t,
           NEW e, NEW relink, IsVisited(d, e, link, relink, g, type, ops, t)
    PROVE  StaysBut(c, d, dnames, e, link, relink, T, g, t)
<1>1. /\ link \in Seq(0 .. Len(d.gates)) /\ Len(d.gates) \in Nat
      /\ Len(c.gates) <= Len(link) /\ Len(link) <= Len(d.gates) /\ W \subseteq 1 .. Len(c.gates)
      /\ d.gates \in Seq(GateInfos(Len(d.gates)))
  BY DEF IsReduction, GateIds
<1>2. g \in GateIds(c) /\ g \in GateIds(d) /\ g \in DOMAIN link /\ g # 0 /\ GateIds(c) \subseteq DOMAIN link
  BY <1>1 DEF GateIds
<1>b. /\ e.gates = [d.gates EXCEPT ![g] = GateInfo(type, ops)]
      /\ relink = [link EXCEPT ![g] = t]
  BY DEF IsVisited
<1>3. /\ GateIds(e) = GateIds(d) /\ e.gates[g] = GateInfo(type, ops)
      /\ \A k \in GateIds(d) : k # g => e.gates[k] = d.gates[k]
  BY <1>1, <1>2, <1>b DEF GateIds
<1>4. AgreeOn(T, d, dnames, e, dnames) /\ g \notin T
  BY <1>3 DEF AgreeOn
<1>5. /\ \A h \in DOMAIN link : h # g => relink[h] = link[h] /\ Target(relink, h) = Target(link, h)
      /\ relink[g] = t /\ Target(relink, g) = IF t # 0 THEN t ELSE g
      /\ Len(relink) = Len(link)
  BY <1>1, <1>2, <1>b DEF Target
<1>. QED
  BY <1>2, <1>3, <1>4, <1>5 DEF StaysBut

(* What is known of links stays when one more gate is visited.              *)
LEMMA VisitKnown ==
    ASSUME NEW c, NEW link, NEW W, NEW ra, LinksKnown(c, link, W, ra), NEW g \in W, NEW relink,
           LiveGates(c) \subseteq GateIds(c), GateIds(c) \subseteq DOMAIN link, Len(relink) = Len(link),
           \A h \in DOMAIN link : h # g => relink[h] = link[h] /\ Target(relink, h) = Target(link, h),
           ra[g] = StUndef => relink[g] # 0,
           g \in LiveGates(c) => ra[Target(relink, g)] = ra[g]
    PROVE  LinksKnown(c, relink, W \ {g}, ra)
<1>1. /\ ra \in Seq(GateStates) /\ Len(ra) = Len(relink)
      /\ \A h \in GateIds(c) : ra[h] = IF h \in LiveGates(c) THEN Known(c)[h] ELSE StUndef
  BY DEF LinksKnown
<1>2. \A h \in GateIds(c) \ (W \ {g}) : ra[h] = StUndef => relink[h] # 0
  <2>1. \A h \in GateIds(c) \ W : ra[h] = StUndef => link[h] # 0
    BY DEF LinksKnown
  <2>. QED
    BY <2>1
<1>3. \A h \in LiveGates(c) \ (W \ {g}) : ra[Target(relink, h)] = ra[h]
  <2>1. \A h \in LiveGates(c) \ W : ra[Target(link, h)] = ra[h]
    BY DEF LinksKnown
  <2>. QED
    BY <2>1
<1>. QED
  BY <1>1, <1>2, <1>3 DEF LinksKnown

(* A gate that has the states of g if outputs need g.                       *)
HasStates(c, names, d, dnames, link, W, T, ra, g, t) ==
    g \in LiveGates(c) =>
        /\ t \in T /\ ra[t] = ra[g]
        /\ \A values \in Values(c, names) : \A val :
              Represents(c, names, d, dnames, link, W, T, values, val) =>
                  val[t] = StatesFor(c, names, values)[g]

(* A gate is visited and its users are referred to such a one.              *)
LEMMA VisitLinked ==
    ASSUME NEW c, WellFormed(c), NEW names, NEW d, NEW dnames, NEW link, NEW W, NEW T, NEW rank, NEW ra,
           Reduces(c, names, d, dnames, link, W, T, rank, ra), NEW g \in W,
           NEW type, NEW ops, CanBuild(c, d, rank, g, type, ops),
           NEW t, IsTarget(t, link, W), rank[t] <= rank[g],
           HasStates(c, names, d, dnames, link, W, T, ra, g, t),
           NEW e, NEW relink, IsVisited(d, e, link, relink, g, type, ops, t)
    PROVE  Reduces(c, names, e, dnames, relink, W \ {g}, T, rank, ra)
<1>1. IsReduction(c, d, link, W, rank) /\ Computes(c, names, d, dnames, link, W, T) /\ LinksKnown(c, link, W, ra)
  BY DEF Reduces
<1>2. Len(c.gates) \in Nat /\ LiveGates(c) \subseteq GateIds(c)
  <2>1. c.gates \in Seq(GateInfos(Len(c.gates)))
    BY DEF WellFormed, IdsInRange
  <2>. QED
    BY <2>1, WellFormedFacts DEF LiveGates
<1>4. IsReduction(c, e, relink, W \ {g}, rank)
  <2>1. CanLink(link, W, rank, g, t)
    BY DEF CanLink
  <2>. QED
    BY <1>1, <1>2, <2>1, ReductionVisits
<1>5. T \subseteq GateIds(d) \ W
  BY <1>1 DEF Computes, Carries
<1>6. /\ GateIds(e) = GateIds(d) /\ AgreeOn(T, d, dnames, e, dnames)
      /\ \A h \in DOMAIN link : h # g => relink[h] = link[h] /\ Target(relink, h) = Target(link, h)
      /\ relink[g] = t /\ Target(relink, g) = IF t # 0 THEN t ELSE g
      /\ GateIds(c) \subseteq DOMAIN link /\ Len(relink) = Len(link)
  <2>1. StaysBut(c, d, dnames, e, link, relink, T, g, t)
    BY <1>1, <1>2, <1>5, VisitStays
  <2>. QED
    BY <2>1 DEF StaysBut
<1>3. t # 0
  <2>1. link \in Seq(0 .. Len(d.gates)) /\ t \in DOMAIN link
    BY <1>1 DEF IsReduction, IsTarget
  <2>. QED
    BY <2>1
<1>7. relink[g] # 0 /\ Target(relink, g) = t
  BY <1>3, <1>6
<1>8. \A h \in LiveGates(c) \ W : Target(relink, h) = Target(link, h)
  BY <1>2, <1>6
<1>9. Computes(c, names, e, dnames, relink, W \ {g}, T)
  <2>1. g \in LiveGates(c) =>
           /\ Target(relink, g) \in T
           /\ \A values \in Values(c, names) : \A val :
                 Represents(c, names, d, dnames, link, W, T, values, val) =>
                     val[Target(relink, g)] = StatesFor(c, names, values)[g]
    BY <1>7 DEF HasStates
  <2>2. GateIds(d) \subseteq GateIds(e)
    BY <1>6
  <2>. QED
    BY <1>1, <1>6, <1>8, <2>1, <2>2, ComputesLinked
<1>10. LinksKnown(c, relink, W \ {g}, ra)
  <2>1. g \in LiveGates(c) => ra[Target(relink, g)] = ra[g]
    BY <1>7 DEF HasStates
  <2>. QED
    BY <1>1, <1>2, <1>6, <1>7, <2>1, VisitKnown
<1>. QED
  BY <1>4, <1>9, <1>10 DEF Reduces

(* A gate that is rebuilt such that it keeps its states.                    *)
KeepsStates(c, names, d, e, dnames, link, W, T, g) ==
    g \in LiveGates(c) =>
        /\ GateFits(c, names, e, dnames, T, g)
        /\ \A values \in Values(c, names) : \A val :
              Represents(c, names, d, dnames, link, W, T, values, val) =>
                  ValueIn(e, dnames, values, val, g) = StatesFor(c, names, values)[g]

(* A gate is visited and stays in its place.                                *)
LEMMA VisitKept ==
    ASSUME NEW c, WellFormed(c), NEW names, NEW d, NEW dnames, NEW link, NEW W, NEW T, NEW rank, NEW ra,
           Reduces(c, names, d, dnames, link, W, T, rank, ra), NEW g \in W,
           NEW type, NEW ops, CanBuild(c, d, rank, g, type, ops),
           NEW t, t \in {0, g}, ra[g] = StUndef => t = g,
           NEW e, NEW relink, IsVisited(d, e, link, relink, g, type, ops, t),
           KeepsStates(c, names, d, e, dnames, link, W, T, g)
    PROVE  \E S : Reduces(c, names, e, dnames, relink, W \ {g}, S, rank, ra)
<1>1. IsReduction(c, d, link, W, rank) /\ Computes(c, names, d, dnames, link, W, T) /\ LinksKnown(c, link, W, ra)
  BY DEF Reduces
<1>2. Len(c.gates) \in Nat /\ LiveGates(c) \subseteq GateIds(c)
  <2>1. c.gates \in Seq(GateInfos(Len(c.gates)))
    BY DEF WellFormed, IdsInRange
  <2>. QED
    BY <2>1, WellFormedFacts DEF LiveGates
<1>4. IsReduction(c, e, relink, W \ {g}, rank)
  <2>1. CanLink(link, W, rank, g, t)
    BY DEF CanLink
  <2>. QED
    BY <1>1, <1>2, <2>1, ReductionVisits
<1>5. T \subseteq GateIds(d) \ W
  BY <1>1 DEF Computes, Carries
<1>6. /\ GateIds(e) = GateIds(d) /\ g \in GateIds(d) /\ g # 0 /\ AgreeOn(T, d, dnames, e, dnames)
      /\ \A h \in DOMAIN link : h # g => relink[h] = link[h] /\ Target(relink, h) = Target(link, h)
      /\ relink[g] = t /\ Target(relink, g) = IF t # 0 THEN t ELSE g
      /\ GateIds(c) \subseteq DOMAIN link /\ Len(relink) = Len(link)
  <2>1. StaysBut(c, d, dnames, e, link, relink, T, g, t)
    BY <1>1, <1>2, <1>5, VisitStays
  <2>. QED
    BY <2>1 DEF StaysBut
<1>7. Target(relink, g) = g /\ (ra[g] = StUndef => relink[g] # 0)
  BY <1>6
<1>8. \A h \in LiveGates(c) \ W : Target(relink, h) = Target(link, h)
  BY <1>2, <1>6
<1>3. GateIds(d) \subseteq GateIds(e) /\ g \in GateIds(e)
  BY <1>6
<1>9. \E S : Computes(c, names, e, dnames, relink, W \ {g}, S)
  <2>1. CASE g \in LiveGates(c)
    <3>1. /\ GateFits(c, names, e, dnames, T, g)
          /\ \A values \in Values(c, names) : \A val :
                Represents(c, names, d, dnames, link, W, T, values, val) =>
                    ValueIn(e, dnames, values, val, g) = StatesFor(c, names, values)[g]
      BY <2>1 DEF KeepsStates
    <3>2. Computes(c, names, e, dnames, relink, W \ {g}, T \cup {g})
      BY <1>1, <1>3, <1>6, <1>7, <1>8, <3>1, ComputesKept
    <3>. QED
      BY <3>2
  <2>2. CASE g \notin LiveGates(c)
    <3>1. Computes(c, names, e, dnames, relink, W \ {g}, T)
      BY <1>1, <1>3, <1>6, <1>8, <2>2, ComputesLinked
    <3>. QED
      BY <3>1
  <2>. QED
    BY <2>1, <2>2
<1>10. LinksKnown(c, relink, W \ {g}, ra)
  BY <1>1, <1>2, <1>6, <1>7, VisitKnown
<1>. QED
  BY <1>4, <1>9, <1>10 DEF Reduces

(* A gate built over gates of T has its type and their order of operands,   *)
(* or another one of which the type makes no difference, ...                *)
IsMade(e, g, T, type, ops) ==
    /\ Type(e, g) = type /\ type # "INPUT"
    /\ Operands(e, g) \in Seq(T) /\ Len(Operands(e, g)) = Len(ops)
    /\ Operands(e, g) = GateInfo(type, ops).operands /\ ops \in [1 .. Len(ops) -> Nat]

(* A gate that is made over gates of T has these operands, in the order     *)
(* GateInfo gives them.                                                     *)
LEMMA GateMade ==
    ASSUME NEW e, NEW T, T \subseteq Nat, NEW g,
           NEW type \in OperatorTypes, NEW ops, ops \in Seq(T), e.gates[g] = GateInfo(type, ops)
    PROVE  IsMade(e, g, T, type, ops)
<1>1. Len(ops) \in Nat /\ DOMAIN ops = 1 .. Len(ops) /\ \A i \in DOMAIN ops : ops[i] \in T
  OBVIOUS
<1>2. ops \in [1 .. Len(ops) -> Nat]
  <2>1. \A i \in 1 .. Len(ops) : ops[i] \in Nat
    BY <1>1
  <2>2. ops = [i \in 1 .. Len(ops) |-> ops[i]]
    BY <1>1
  <2>. QED
    BY <2>1, <2>2
<1>3. ops \in Seq(Nat)
  BY <1>1, <1>2, FunctionIsSequence
<1>4. GateInfo(type, ops).type = type /\ IsReordering(GateInfo(type, ops).operands, ops, Len(ops), type)
  BY <1>1, <1>2, <1>3, InfoFacts
<1>5. PICK q : q = GateInfo(type, ops).operands
  OBVIOUS
<1>6. IsReordering(q, ops, Len(ops), type)
  BY <1>4, <1>5
<1>7. PICK p : IsPermutation(p, Len(ops)) /\ q = [i \in 1 .. Len(ops) |-> ops[p[i]]]
  BY <1>6, ZenonT(60) DEF IsReordering
<1>8. \A i \in 1 .. Len(ops) : p[i] \in 1 .. Len(ops)
  BY <1>7 DEF IsPermutation
<1>9. \A i \in 1 .. Len(ops) : q[i] \in T
  BY <1>1, <1>7, <1>8
<1>10. q \in [1 .. Len(ops) -> T]
  BY <1>7, <1>9
<1>11. q \in Seq(T) /\ Len(q) = Len(ops)
  BY <1>1, <1>10, FunctionIsSequence
<1>12. type # "INPUT"
  BY DEF OperatorTypes, FoldTypes
<1>13. Type(e, g) = type /\ Operands(e, g) = q
  BY <1>4, <1>5 DEF Type, Operands
<1>. QED
  BY <1>2, <1>5, <1>11, <1>12, <1>13 DEF IsMade

(* ... can be evaluated ...                                                 *)
LEMMA GateMadeFits ==
    ASSUME NEW c, NEW names, NEW e, NEW enames, NEW T, T \subseteq Nat, NEW g,
           NEW type \in OperatorTypes, NEW ops, ops \in Seq(T), ArityOk(type, Len(ops)),
           e.gates[g] = GateInfo(type, ops)
    PROVE  GateFits(c, names, e, enames, T, g)
<1>1. /\ Type(e, g) = type /\ type # "INPUT"
      /\ Operands(e, g) \in Seq(T) /\ Len(Operands(e, g)) = Len(ops)
  <2>1. IsMade(e, g, T, type, ops)
    BY GateMade
  <2>. QED
    BY <2>1 DEF IsMade
<1>2. PICK q : q = Operands(e, g)
  OBVIOUS
<1>3. q \in Seq(T) /\ Len(q) = Len(ops)
  BY <1>1, <1>2
<1>4. q \in Seq(Nat) /\ {q[i] : i \in DOMAIN q} \subseteq T
  <2>1. Len(q) \in Nat /\ DOMAIN q = 1 .. Len(q) /\ \A i \in 1 .. Len(q) : q[i] \in T
    BY <1>3
  <2>2. q = [i \in 1 .. Len(q) |-> q[i]]
    BY <1>3
  <2>3. q \in [1 .. Len(q) -> Nat]
    BY <2>1, <2>2
  <2>. QED
    BY <2>1, <2>3, FunctionIsSequence
<1>5. OperandSet(e, g) \subseteq T /\ Operands(e, g) \in Seq(Nat)
  BY <1>2, <1>4 DEF OperandSet
<1>6. ArityOk(Type(e, g), Len(Operands(e, g)))
  BY <1>1
<1>. QED
  BY <1>1, <1>5, <1>6 DEF GateFits

(* ... and computes what its type does of the operands it was given.        *)
GateComputes(e, enames, T, g, type, ops) ==
    \A values, val : (\A k \in T : val[k] \in Bits) =>
        ValueIn(e, enames, values, val, g) = Operator(type, OperandValues(ops, val))

(* It has the state that its operator gives, the order notwithstanding.     *)
LEMMA GateMadeComputes ==
    ASSUME NEW e, NEW enames, NEW T, T \subseteq Nat, NEW g,
           NEW type \in OperatorTypes, NEW ops, ops \in Seq(T), ArityOk(type, Len(ops)),
           e.gates[g] = GateInfo(type, ops)
    PROVE  GateComputes(e, enames, T, g, type, ops)
<1>1. /\ Type(e, g) = type /\ type # "INPUT"
      /\ Operands(e, g) = GateInfo(type, ops).operands /\ ops \in [1 .. Len(ops) -> Nat]
  <2>1. IsMade(e, g, T, type, ops)
    BY GateMade
  <2>. QED
    BY <2>1 DEF IsMade
<1>2. Len(ops) \in Nat /\ DOMAIN ops = 1 .. Len(ops) /\ \A i \in DOMAIN ops : ops[i] \in T
  OBVIOUS
<1>3. ops \in Seq(Nat)
  BY <1>1, <1>2, FunctionIsSequence
<1>4. SUFFICES ASSUME NEW values, NEW val, \A k \in T : val[k] \in Bits
               PROVE  ValueIn(e, enames, values, val, g) = Operator(type, OperandValues(ops, val))
  BY DEF GateComputes
<1>5. \A i \in DOMAIN ops : val[ops[i]] \in GateStates
  BY <1>2, <1>4 DEF Bits, GateStates
<1>6. Operator(type, OperandValues(GateInfo(type, ops).operands, val)) = Operator(type, OperandValues(ops, val))
  BY <1>1, <1>2, <1>3, <1>5, InfoComputes
<1>. QED
  BY <1>1, <1>6 DEF ValueIn

(* An input stays one that can be evaluated, under its name.                *)
LEMMA InputMade ==
    ASSUME NEW c, NEW names, NEW e, NEW enames, NEW T, NEW g, g \in InputGates(c),
           e.gates[g] = GateInfo("INPUT", <<>>), enames[g] = names[g]
    PROVE  GateFits(c, names, e, enames, T, g)
<1>1. Operands(e, g) = <<>> /\ Type(e, g) = "INPUT"
  <2>1. GateInfo("INPUT", <<>>).operands = <<>>
    BY NoOperandsMade
  <2>2. GateInfo("INPUT", <<>>).type = "INPUT"
    BY DEF GateInfo
  <2>. QED
    BY <2>1, <2>2 DEF Operands, Type
<1>2. OperandSet(e, g) = {} /\ Operands(e, g) \in Seq(Nat) /\ Len(Operands(e, g)) = 0
  BY <1>1 DEF OperandSet
<1>3. ArityOk("INPUT", 0)
  BY DEF ArityOk, FoldTypes
<1>4. enames[g] \in InputNames(c, names)
  BY DEF InputNames
<1>. QED
  BY <1>1, <1>2, <1>3, <1>4 DEF GateFits

(* Gates that are added without being referred to make no difference.       *)
LEMMA ComputesStays ==
    ASSUME NEW c, NEW names, NEW d, NEW dnames, NEW link, NEW W, NEW T,
           Computes(c, names, d, dnames, link, W, T),
           NEW e, NEW enames, AgreeOn(T, d, dnames, e, enames), GateIds(d) \subseteq GateIds(e),
           NEW relink, \A h \in LiveGates(c) \ W : Target(relink, h) = Target(link, h)
    PROVE  Computes(c, names, e, enames, relink, W, T)
<1>1. Carries(c, d, link, W, T)
  BY DEF Computes
<1>2. IsClosed(d, T) /\ \A o \in T : ArityOk(Type(d, o), Len(Operands(d, o)))
  BY <1>1 DEF Carries
<1>3. IsClosed(e, T) /\ \A o \in T : ArityOk(Type(e, o), Len(Operands(e, o)))
  BY <1>2, AgreedGates
<1>4. Carries(c, e, relink, W, T)
  BY <1>1, <1>3 DEF Carries
<1>5. ASSUME NEW values \in Values(c, names)
      PROVE  \E val : Represents(c, names, e, enames, relink, W, T, values, val)
  <2>1. PICK val : Represents(c, names, d, dnames, link, W, T, values, val)
    BY DEF Computes
  <2>2. Solves(e, enames, values, T, val) /\ \A o \in T : val[o] \in Bits
    BY <2>1, AgreedSolutions DEF Represents
  <2>3. \A h \in LiveGates(c) \ W : val[Target(relink, h)] = StatesFor(c, names, values)[h]
    BY <2>1 DEF Represents
  <2>4. Represents(c, names, e, enames, relink, W, T, values, val)
    BY <2>2, <2>3 DEF Represents
  <2>. QED
    BY <2>4
<1>. QED
  BY <1>4, <1>5 DEF Computes

(* The gates that are there when one more is added.                         *)
IsAddition(d, dnames, e, enames, type, ops) ==
    /\ type \in OperatorTypes /\ type # "MUX" /\ ops \in Seq(GateIds(d))
    /\ e.gates = Append(d.gates, GateInfo(type, ops))
    /\ \A k \in GateIds(d) : enames[k] = dnames[k]

(* A gate is added above its operands; nothing refers to it yet.            *)
LEMMA AddGate ==
    ASSUME NEW c, WellFormed(c), NEW names, NEW d, NEW dnames, NEW link, NEW W, NEW T, NEW rank, NEW ra,
           Reduces(c, names, d, dnames, link, W, T, rank, ra),
           NEW type, NEW ops, NEW e, NEW enames, IsAddition(d, dnames, e, enames, type, ops),
           NEW r \in Nat, \A i \in DOMAIN ops : rank[ops[i]] < r,
           NEW new, new = Len(d.gates) + 1
    PROVE  /\ Reduces(c, names, e, enames, link, W, T, RankAdded(rank, new, r), ra)
           /\ ops \in Seq(T) /\ ArityOk(type, Len(ops)) =>
                 Reduces(c, names, e, enames, link, W, T \cup {new}, RankAdded(rank, new, r), ra)
<1>1. IsReduction(c, d, link, W, rank) /\ Computes(c, names, d, dnames, link, W, T) /\ LinksKnown(c, link, W, ra)
  BY DEF Reduces
<1>2. /\ type \in OperatorTypes /\ type # "MUX" /\ ops \in Seq(GateIds(d))
      /\ e.gates = Append(d.gates, GateInfo(type, ops))
      /\ \A k \in GateIds(d) : enames[k] = dnames[k]
  BY DEF IsAddition
<1>3. OperandsInside(c)
  BY WellFormedFacts
<1>4. IsReduction(c, e, link, W, RankAdded(rank, new, r))
  BY <1>1, <1>2, <1>3, ReductionAppends
<1>5. IsAppended(d, e, new, type, ops)
  <2>1. d.gates \in Seq(GateInfos(Len(d.gates)))
    BY <1>1 DEF IsReduction
  <2>. QED
    BY <1>2, <2>1, AppendedGates
<1>6. T \subseteq GateIds(d) \ W
  BY <1>1 DEF Computes, Carries
<1>7. AgreeOn(T, d, dnames, e, enames) /\ GateIds(d) \subseteq GateIds(e)
  BY <1>2, <1>5, <1>6 DEF AgreeOn, IsAppended
<1>8. Computes(c, names, e, enames, link, W, T)
  BY <1>1, <1>7, ComputesStays
<1>9. ASSUME ops \in Seq(T), ArityOk(type, Len(ops))
      PROVE  Computes(c, names, e, enames, link, W, T \cup {new})
  <2>1. T \subseteq Nat
    BY <1>6 DEF GateIds
  <2>4. e.gates[new] = GateInfo(type, ops)
    BY <1>5 DEF IsAppended
  <2>2. GateFits(c, names, e, enames, T, new)
    BY <1>2, <1>9, <2>1, <2>4, GateMadeFits
  <2>3. new \in GateIds(e) \ W /\ new \notin T
    <3>1. W \subseteq GateIds(d)
      BY <1>1 DEF IsReduction, GateIds
    <3>2. new \in GateIds(e) /\ new \notin GateIds(d)
      BY <1>5 DEF IsAppended
    <3>. QED
      BY <1>6, <3>1, <3>2
  <2>. QED
    BY <1>1, <1>7, <2>2, <2>3, ComputesMore
<1>. QED
  BY <1>1, <1>4, <1>8, <1>9 DEF Reduces

(* Its state, and that all other states stay.                               *)
AddedIs(c, names, d, dnames, link, W, T, type, ops, new, values, val) ==
    /\ Represents(c, names, d, dnames, link, W, T, values, val)
    /\ val[new] = Operator(type, OperandValues(ops, val))

(* In every solution an added gate has the state that its operator gives,   *)
(* and the rest is a solution without it.                                   *)
LEMMA AddedState ==
    ASSUME NEW c, NEW names, NEW d, NEW dnames, NEW link, NEW W, NEW T, NEW rank,
           IsReduction(c, d, link, W, rank), Carries(c, d, link, W, T),
           NEW type, NEW ops, NEW e, NEW enames, IsAddition(d, dnames, e, enames, type, ops),
           ops \in Seq(T), ArityOk(type, Len(ops)), NEW new, new = Len(d.gates) + 1,
           NEW values, NEW val, Represents(c, names, e, enames, link, W, T \cup {new}, values, val)
    PROVE  AddedIs(c, names, d, dnames, link, W, T, type, ops, new, values, val)
<1>2. /\ type \in OperatorTypes /\ type # "MUX" /\ ops \in Seq(GateIds(d))
      /\ e.gates = Append(d.gates, GateInfo(type, ops))
      /\ \A k \in GateIds(d) : enames[k] = dnames[k]
  BY DEF IsAddition
<1>5. IsAppended(d, e, new, type, ops)
  <2>1. d.gates \in Seq(GateInfos(Len(d.gates)))
    BY DEF IsReduction
  <2>. QED
    BY <1>2, <2>1, AppendedGates
<1>6. T \subseteq GateIds(d) \ W
  BY DEF Carries
<1>7. AgreeOn(T, d, dnames, e, enames)
  BY <1>2, <1>5, <1>6 DEF AgreeOn, IsAppended
<1>8. Represents(c, names, d, dnames, link, W, T, values, val)
  <2>1. T \subseteq T \cup {new} /\ W \in SUBSET W
    OBVIOUS
  <2>. QED
    BY <1>7, <2>1, RepresentsLess
<1>9. val[new] = ValueIn(e, enames, values, val, new)
  BY SolvesIs DEF Represents
<1>10. T \subseteq Nat
  BY <1>6 DEF GateIds
<1>11. \A k \in T : val[k] \in Bits
  BY DEF Represents
<1>12. e.gates[new] = GateInfo(type, ops)
  BY <1>5 DEF IsAppended
<1>13. GateComputes(e, enames, T, new, type, ops)
  BY <1>2, <1>10, <1>12, GateMadeComputes
<1>14. ValueIn(e, enames, values, val, new) = Operator(type, OperandValues(ops, val))
  BY <1>11, <1>13 DEF GateComputes
<1>. QED
  BY <1>8, <1>9, <1>14 DEF AddedIs

(* A gate that has been added becomes one that others can be linked to.     *)
IsLinkAdded(c, names, d, dnames, longer, W, T, rank, more, new) ==
    /\ Reduces(c, names, d, dnames, longer, W, T, rank, more)
    /\ IsTarget(new, longer, W) /\ more[new] = StUndef

(* An added gate is linked to itself, and nothing is known of it.           *)
LEMMA LinkAdded ==
    ASSUME NEW c, WellFormed(c), NEW names, NEW d, NEW dnames, NEW link, NEW W, NEW T, NEW rank, NEW ra,
           Reduces(c, names, d, dnames, link, W, T, rank, ra),
           Len(link) < Len(d.gates), NEW new, new = Len(link) + 1,
           NEW longer, longer = Append(link, new), NEW more, more = Append(ra, StUndef)
    PROVE  IsLinkAdded(c, names, d, dnames, longer, W, T, rank, more, new)
<1>1. IsReduction(c, d, link, W, rank) /\ Computes(c, names, d, dnames, link, W, T) /\ LinksKnown(c, link, W, ra)
  BY DEF Reduces
<1>2. Len(c.gates) \in Nat /\ LiveGates(c) \subseteq GateIds(c)
  BY WellFormedFacts DEF WellFormed, IdsInRange, LiveGates
<1>3. IsReduction(c, d, longer, W, rank) /\ IsTarget(new, longer, W)
  BY <1>1, <1>2, LinkAppended
<1>4. /\ link \in Seq(0 .. Len(d.gates)) /\ Len(d.gates) \in Nat /\ Len(c.gates) <= Len(link)
      /\ LinksSettled(link, W, rank)
  BY <1>1 DEF IsReduction
<1>5. GateIds(c) \subseteq DOMAIN link /\ DOMAIN link = 1 .. Len(link) /\ Len(link) \in Nat
  BY <1>2, <1>4 DEF GateIds
<1>6. \A h \in DOMAIN link : longer[h] = link[h] /\ Target(longer, h) = Target(link, h)
  BY <1>4 DEF Target
<1>7. \A h \in LiveGates(c) \ W : Target(longer, h) = Target(link, h)
  BY <1>2, <1>5, <1>6
<1>8. Computes(c, names, d, dnames, longer, W, T)
  <2>1. AgreeOn(T, d, dnames, d, dnames) /\ GateIds(d) \subseteq GateIds(d)
    BY DEF AgreeOn
  <2>. QED
    BY <1>1, <1>7, <2>1, ComputesStays
<1>9. /\ ra \in Seq(GateStates) /\ Len(ra) = Len(link)
      /\ \A g \in GateIds(c) : ra[g] = IF g \in LiveGates(c) THEN Known(c)[g] ELSE StUndef
      /\ \A g \in GateIds(c) \ W : ra[g] = StUndef => link[g] # 0
      /\ \A g \in LiveGates(c) \ W : ra[Target(link, g)] = ra[g]
  BY <1>1 DEF LinksKnown
<1>10. StUndef \in GateStates
  BY DEF GateStates
<1>11. /\ more \in Seq(GateStates) /\ Len(more) = Len(longer)
       /\ \A k \in 1 .. Len(link) : more[k] = ra[k]
       /\ more[new] = StUndef
  BY <1>4, <1>9, <1>10
<1>12. \A g \in LiveGates(c) \ W : more[Target(longer, g)] = more[g]
  <2> SUFFICES ASSUME NEW g \in LiveGates(c) \ W PROVE more[Target(longer, g)] = more[g]
    OBVIOUS
  <2>1. g \in DOMAIN link \ W
    BY <1>2, <1>5
  <2>2. Target(link, g) \in DOMAIN link
    BY <1>4, <2>1 DEF LinksSettled, IsTarget
  <2>. QED
    BY <1>5, <1>7, <1>9, <1>11, <2>1, <2>2
<1>13. \A g \in GateIds(c) : more[g] = IF g \in LiveGates(c) THEN Known(c)[g] ELSE StUndef
  BY <1>5, <1>9, <1>11
<1>14. \A g \in GateIds(c) \ W : more[g] = StUndef => longer[g] # 0
  BY <1>5, <1>6, <1>9, <1>11
<1>15. LinksKnown(c, longer, W, more)
  BY <1>11, <1>12, <1>13, <1>14 DEF LinksKnown
<1>. QED
  BY <1>3, <1>8, <1>11, <1>15 DEF Reduces, IsLinkAdded

------------------------------------------------------------------------------
(* What a gate is rebuilt as: with the operands of which nothing is known,  *)
(* and of the type that makes up for the others.                            *)
StayingOf(links, ra) == Selected(links, {i \in DOMAIN links : ra[links[i]] = StUndef})

(* The type of the gate that is left when operands that are known are       *)
(* dropped.                                                                 *)
TypeOver(type, links, ra) == ParityType(type, [i \in DOMAIN links |-> ra[links[i]]], Len(links))

(* The gate that is visited next, with its operands' links followed.        *)
Serves(c, names, d, dnames, link, W, T, rank, ra, g, links) ==
    /\ Reduces(c, names, d, dnames, link, W, T, rank, ra)
    /\ g \in W /\ \A o \in OperandSet(c, g) : o \notin W
    /\ links = LinksOf(c, link, g)

(* It can be rebuilt so.                                                    *)
LEMMA CanBuildStaying ==
    ASSUME NEW c, WellFormed(c), Usable(c), NEW names, NEW d, NEW dnames, NEW link, NEW W, NEW T,
           NEW rank, NEW ra, NEW g, NEW links,
           Serves(c, names, d, dnames, link, W, T, rank, ra, g, links), Type(c, g) # "MUX"
    PROVE  CanBuild(c, d, rank, g, TypeOver(Type(c, g), links, ra), StayingOf(links, ra))
<1> DEFINE U == {i \in DOMAIN links : ra[links[i]] = StUndef}
           x == [i \in DOMAIN links |-> ra[links[i]]]
           type == ParityType(Type(c, g), x, Len(links))
<1>1. /\ IsReduction(c, d, link, W, rank) /\ g \in W /\ \A o \in OperandSet(c, g) : o \notin W
      /\ links = LinksOf(c, link, g)
  BY DEF Serves, Reduces
<1>2. g \in GateIds(c)
  BY <1>1 DEF IsReduction
<1>3. /\ links \in Seq(GateIds(d)) /\ Len(links) = Len(Operands(c, g))
      /\ \A i \in DOMAIN links : rank[links[i]] < rank[g]
  BY <1>1, <1>2, LinkedOperands
<1>4. U \in SUBSET (1 .. Len(links))
  BY <1>3
<1>5. Selected(links, U) \in Seq(GateIds(d)) /\ IsSelection(Selected(links, U), links, Len(links), U)
  BY <1>3, <1>4, SelectedFacts
<1>6. \A i \in DOMAIN Selected(links, U) : rank[Selected(links, U)[i]] < rank[g]
  <2>1. \A i \in 1 .. Len(Selected(links, U)) : \E k \in U : Selected(links, U)[i] = links[k]
    BY <1>5 DEF IsSelection
  <2>2. DOMAIN Selected(links, U) = 1 .. Len(Selected(links, U))
    BY <1>5
  <2>. QED
    BY <1>3, <2>1, <2>2
<1>7. /\ Type(c, g) \in OperatorTypes \cup {"INPUT"}
      /\ Type(c, g) = "INPUT" => Operands(c, g) = <<>>
  BY <1>2 DEF Usable, IsUsable, Type, Operands
<1>8. /\ type = "MUX" <=> Type(c, g) = "MUX"
      /\ type = "INPUT" <=> Type(c, g) = "INPUT"
      /\ Type(c, g) \in OperatorTypes => type \in OperatorTypes
  BY ParityTypes
<1>9. Type(c, g) = "INPUT" => Selected(links, U) = <<>>
  <2> SUFFICES ASSUME Type(c, g) = "INPUT" PROVE Selected(links, U) = <<>>
    OBVIOUS
  <2>1. Len(links) = 0
    BY <1>3, <1>7
  <2>. QED
    BY <1>3, <1>4, <2>1, SelectedNone
<1>10. CanBuild(c, d, rank, g, type, Selected(links, U))
  BY <1>5, <1>6, <1>7, <1>8, <1>9 DEF CanBuild
<1>. QED
  BY <1>10 DEF StayingOf, TypeOver

(* What comes of a gate that is rebuilt: it is one of its operands, the     *)
(* negation of one, or the gate over them has its state b.                  *)
LeftWith(type, ops, val, b) ==
    IF Len(ops) = 1 /\ type \in {"AND", "OR", "XOR", "IFF"} THEN b = val[ops[1]]
    ELSE IF Len(ops) = 1 /\ type \in {"NAND", "NOR", "NXOR"} THEN b = NOT(val[ops[1]])
    ELSE ArityOk(type, Len(ops)) /\ Operator(type, OperandValues(ops, val)) = b

(* What g is rebuilt as has the state of g in every solution.               *)
ComputesGate(c, names, d, dnames, link, W, T, g, type, ops) ==
    /\ ops \in Seq(T)
    /\ \A values \in Values(c, names) : \A val :
          Represents(c, names, d, dnames, link, W, T, values, val) =>
              LeftWith(type, ops, val, StatesFor(c, names, values)[g])

(* It stands for a gate that outputs need, of which nothing is known or     *)
(* that is a constant.                                                      *)
LEMMA StayingStands ==
    ASSUME NEW c, WellFormed(c), NEW names, NEW d, NEW dnames, NEW link, NEW W, NEW T,
           NEW rank, NEW ra, NEW g \in LiveGates(c), NEW links,
           Serves(c, names, d, dnames, link, W, T, rank, ra, g, links),
           Type(c, g) \notin {"MUX", "INPUT"},
           ra[g] = StUndef \/ Type(c, g) \in {"CONST_TRUE", "CONST_FALSE"}
    PROVE  ComputesGate(c, names, d, dnames, link, W, T, g,
                     TypeOver(Type(c, g), links, ra), StayingOf(links, ra))
<1> DEFINE n == Len(links)
           U == {i \in DOMAIN links : ra[links[i]] = StUndef}
           x == [i \in DOMAIN links |-> ra[links[i]]]
           type == ParityType(Type(c, g), x, n)
           ops == Selected(links, U)
<1>1. /\ Carries(c, d, link, W, T) /\ LinksKnown(c, link, W, ra)
      /\ \A o \in OperandSet(c, g) : o \notin W
      /\ links = LinksOf(c, link, g)
  BY DEF Serves, Reduces, Computes
<1>2. /\ links \in Seq(T) /\ DOMAIN links = 1 .. Len(Operands(c, g)) /\ n = Len(Operands(c, g))
      /\ \A i \in DOMAIN links : ra[links[i]] = Known(c)[Operands(c, g)[i]]
  BY <1>1, LinkedLive
<1>3. x = OperandValues(Operands(c, g), Known(c))
  <2>1. DOMAIN Operands(c, g) = DOMAIN links
    BY <1>1 DEF LinksOf
  <2>. QED
    BY <1>2, <2>1 DEF OperandValues
<1>4. g \in GateIds(c) /\ ra[g] = Known(c)[g] /\ ArityOk(Type(c, g), n) /\ Type(c, g) \in OperatorTypes
  <2>1. LiveGates(c) \subseteq GateIds(c)
    BY WellFormedFacts DEF LiveGates
  <2>2. ra[g] = Known(c)[g]
    BY <1>1, <2>1 DEF LinksKnown
  <2>3. ArityOk(Type(c, g), n)
    BY <1>2 DEF WellFormed, LiveGates
  <2>4. Type(c, g) \in OperatorTypes
    BY <2>3 DEF ArityOk, OperatorTypes
  <2>. QED
    BY <2>1, <2>2, <2>3, <2>4
<1>5. Operator(Type(c, g), x) = StUndef \/ Type(c, g) \in {"CONST_TRUE", "CONST_FALSE"}
  BY <1>3, <1>4, KnownEquation
<1>6. U = {i \in 1 .. n : x[i] = StUndef} /\ n \in Nat
  BY <1>2
<1>7. ASSUME NEW values \in Values(c, names), NEW val,
             Represents(c, names, d, dnames, link, W, T, values, val)
      PROVE  ops \in Seq(T) /\ LeftWith(type, ops, val, StatesFor(c, names, values)[g])
  <2>1. StatesLinked(c, names, links, values, val, g)
    <3> HIDE DEF n, U, x, type, ops
    <3>. QED
      BY <1>1, <1>7, LinkedStates
  <2>2. IsKnownOf(x, links, val, n)
    BY <1>2, <1>3, <2>1 DEF StatesLinked
  <2>3. ops \in Seq(T) /\ Rebuilds(Type(c, g), OperandValues(links, val), type, ops, val)
    <3> HIDE DEF n, U, x, type, ops
    <3>1. ops = Selected(links, U) /\ n = Len(links) /\ type = ParityType(Type(c, g), x, n)
      BY DEF ops, n, type
    <3>. QED
      BY <1>2, <1>4, <1>5, <1>6, <2>2, <3>1, GateRebuilds
  <2>. QED
    BY <2>1, <2>3 DEF Rebuilds, LeftWith, StatesLinked
<1>8. ops \in Seq(T)
  <2>1. U \in SUBSET (1 .. Len(links))
    BY <1>2
  <2>. QED
    BY <1>2, <2>1, SelectedFacts
<1>9. ComputesGate(c, names, d, dnames, link, W, T, g, type, ops)
  BY <1>7, <1>8 DEF ComputesGate
<1>. QED
  BY <1>9 DEF TypeOver, StayingOf

(* The only operand that stays.                                             *)
LEMMA OneStays ==
    ASSUME NEW c, WellFormed(c), NEW names, NEW d, NEW dnames, NEW link, NEW W, NEW T,
           NEW rank, NEW ra, NEW g, NEW links,
           Serves(c, names, d, dnames, link, W, T, rank, ra, g, links),
           NEW ops, ops = StayingOf(links, ra), Len(ops) = 1
    PROVE  /\ ops[1] \in GateIds(d) /\ IsTarget(ops[1], link, W) /\ rank[ops[1]] < rank[g]
           /\ ra[ops[1]] = StUndef /\ ops = <<ops[1]>>
<1> DEFINE U == {i \in DOMAIN links : ra[links[i]] = StUndef}
<1>1. /\ IsReduction(c, d, link, W, rank) /\ g \in W /\ \A o \in OperandSet(c, g) : o \notin W
      /\ links = LinksOf(c, link, g)
  BY DEF Serves, Reduces
<1>2. g \in GateIds(c)
  BY <1>1 DEF IsReduction
<1>3. /\ links \in Seq(GateIds(d)) /\ DOMAIN links = 1 .. Len(links)
      /\ \A i \in DOMAIN links : IsTarget(links[i], link, W) /\ rank[links[i]] < rank[g]
  BY <1>1, <1>2, LinkedOperands
<1>4. ops = Selected(links, U) /\ U \in SUBSET (1 .. Len(links))
  BY <1>3 DEF StayingOf
<1>5. ops \in Seq(GateIds(d)) /\ IsSelection(ops, links, Len(links), U)
  BY <1>3, <1>4, SelectedFacts
<1>6. \E k \in U : ops[1] = links[k]
  BY <1>5 DEF IsSelection
<1>7. PICK k \in U : ops[1] = links[k]
  BY <1>6
<1>8. ops = <<ops[1]>> /\ ops[1] \in GateIds(d)
  BY <1>5
<1>. QED
  BY <1>3, <1>7, <1>8

(* Of a gate that outputs need and that stands for something, the states.   *)
LEMMA OperandHasStates ==
    ASSUME NEW c, WellFormed(c), NEW names, NEW d, NEW dnames, NEW link, NEW W, NEW T,
           NEW rank, NEW ra, NEW g, NEW links,
           Serves(c, names, d, dnames, link, W, T, rank, ra, g, links),
           Type(c, g) \notin {"MUX", "INPUT"}, ra[g] = StUndef,
           NEW type, type = TypeOver(Type(c, g), links, ra),
           NEW ops, ops = StayingOf(links, ra), Len(ops) = 1,
           type \in {"AND", "OR", "XOR", "IFF"}
    PROVE  HasStates(c, names, d, dnames, link, W, T, ra, g, ops[1])
<1> SUFFICES ASSUME g \in LiveGates(c)
             PROVE  /\ ops[1] \in T /\ ra[ops[1]] = ra[g]
                    /\ \A values \in Values(c, names) : \A val :
                          Represents(c, names, d, dnames, link, W, T, values, val) =>
                              val[ops[1]] = StatesFor(c, names, values)[g]
  BY DEF HasStates
<1>1. ra[ops[1]] = StUndef
  BY OneStays
<1>2. ComputesGate(c, names, d, dnames, link, W, T, g, type, ops)
  BY StayingStands
<1>3. ops[1] \in T
  BY <1>2 DEF ComputesGate
<1>4. \A values \in Values(c, names) : \A val :
         Represents(c, names, d, dnames, link, W, T, values, val) =>
             LeftWith(type, ops, val, StatesFor(c, names, values)[g])
  BY <1>2 DEF ComputesGate
<1>5. \A val, b : LeftWith(type, ops, val, b) => val[ops[1]] = b
  BY DEF LeftWith
<1>. QED
  BY <1>1, <1>3, <1>4, <1>5

(* Its users are referred to the operand.                                   *)
LEMMA VisitToOperand ==
    ASSUME NEW c, WellFormed(c), Usable(c), NEW names, NEW d, NEW dnames, NEW link, NEW W, NEW T,
           NEW rank, NEW ra, NEW g, NEW links,
           Serves(c, names, d, dnames, link, W, T, rank, ra, g, links),
           ra[g] = StUndef \/ Type(c, g) \in {"CONST_TRUE", "CONST_FALSE"},
           NEW type, type = TypeOver(Type(c, g), links, ra),
           NEW ops, ops = StayingOf(links, ra), Len(ops) = 1,
           type \in {"AND", "OR", "XOR", "IFF"},
           NEW e, NEW relink, IsVisited(d, e, link, relink, g, type, ops, ops[1])
    PROVE  Reduces(c, names, e, dnames, relink, W \ {g}, T, rank, ra)
<1>1. Type(c, g) \notin {"MUX", "INPUT"} /\ ra[g] = StUndef
  BY ParityTypes DEF TypeOver, ParityType
<1>2. CanBuild(c, d, rank, g, type, ops)
  BY <1>1, CanBuildStaying
<1>3. IsTarget(ops[1], link, W) /\ rank[ops[1]] < rank[g] /\ ops[1] \in GateIds(d)
  BY OneStays
<1>4. rank[ops[1]] <= rank[g]
  <2>1. IsRanking(c, rank) /\ IsRanking(d, rank) /\ W \subseteq GateIds(c)
    BY DEF Serves, Reduces, IsReduction
  <2>2. rank[ops[1]] \in Nat /\ rank[g] \in Nat
    BY <1>3, <2>1 DEF IsRanking, Serves
  <2>. QED
    BY <1>3, <2>2
<1>5. HasStates(c, names, d, dnames, link, W, T, ra, g, ops[1])
  BY <1>1, OperandHasStates
<1>6. Reduces(c, names, d, dnames, link, W, T, rank, ra) /\ g \in W
  BY DEF Serves
<1>. QED
  BY <1>2, <1>3, <1>4, <1>5, <1>6, VisitLinked

(* A gate that is rebuilt with the same states.                             *)
LEMMA BuiltKeepsStates ==
    ASSUME NEW c, WellFormed(c), NEW names, NEW d, NEW dnames, NEW link, NEW W, NEW T,
           Computes(c, names, d, dnames, link, W, T),
           NEW g, NEW type \in OperatorTypes, NEW ops,
           NEW e, e.gates[g] = GateInfo(type, ops),
           g \in LiveGates(c) =>
              /\ ops \in Seq(T) /\ ArityOk(type, Len(ops))
              /\ \A values \in Values(c, names) : \A val :
                    Represents(c, names, d, dnames, link, W, T, values, val) =>
                        Operator(type, OperandValues(ops, val)) = StatesFor(c, names, values)[g]
    PROVE  KeepsStates(c, names, d, e, dnames, link, W, T, g)
<1> SUFFICES ASSUME g \in LiveGates(c)
             PROVE  /\ GateFits(c, names, e, dnames, T, g)
                    /\ \A values \in Values(c, names) : \A val :
                          Represents(c, names, d, dnames, link, W, T, values, val) =>
                              ValueIn(e, dnames, values, val, g) = StatesFor(c, names, values)[g]
  BY DEF KeepsStates
<1>1. T \subseteq Nat
  BY DEF Computes, Carries, GateIds
<1>2. ops \in Seq(T) /\ ArityOk(type, Len(ops))
  OBVIOUS
<1>3. GateFits(c, names, e, dnames, T, g)
  BY <1>1, <1>2, GateMadeFits
<1>4. GateComputes(e, dnames, T, g, type, ops)
  BY <1>1, <1>2, GateMadeComputes
<1>5. ASSUME NEW values \in Values(c, names), NEW val,
             Represents(c, names, d, dnames, link, W, T, values, val)
      PROVE  ValueIn(e, dnames, values, val, g) = StatesFor(c, names, values)[g]
  <2>1. \A k \in T : val[k] \in Bits
    BY <1>5 DEF Represents
  <2>2. ValueIn(e, dnames, values, val, g) = Operator(type, OperandValues(ops, val))
    BY <1>4, <2>1 DEF GateComputes
  <2>3. Operator(type, OperandValues(ops, val)) = StatesFor(c, names, values)[g]
    BY <1>5
  <2>. QED
    BY <2>2, <2>3
<1>. QED
  BY <1>3, <1>5

(* An input is rebuilt as an input.                                         *)
LEMMA InputKeepsStates ==
    ASSUME NEW c, WellFormed(c), NEW names, NEW d, NEW dnames, NEW link, NEW W, NEW T,
           NEW g \in InputGates(c), dnames[g] = names[g],
           NEW e, e.gates[g] = GateInfo("INPUT", <<>>)
    PROVE  KeepsStates(c, names, d, e, dnames, link, W, T, g)
<1> SUFFICES ASSUME g \in LiveGates(c)
             PROVE  /\ GateFits(c, names, e, dnames, T, g)
                    /\ \A values \in Values(c, names) : \A val :
                          Represents(c, names, d, dnames, link, W, T, values, val) =>
                              ValueIn(e, dnames, values, val, g) = StatesFor(c, names, values)[g]
  BY DEF KeepsStates
<1>1. GateFits(c, names, e, dnames, T, g)
  BY InputMade
<1>2. \A values, val : ValueIn(e, dnames, values, val, g) = values[names[g]]
  <2>1. Type(e, g) = "INPUT"
    BY DEF Type, GateInfo
  <2>. QED
    BY <2>1 DEF ValueIn
<1>3. ASSUME NEW values \in Values(c, names)
      PROVE  StatesFor(c, names, values)[g] = values[names[g]]
  <2>1. StatesFor(c, names, values)[g] = ValueIn(c, names, values, StatesFor(c, names, values), g)
    BY <1>3, LiveFacts
  <2>2. Type(c, g) = "INPUT"
    BY DEF InputGates
  <2>. QED
    BY <2>1, <2>2 DEF ValueIn
<1>. QED
  BY <1>1, <1>2, <1>3

(* Something can be assigned to the inputs.                                 *)
LEMMA SomeValues ==
    ASSUME NEW c, NEW names PROVE \E values : values \in Values(c, names)
<1>1. [i \in InputNames(c, names) |-> StFalse] \in Values(c, names)
  BY DEF Values
<1>. QED
  BY <1>1

(* A gate that is not left with one operand keeps its states.               *)
LEMMA StayingKeepsStates ==
    ASSUME NEW c, WellFormed(c), NEW names, NEW d, NEW dnames, NEW link, NEW W, NEW T,
           Computes(c, names, d, dnames, link, W, T),
           NEW g, NEW type \in OperatorTypes, NEW ops,
           g \in LiveGates(c) => ComputesGate(c, names, d, dnames, link, W, T, g, type, ops),
           ~ (Len(ops) = 1 /\ type \in {"AND", "OR", "XOR", "IFF", "NAND", "NOR", "NXOR"}),
           NEW e, e.gates[g] = GateInfo(type, ops)
    PROVE  KeepsStates(c, names, d, e, dnames, link, W, T, g)
<1>1. \A val, b : LeftWith(type, ops, val, b) =>
         ArityOk(type, Len(ops)) /\ Operator(type, OperandValues(ops, val)) = b
  BY DEF LeftWith
<1>2. ASSUME g \in LiveGates(c)
      PROVE  /\ ops \in Seq(T)
             /\ \A values \in Values(c, names) : \A val :
                   Represents(c, names, d, dnames, link, W, T, values, val) =>
                       LeftWith(type, ops, val, StatesFor(c, names, values)[g])
  BY <1>2 DEF ComputesGate
<1>3. ASSUME g \in LiveGates(c) PROVE ArityOk(type, Len(ops))
  <2>1. PICK values : values \in Values(c, names)
    BY SomeValues
  <2>2. \E val : Represents(c, names, d, dnames, link, W, T, values, val)
    BY <2>1 DEF Computes
  <2>3. PICK val : Represents(c, names, d, dnames, link, W, T, values, val)
    BY <2>2
  <2>. QED
    BY <1>1, <1>2, <1>3, <2>1, <2>3
<1>4. ASSUME g \in LiveGates(c)
      PROVE  \A values \in Values(c, names) : \A val :
                Represents(c, names, d, dnames, link, W, T, values, val) =>
                    Operator(type, OperandValues(ops, val)) = StatesFor(c, names, values)[g]
  BY <1>1, <1>2, <1>4
<1>. QED
  BY <1>2, <1>3, <1>4, BuiltKeepsStates

(* A gate is rebuilt and stays in its place.                                *)
LEMMA VisitStaying ==
    ASSUME NEW c, WellFormed(c), Usable(c), NEW names, NEW d, NEW dnames, NEW link, NEW W, NEW T,
           NEW rank, NEW ra, NEW g, NEW links,
           Serves(c, names, d, dnames, link, W, T, rank, ra, g, links),
           ra[g] = StUndef \/ Type(c, g) \in {"CONST_TRUE", "CONST_FALSE"},
           dnames[g] = names[g],
           NEW type, type = TypeOver(Type(c, g), links, ra), type # "MUX",
           NEW ops, ops = StayingOf(links, ra),
           ~ (Len(ops) = 1 /\ type \in {"AND", "OR", "XOR", "IFF", "NAND", "NOR", "NXOR"}),
           NEW e, NEW relink, IsVisited(d, e, link, relink, g, type, ops, g)
    PROVE  \E S : Reduces(c, names, e, dnames, relink, W \ {g}, S, rank, ra)
<1>1. Reduces(c, names, d, dnames, link, W, T, rank, ra) /\ g \in W
  BY DEF Serves
<1>2. IsReduction(c, d, link, W, rank) /\ Computes(c, names, d, dnames, link, W, T)
  BY <1>1 DEF Reduces
<1>3. g \in GateIds(c) /\ g \in GateIds(d)
  BY <1>1, <1>2 DEF IsReduction, GateIds
<1>4. /\ type = "MUX" <=> Type(c, g) = "MUX"
      /\ type = "INPUT" <=> Type(c, g) = "INPUT"
      /\ Type(c, g) \in OperatorTypes => type \in OperatorTypes
      /\ Type(c, g) \in OperatorTypes \cup {"INPUT"}
  <2>1. Type(c, g) \in OperatorTypes \cup {"INPUT"}
    BY <1>3 DEF Usable, IsUsable, Type
  <2>. QED
    BY <2>1, ParityTypes DEF TypeOver
<1>5. CanBuild(c, d, rank, g, type, ops)
  BY <1>4, CanBuildStaying
<1>6. e.gates[g] = GateInfo(type, ops)
  BY <1>2, <1>3 DEF IsVisited, IsReduction, GateIds
<1>7. KeepsStates(c, names, d, e, dnames, link, W, T, g)
  <2>1. CASE Type(c, g) = "INPUT"
    <3>1. g \in InputGates(c)
      BY <1>3, <2>1 DEF InputGates
    <3>2. type = "INPUT" /\ ops = <<>>
      BY <1>4, <1>5, <2>1 DEF CanBuild
    <3>. QED
      BY <1>6, <3>1, <3>2, InputKeepsStates
  <2>2. CASE Type(c, g) # "INPUT"
    <3>1. type \in OperatorTypes /\ Type(c, g) \notin {"MUX", "INPUT"}
      BY <1>4, <2>2
    <3>2. g \in LiveGates(c) => ComputesGate(c, names, d, dnames, link, W, T, g, type, ops)
      BY <3>1, StayingStands
    <3>. QED
      BY <1>2, <1>6, <3>1, <3>2, StayingKeepsStates
  <2>. QED
    BY <2>1, <2>2
<1>8. g \in {0, g} /\ (ra[g] = StUndef => g = g)
  OBVIOUS
<1>. QED
  BY <1>1, <1>5, <1>7, <1>8, VisitKept

------------------------------------------------------------------------------
(* A gate of known state becomes a constant.                                *)
ConstantOf(s) == IF s = StTrue THEN "CONST_TRUE" ELSE "CONST_FALSE"

(* A gate whose state is known is rebuilt as a constant, that no gate is    *)
(* linked to.                                                               *)
LEMMA VisitConstant ==
    ASSUME NEW c, WellFormed(c), NEW names, NEW d, NEW dnames, NEW link, NEW W, NEW T,
           NEW rank, NEW ra, NEW g \in W,
           Reduces(c, names, d, dnames, link, W, T, rank, ra), ra[g] # StUndef,
           NEW e, NEW relink, IsVisited(d, e, link, relink, g, ConstantOf(ra[g]), <<>>, 0)
    PROVE  \E S : Reduces(c, names, e, dnames, relink, W \ {g}, S, rank, ra)
<1>1. /\ IsReduction(c, d, link, W, rank) /\ Computes(c, names, d, dnames, link, W, T)
      /\ LinksKnown(c, link, W, ra)
  BY DEF Reduces
<1>2. g \in GateIds(c) /\ g \in GateIds(d)
  BY <1>1 DEF IsReduction, GateIds
<1>3. ConstantOf(ra[g]) \in {"CONST_TRUE", "CONST_FALSE"}
  BY DEF ConstantOf
<1>4. CanBuild(c, d, rank, g, ConstantOf(ra[g]), <<>>)
  BY <1>3 DEF CanBuild, OperatorTypes
<1>5. e.gates[g] = GateInfo(ConstantOf(ra[g]), <<>>)
  BY <1>1, <1>2 DEF IsVisited, IsReduction, GateIds
<1>6. g \in LiveGates(c) /\ ra[g] = Known(c)[g] /\ ra[g] \in GateStates
  <2>1. ra[g] = IF g \in LiveGates(c) THEN Known(c)[g] ELSE StUndef
    BY <1>1, <1>2 DEF LinksKnown
  <2>2. ra \in Seq(GateStates) /\ Len(ra) = Len(link) /\ Len(c.gates) <= Len(link)
    BY <1>1 DEF LinksKnown, IsReduction
  <2>3. ra[g] \in GateStates
    BY <1>2, <2>2 DEF GateIds
  <2>. QED
    BY <2>1, <2>3
<1>7. \A ops : Operator(ConstantOf(ra[g]), ops) = ra[g]
  BY <1>6 DEF Operator, ConstantOf, GateStates, StTrue, StFalse, StUndef
<1>8. ASSUME NEW values \in Values(c, names) PROVE StatesFor(c, names, values)[g] = ra[g]
  <2>1. Refines(StatesFor(c, names, values)[g], Known(c)[g])
    BY <1>6, <1>8, KnownStays
  <2>. QED
    BY <1>6, <2>1 DEF Refines
<1>9. ArityOk(ConstantOf(ra[g]), 0) /\ Len(<<>>) = 0 /\ <<>> \in Seq(T)
  BY <1>3 DEF ArityOk, FoldTypes
<1>10. ConstantOf(ra[g]) \in OperatorTypes
  BY <1>3 DEF OperatorTypes
<1>11. KeepsStates(c, names, d, e, dnames, link, W, T, g)
  BY <1>1, <1>5, <1>7, <1>8, <1>9, <1>10, BuiltKeepsStates
<1>. QED
  BY <1>4, <1>11, VisitKept

(* The operand of a MUX that a known selector chooses.                      *)
ChosenPlace(selector) == IF selector = StTrue THEN 3 ELSE 2

(* It has the states of the gate.                                           *)
LEMMA ChosenHasStates ==
    ASSUME NEW c, WellFormed(c), NEW names, NEW d, NEW dnames, NEW link, NEW W, NEW T,
           NEW rank, NEW ra, NEW g, NEW links,
           Serves(c, names, d, dnames, link, W, T, rank, ra, g, links),
           Type(c, g) = "MUX", ra[g] = StUndef, ra[links[1]] \in Bits,
           NEW i, i = ChosenPlace(ra[links[1]])
    PROVE  HasStates(c, names, d, dnames, link, W, T, ra, g, links[i])
<1> SUFFICES ASSUME g \in LiveGates(c)
             PROVE  /\ links[i] \in T /\ ra[links[i]] = ra[g]
                    /\ \A values \in Values(c, names) : \A val :
                          Represents(c, names, d, dnames, link, W, T, values, val) =>
                              val[links[i]] = StatesFor(c, names, values)[g]
  BY DEF HasStates
<1> DEFINE x == OperandValues(Operands(c, g), Known(c))
<1>1. /\ Carries(c, d, link, W, T) /\ LinksKnown(c, link, W, ra)
      /\ \A o \in OperandSet(c, g) : o \notin W
      /\ links = LinksOf(c, link, g)
  BY DEF Serves, Reduces, Computes
<1>2. /\ links \in Seq(T) /\ DOMAIN links = 1 .. Len(Operands(c, g)) /\ Len(links) = Len(Operands(c, g))
      /\ \A k \in DOMAIN links : ra[links[k]] = Known(c)[Operands(c, g)[k]]
  BY <1>1, LinkedLive
<1>3. g \in GateIds(c) /\ ra[g] = Known(c)[g] /\ Len(links) = 3
  <2>1. LiveGates(c) \subseteq GateIds(c)
    BY WellFormedFacts DEF LiveGates
  <2>2. ra[g] = Known(c)[g]
    BY <1>1, <2>1 DEF LinksKnown
  <2>3. ArityOk("MUX", Len(links))
    BY <1>2 DEF WellFormed, LiveGates
  <2>4. Len(links) = 3
    BY <2>3 DEF ArityOk, FoldTypes
  <2>. QED
    BY <2>1, <2>2, <2>4
<1>4. /\ DOMAIN Operands(c, g) = 1 .. 3 /\ DOMAIN links = 1 .. 3
      /\ \A k \in 1 .. 3 : x[k] = ra[links[k]]
  <2>1. DOMAIN Operands(c, g) = DOMAIN links
    BY <1>1 DEF LinksOf
  <2>. QED
    BY <1>2, <1>3, <2>1 DEF OperandValues
<1>5. i \in {2, 3} /\ 1 \in 1 .. 3 /\ 2 \in 1 .. 3 /\ 3 \in 1 .. 3 /\ i \in 1 .. 3
  BY DEF ChosenPlace
<1>6. links[i] \in T
  <2>1. \A k \in DOMAIN links : links[k] \in T
    BY <1>2
  <2>. QED
    BY <1>4, <1>5, <2>1
<1>7. \A y, z \in GateStates : \A s \in Bits :
         MUX(s, y, z) = IF ChosenPlace(s) = 3 THEN z ELSE y
  BY MuxSelects DEF Bits, ChosenPlace, GateStates, StFalse, StTrue
<1>8. \A a : Operator("MUX", a) = MUX(a[1], a[2], a[3])
  BY DEF Operator
<1>9. ASSUME NEW values \in Values(c, names), NEW val,
             Represents(c, names, d, dnames, link, W, T, values, val)
      PROVE  /\ val[links[i]] = StatesFor(c, names, values)[g]
             /\ \A k \in 1 .. 3 : x[k] \in GateStates
  <2>1. StatesLinked(c, names, links, values, val, g)
    BY <1>1, <1>9, LinkedStates
  <2>2. /\ \A k \in 1 .. 3 : x[k] \in GateStates /\ val[links[k]] \in Bits /\ Refines(val[links[k]], x[k])
        /\ StatesFor(c, names, values)[g] = Operator("MUX", OperandValues(links, val))
    BY <1>2, <1>3, <2>1 DEF StatesLinked, IsKnownOf
  <2>3. val[links[1]] = ra[links[1]]
    BY <1>4, <1>5, <2>2 DEF Refines, Bits, StTrue, StFalse, StUndef
  <2>4. OperandValues(links, val) = [k \in 1 .. 3 |-> val[links[k]]]
    BY <1>4 DEF OperandValues
  <2>5. StatesFor(c, names, values)[g] = MUX(val[links[1]], val[links[2]], val[links[3]])
    BY <1>5, <1>8, <2>2, <2>4
  <2>6. val[links[2]] \in GateStates /\ val[links[3]] \in GateStates
    BY <1>5, <2>2 DEF Bits, GateStates
  <2>. QED
    BY <1>5, <1>7, <2>2, <2>3, <2>5, <2>6 DEF ChosenPlace
<1>10. \A k \in 1 .. 3 : x[k] \in GateStates
  <2>1. PICK values : values \in Values(c, names)
    BY SomeValues
  <2>2. \E val : Represents(c, names, d, dnames, link, W, T, values, val)
    BY <2>1 DEF Serves, Reduces, Computes
  <2>. QED
    BY <1>9, <2>1, <2>2
<1>11. ra[links[i]] = ra[g]
  <2>1. Known(c)[g] = Operator("MUX", x)
    BY <1>3, KnownEquation
  <2>2. Known(c)[g] = MUX(x[1], x[2], x[3])
    BY <1>8, <2>1
  <2>3. x[1] \in Bits /\ x[2] \in GateStates /\ x[3] \in GateStates /\ x[1] = ra[links[1]]
    BY <1>4, <1>5, <1>10
  <2>4. Known(c)[g] = x[i]
    BY <1>5, <1>7, <2>2, <2>3 DEF ChosenPlace
  <2>. QED
    BY <1>3, <1>4, <1>5, <2>4
<1>. QED
  BY <1>6, <1>9, <1>11

(* A MUX whose selector is known is its chosen operand; another one stays.  *)
LEMMA VisitMux ==
    ASSUME NEW c, WellFormed(c), Usable(c), NEW names, NEW d, NEW dnames, NEW link, NEW W, NEW T,
           NEW rank, NEW ra, NEW g, NEW links,
           Serves(c, names, d, dnames, link, W, T, rank, ra, g, links),
           Type(c, g) = "MUX", ra[g] = StUndef,
           NEW t, t = IF ra[links[1]] \in Bits THEN links[ChosenPlace(ra[links[1]])] ELSE g,
           NEW e, NEW relink, IsVisited(d, e, link, relink, g, "MUX", links, t)
    PROVE  \E S : Reduces(c, names, e, dnames, relink, W \ {g}, S, rank, ra)
<1>1. Reduces(c, names, d, dnames, link, W, T, rank, ra) /\ g \in W
  BY DEF Serves
<1>2. /\ IsReduction(c, d, link, W, rank) /\ Computes(c, names, d, dnames, link, W, T)
      /\ Carries(c, d, link, W, T) /\ LinksKnown(c, link, W, ra)
      /\ \A o \in OperandSet(c, g) : o \notin W
      /\ links = LinksOf(c, link, g)
  BY <1>1 DEF Reduces, Computes, Serves
<1>3. g \in GateIds(c) /\ g \in GateIds(d)
  BY <1>1, <1>2 DEF IsReduction, GateIds
<1>4. /\ links \in Seq(GateIds(d)) /\ Len(links) = Len(Operands(c, g))
      /\ DOMAIN links = 1 .. Len(Operands(c, g))
      /\ \A i \in DOMAIN links : IsTarget(links[i], link, W) /\ rank[links[i]] < rank[g]
  BY <1>2, <1>3, LinkedOperands
<1>5. Len(links) = 3 /\ DOMAIN links = 1 .. 3
  BY <1>3, <1>4 DEF Usable, IsUsable, Type, Operands
<1>6. CanBuild(c, d, rank, g, "MUX", links)
  BY <1>4, <1>5 DEF CanBuild, OperatorTypes
<1>7. CASE ra[links[1]] \in Bits
  <2>1. ChosenPlace(ra[links[1]]) \in 1 .. 3 /\ t = links[ChosenPlace(ra[links[1]])]
    BY <1>7 DEF ChosenPlace
  <2>2. IsTarget(t, link, W) /\ rank[t] < rank[g] /\ t \in GateIds(d)
    <3>1. PICK i : i = ChosenPlace(ra[links[1]])
      OBVIOUS
    <3>2. i \in DOMAIN links /\ t = links[i]
      BY <1>5, <2>1, <3>1
    <3>3. links[i] \in GateIds(d)
      BY <1>4, <3>2
    <3>. QED
      BY <1>4, <3>2, <3>3
  <2>3. rank[t] <= rank[g]
    <3>1. IsRanking(c, rank) /\ IsRanking(d, rank)
      BY <1>2 DEF IsReduction
    <3>2. rank[t] \in Nat /\ rank[g] \in Nat
      BY <1>3, <2>2, <3>1 DEF IsRanking
    <3>. QED
      BY <2>2, <3>2
  <2>4. HasStates(c, names, d, dnames, link, W, T, ra, g, t)
    BY <1>7, <2>1, ChosenHasStates
  <2>5. Reduces(c, names, e, dnames, relink, W \ {g}, T, rank, ra)
    BY <1>1, <1>6, <2>2, <2>3, <2>4, VisitLinked
  <2>. QED
    BY <2>5
<1>8. CASE ra[links[1]] \notin Bits
  <2>1. t = g
    BY <1>8
  <2>2. e.gates[g] = GateInfo("MUX", links)
    BY <1>2, <1>3 DEF IsVisited, IsReduction, GateIds
  <2>3. ArityOk("MUX", Len(links)) /\ "MUX" \in OperatorTypes
    BY <1>5 DEF ArityOk, FoldTypes, OperatorTypes
  <2>4. g \in LiveGates(c) => links \in Seq(T)
    BY <1>2, LinkedLive
  <2>5. ASSUME g \in LiveGates(c), NEW values \in Values(c, names), NEW val,
               Represents(c, names, d, dnames, link, W, T, values, val)
        PROVE  Operator("MUX", OperandValues(links, val)) = StatesFor(c, names, values)[g]
    <3>1. StatesLinked(c, names, links, values, val, g)
      BY <1>2, <2>5, LinkedStates
    <3>. QED
      BY <3>1 DEF StatesLinked
  <2>6. KeepsStates(c, names, d, e, dnames, link, W, T, g)
    BY <1>2, <2>2, <2>3, <2>4, <2>5, BuiltKeepsStates
  <2>. QED
    BY <1>1, <1>6, <2>1, <2>6, VisitKept
<1>. QED
  BY <1>7, <1>8

(* A sequence of some elements is one of more.                              *)
LEMMA SequenceOfMore ==
    ASSUME NEW S, NEW s \in Seq(S), NEW M, S \subseteq M
    PROVE  s \in Seq(M)
<1>1. s \in [1 .. Len(s) -> S] /\ Len(s) \in Nat
  OBVIOUS
<1>2. s \in [1 .. Len(s) -> M]
  BY <1>1
<1>. QED
  BY <1>1, <1>2, FunctionIsSequence

(* It makes no difference if an element is replaced before another one is   *)
(* appended or after that.                                                  *)
Commute(s, i, x, y) == Append([s EXCEPT ![i] = x], y) = [Append(s, y) EXCEPT ![i] = x]

(* It makes no difference whether a gate is replaced or one is appended     *)
(* first.                                                                   *)
LEMMA AppendReplaced ==
    ASSUME NEW M, NEW s \in Seq(M), NEW i \in DOMAIN s, NEW x, NEW y
    PROVE  Commute(s, i, x, y)
<1>0. PICK S : S = M \cup {x, y}
  OBVIOUS
<1>a. s \in Seq(S) /\ x \in S /\ y \in S
  BY <1>0, SequenceOfMore
<1>1. PICK p : p = [s EXCEPT ![i] = x]
  OBVIOUS
<1>2. PICK q : q = Append(s, y)
  OBVIOUS
<1>3. DOMAIN s = 1 .. Len(s) /\ Len(s) \in Nat
  BY <1>a
<1>4. p \in Seq(S) /\ Len(p) = Len(s) /\ \A k \in 1 .. Len(s) : p[k] = IF k = i THEN x ELSE s[k]
  BY <1>a, <1>1, <1>3
<1>5. q \in Seq(S) /\ DOMAIN q = 1 .. Len(s) + 1 /\ q[Len(s) + 1] = y /\ \A k \in 1 .. Len(s) : q[k] = s[k]
  BY <1>a, <1>2, <1>3
<1>6. PICK l : l = Append(p, y)
  OBVIOUS
<1>7. l \in Seq(S) /\ DOMAIN l = 1 .. Len(s) + 1 /\ l[Len(s) + 1] = y /\ \A k \in 1 .. Len(s) : l[k] = p[k]
  BY <1>a, <1>3, <1>4, <1>6
<1>8. PICK r : r = [q EXCEPT ![i] = x]
  OBVIOUS
<1>9. r \in [1 .. Len(s) + 1 -> S] /\ \A k \in 1 .. Len(s) + 1 : r[k] = IF k = i THEN x ELSE q[k]
  BY <1>a, <1>5, <1>8
<1>10. \A k \in 1 .. Len(s) + 1 : l[k] = r[k]
  BY <1>3, <1>4, <1>5, <1>7, <1>9
<1>11. l = [k \in 1 .. Len(s) + 1 |-> l[k]] /\ r = [k \in 1 .. Len(s) + 1 |-> r[k]]
  <2>1. l = [k \in DOMAIN l |-> l[k]]
    BY <1>7
  <2>. QED
    BY <1>7, <1>9, <2>1
<1>12. l = r
  BY <1>10, <1>11
<1>. QED
  BY <1>1, <1>2, <1>6, <1>8, <1>12 DEF Commute

(* The negation of an operand, of which a new gate is made, ...             *)
Negation(d, o) == [gates |-> Append(d.gates, GateInfo("NOT", <<o>>)), outputs |-> d.outputs]

(* ... has its state.                                                       *)
IsNegated(c, names, d, dnames, link, W, T, new, o, values, val) ==
    /\ Represents(c, names, d, dnames, link, W, T, values, val)
    /\ val[new] = NOT(val[o])

(* The negation appended for a gate of T has the opposite state in every    *)
(* solution.                                                                *)
LEMMA NegationState ==
    ASSUME NEW c, NEW names, NEW d, NEW dnames, NEW link, NEW W, NEW T, NEW rank,
           IsReduction(c, d, link, W, rank), Carries(c, d, link, W, T), NEW o \in T,
           NEW enames, \A k \in GateIds(d) : enames[k] = dnames[k],
           NEW new, new = Len(d.gates) + 1,
           NEW values, NEW val,
           Represents(c, names, Negation(d, o), enames, link, W, T \cup {new}, values, val)
    PROVE  IsNegated(c, names, d, dnames, link, W, T, new, o, values, val)
<1>1. IsAddition(d, dnames, Negation(d, o), enames, "NOT", <<o>>)
  BY DEF IsAddition, Negation, OperatorTypes, Carries
<1>2. <<o>> \in Seq(T) /\ ArityOk("NOT", Len(<<o>>))
  BY DEF ArityOk, FoldTypes
<1>3. AddedIs(c, names, d, dnames, link, W, T, "NOT", <<o>>, new, values, val)
  BY <1>1, <1>2, AddedState
<1>4. OperandValues(<<o>>, val)[1] = val[o]
  BY DEF OperandValues
<1>. QED
  BY <1>3, <1>4 DEF Operator, AddedIs, IsNegated

(* What there is when one has been added.                                   *)
AddsNegation(d, dnames, enames, link, ra, T, o, new, longer, more, S) ==
    /\ Len(link) = Len(d.gates) /\ new = Len(d.gates) + 1
    /\ \A k \in GateIds(d) : enames[k] = dnames[k]
    /\ longer = Append(link, new) /\ more = Append(ra, StUndef)
    /\ S = (IF o \in T THEN T \cup {new} ELSE T)

(* Other gates can be linked to it.                                         *)
LEMMA NegationAdded ==
    ASSUME NEW c, WellFormed(c), NEW names, NEW d, NEW dnames, NEW link, NEW W, NEW T,
           NEW rank, NEW ra, Reduces(c, names, d, dnames, link, W, T, rank, ra),
           NEW o, o \in GateIds(d), NEW r, r \in Nat, rank[o] < r,
           NEW enames, NEW new, NEW longer, NEW more, NEW S,
           AddsNegation(d, dnames, enames, link, ra, T, o, new, longer, more, S)
    PROVE  IsLinkAdded(c, names, Negation(d, o), enames, longer, W, S, RankAdded(rank, new, r), more, new)
<1>0. /\ Len(link) = Len(d.gates) /\ new = Len(d.gates) + 1
      /\ \A k \in GateIds(d) : enames[k] = dnames[k]
      /\ longer = Append(link, new) /\ more = Append(ra, StUndef)
      /\ S = (IF o \in T THEN T \cup {new} ELSE T)
  BY DEF AddsNegation
<1>1. IsAddition(d, dnames, Negation(d, o), enames, "NOT", <<o>>)
  BY <1>0 DEF IsAddition, Negation, OperatorTypes
<1>2. ArityOk("NOT", Len(<<o>>)) /\ (o \in T => <<o>> \in Seq(T))
  BY DEF ArityOk, FoldTypes
<1>3. \A i \in DOMAIN <<o>> : rank[<<o>>[i]] < r
  OBVIOUS
<1>4. Reduces(c, names, Negation(d, o), enames, link, W, S, RankAdded(rank, new, r), ra)
  <2>1. <<o>> \in Seq(GateIds(d)) /\ new = Len(d.gates) + 1
    BY <1>0
  <2>. QED
    BY <1>0, <1>1, <1>2, <1>3, <2>1, AddGate
<1>5. Len(link) < Len(Negation(d, o).gates) /\ new = Len(link) + 1
  <2>1. d.gates \in Seq(GateInfos(Len(d.gates)))
    BY DEF Reduces, IsReduction
  <2>. QED
    BY <1>0, <2>1 DEF Negation
<1>. QED
  BY <1>0, <1>4, <1>5, LinkAdded

(* It has the states of the gate.                                           *)
LEMMA NegationHasStates ==
    ASSUME NEW c, WellFormed(c), NEW names, NEW d, NEW dnames, NEW link, NEW W, NEW T,
           NEW rank, NEW ra, NEW g, NEW links,
           Serves(c, names, d, dnames, link, W, T, rank, ra, g, links),
           Type(c, g) \notin {"MUX", "INPUT"}, ra[g] = StUndef,
           NEW type, type = TypeOver(Type(c, g), links, ra),
           NEW ops, ops = StayingOf(links, ra), Len(ops) = 1,
           type \in {"NAND", "NOR", "NXOR"},
           NEW enames, NEW new, NEW longer, NEW more, NEW S,
           AddsNegation(d, dnames, enames, link, ra, T, ops[1], new, longer, more, S)
    PROVE  HasStates(c, names, Negation(d, ops[1]), enames, longer, W, S, more, g, new)
<1> SUFFICES ASSUME g \in LiveGates(c)
             PROVE  /\ new \in S /\ more[new] = more[g]
                    /\ \A values \in Values(c, names) : \A val :
                          Represents(c, names, Negation(d, ops[1]), enames, longer, W, S, values, val) =>
                              val[new] = StatesFor(c, names, values)[g]
  BY DEF HasStates
<1>0. /\ Len(link) = Len(d.gates) /\ new = Len(d.gates) + 1
      /\ \A k \in GateIds(d) : enames[k] = dnames[k]
      /\ longer = Append(link, new) /\ more = Append(ra, StUndef)
      /\ S = (IF ops[1] \in T THEN T \cup {new} ELSE T)
  BY DEF AddsNegation
<1>1. ComputesGate(c, names, d, dnames, link, W, T, g, type, ops)
  BY StayingStands
<1>2. ops[1] \in T /\ S = T \cup {new} /\ new \in S
  <2>1. ops \in Seq(T)
    BY <1>1 DEF ComputesGate
  <2>2. ops[1] \in T
    <3>1. \A i \in 1 .. Len(ops) : ops[i] \in T
      BY ONLY <2>1
    <3>2. Len(ops) = 1
      OBVIOUS
    <3>. QED
      BY ONLY <3>1, <3>2
  <2>. QED
    BY <1>0, <2>2
<1>3. /\ IsReduction(c, d, link, W, rank) /\ Carries(c, d, link, W, T) /\ LinksKnown(c, link, W, ra)
      /\ g \in W
  BY DEF Serves, Reduces, Computes
<1>4. /\ link \in Seq(0 .. Len(d.gates)) /\ Len(d.gates) \in Nat /\ Len(c.gates) <= Len(link)
      /\ ra \in Seq(GateStates) /\ Len(ra) = Len(link)
  BY <1>3 DEF IsReduction, LinksKnown
<1>5. LiveGates(c) \subseteq DOMAIN link
  <2>1. LiveGates(c) \subseteq GateIds(c)
    BY WellFormedFacts DEF LiveGates
  <2>2. Len(c.gates) \in Nat
    BY DEF WellFormed, IdsInRange
  <2>3. GateIds(c) \subseteq DOMAIN link
    BY <1>4, <2>2 DEF GateIds
  <2>. QED
    BY <2>1, <2>3
<1>6. more[new] = StUndef /\ more[g] = ra[g]
  <2>1. g \in 1 .. Len(ra) /\ new = Len(ra) + 1
    BY <1>0, <1>4, <1>5
  <2>2. StUndef \in GateStates
    BY DEF GateStates
  <2>. QED
    BY <1>0, <1>4, <2>1, <2>2
<1>7. \A h \in LiveGates(c) \ W : Target(longer, h) = Target(link, h)
  <2>1. \A h \in DOMAIN link : longer[h] = link[h]
    BY <1>0, <1>4
  <2>. QED
    BY <1>5, <2>1 DEF Target
<1>8. ASSUME NEW values \in Values(c, names), NEW val,
             Represents(c, names, Negation(d, ops[1]), enames, longer, W, S, values, val)
      PROVE  val[new] = StatesFor(c, names, values)[g]
  <2>1. AgreeOn(S, Negation(d, ops[1]), enames, Negation(d, ops[1]), enames) /\ W \in SUBSET W /\ S \subseteq S
    BY DEF AgreeOn
  <2>2. Represents(c, names, Negation(d, ops[1]), enames, link, W, S, values, val)
    BY <1>7, <1>8, <2>1, RepresentsLess
  <2>5. Represents(c, names, Negation(d, ops[1]), enames, link, W, T \cup {new}, values, val)
    BY <1>2, <2>2
  <2>6. IsNegated(c, names, d, dnames, link, W, T, new, ops[1], values, val)
    BY <1>0, <1>2, <1>3, <2>5, NegationState
  <2>3. Represents(c, names, d, dnames, link, W, T, values, val) /\ val[new] = NOT(val[ops[1]])
    BY <2>6 DEF IsNegated
  <2>4. LeftWith(type, ops, val, StatesFor(c, names, values)[g])
    BY <1>1, <2>3 DEF ComputesGate
  <2>. QED
    BY <2>3, <2>4 DEF LeftWith
<1>. QED
  BY <1>2, <1>6, <1>8

(* The gate can be rebuilt after another one has been added, as before.     *)
LEMMA CanBuildAfter ==
    ASSUME NEW c, NEW d, Len(d.gates) \in Nat, NEW rank, NEW g \in GateIds(d), NEW type, NEW ops,
           CanBuild(c, d, rank, g, type, ops),
           NEW new, new = Len(d.gates) + 1, NEW r, NEW e, Len(e.gates) = new
    PROVE  CanBuild(c, e, RankAdded(rank, new, r), g, type, ops)
<1> DEFINE more == RankAdded(rank, new, r)
<1>1. /\ type \in OperatorTypes \cup {"INPUT"}
      /\ ops \in Seq(GateIds(d)) /\ \A i \in DOMAIN ops : rank[ops[i]] < rank[g]
      /\ type = "INPUT" => ops = <<>> /\ Type(c, g) = "INPUT"
      /\ type = "MUX" => Len(ops) = 3
  BY DEF CanBuild
<1>2. \A k \in GateIds(d) : more[k] = rank[k]
  BY DEF RankAdded, GateIds
<1>3. GateIds(d) \subseteq GateIds(e)
  BY DEF GateIds
<1>4. ops \in Seq(GateIds(e))
  <2>1. ops \in [1 .. Len(ops) -> GateIds(d)] /\ Len(ops) \in Nat
    BY <1>1
  <2>2. ops \in [1 .. Len(ops) -> GateIds(e)]
    BY <1>3, <2>1
  <2>. QED
    BY <2>1, <2>2, FunctionIsSequence
<1>5. \A i \in DOMAIN ops : more[ops[i]] < more[g]
  <2>1. \A i \in DOMAIN ops : ops[i] \in GateIds(d)
    BY <1>1
  <2>. QED
    BY <1>1, <1>2, <2>1
<1> HIDE DEF more
<1>6. CanBuild(c, e, more, g, type, ops)
  BY <1>1, <1>4, <1>5 DEF CanBuild
<1>. QED
  BY <1>6 DEF more

(* A gate is rebuilt while its negation is added.                           *)
IsVisitedNegated(d, dnames, e, enames, link, relink, ra, longra, g, type, ops) ==
    LET new == Len(d.gates) + 1
    IN  /\ Len(link) = Len(d.gates)
        /\ \A k \in GateIds(d) : enames[k] = dnames[k]
        /\ e.gates = Append([d.gates EXCEPT ![g] = GateInfo(type, ops)], GateInfo("NOT", <<ops[1]>>))
        /\ relink = Append([link EXCEPT ![g] = new], new)
        /\ longra = Append(ra, StUndef)

(* Users of a gate left with one operand that it negates are referred to a  *)
(* negation that is appended.                                               *)
LEMMA VisitToNegation ==
    ASSUME NEW c, WellFormed(c), Usable(c), NEW names, NEW d, NEW dnames, NEW link, NEW W, NEW T,
           NEW rank, NEW ra, NEW g, NEW links,
           Serves(c, names, d, dnames, link, W, T, rank, ra, g, links),
           ra[g] = StUndef \/ Type(c, g) \in {"CONST_TRUE", "CONST_FALSE"},
           NEW type, type = TypeOver(Type(c, g), links, ra),
           NEW ops, ops = StayingOf(links, ra), Len(ops) = 1,
           type \in {"NAND", "NOR", "NXOR"},
           NEW e, NEW enames, NEW relink, NEW longra,
           IsVisitedNegated(d, dnames, e, enames, link, relink, ra, longra, g, type, ops)
    PROVE  \E S, more : Reduces(c, names, e, enames, relink, W \ {g}, S, more, longra)
<1> DEFINE new == Len(d.gates) + 1
           S == IF ops[1] \in T THEN T \cup {new} ELSE T
           longer == Append(link, new)
           more == RankAdded(rank, new, rank[g])
           neg == Negation(d, ops[1])
<1>1. Type(c, g) \notin {"MUX", "INPUT"} /\ ra[g] = StUndef
  BY ParityTypes DEF TypeOver, ParityType
<1>2. CanBuild(c, d, rank, g, type, ops)
  BY <1>1, CanBuildStaying
<1>3. rank[ops[1]] < rank[g] /\ ops[1] \in GateIds(d) /\ ops = <<ops[1]>>
  BY OneStays
<1>4. Reduces(c, names, d, dnames, link, W, T, rank, ra) /\ g \in W /\ IsReduction(c, d, link, W, rank)
  BY DEF Serves, Reduces
<1>5. /\ g \in GateIds(c) /\ g \in GateIds(d) /\ rank[g] \in Nat
      /\ d.gates \in Seq(GateInfos(Len(d.gates))) /\ Len(d.gates) \in Nat
      /\ link \in Seq(0 .. Len(d.gates)) /\ g \in DOMAIN link
  <2>1. W \subseteq GateIds(c) /\ Len(c.gates) <= Len(link) /\ Len(link) <= Len(d.gates)
        /\ IsRanking(c, rank) /\ d.gates \in Seq(GateInfos(Len(d.gates))) /\ link \in Seq(0 .. Len(d.gates))
    BY <1>4 DEF IsReduction
  <2>2. g \in GateIds(c) /\ rank[g] \in Nat
    BY <1>4, <2>1 DEF IsRanking
  <2>. QED
    BY <2>1, <2>2 DEF GateIds
<1>a. /\ S = (IF ops[1] \in T THEN T \cup {new} ELSE T) /\ longer = Append(link, new)
      /\ longra = Append(ra, StUndef) /\ more = RankAdded(rank, new, rank[g])
      /\ neg = Negation(d, ops[1])
  BY DEF IsVisitedNegated
<1>b. AddsNegation(d, dnames, enames, link, ra, T, ops[1], new, longer, longra, S)
  BY DEF AddsNegation, IsVisitedNegated
<1>c. new = Len(d.gates) + 1
  OBVIOUS
<1>d. /\ e.gates = Append([d.gates EXCEPT ![g] = GateInfo(type, ops)], GateInfo("NOT", <<ops[1]>>))
      /\ relink = Append([link EXCEPT ![g] = new], new)
  BY DEF IsVisitedNegated
<1> HIDE DEF new, S, longer, more, neg
<1>6. IsLinkAdded(c, names, neg, enames, longer, W, S, more, longra, new)
  <2>1. IsLinkAdded(c, names, Negation(d, ops[1]), enames, longer, W, S, RankAdded(rank, new, rank[g]), longra, new)
    BY <1>3, <1>4, <1>5, <1>b, NegationAdded
  <2>. QED
    BY <1>a, <2>1
<1>7. neg.gates = Append(d.gates, GateInfo("NOT", <<ops[1]>>)) /\ Len(neg.gates) = new
  BY <1>5, <1>a, <1>c DEF Negation
<1>8. CanBuild(c, neg, more, g, type, ops)
  BY <1>2, <1>5, <1>7, <1>a, <1>c, CanBuildAfter
<1>9. HasStates(c, names, neg, enames, longer, W, S, longra, g, new)
  <2>1. HasStates(c, names, Negation(d, ops[1]), enames, longer, W, S, longra, g, new)
    BY <1>1, <1>b, NegationHasStates
  <2>. QED
    BY <1>a, <2>1
<1>10. more[new] <= more[g]
  BY <1>5, <1>a, <1>c DEF RankAdded, GateIds
<1>11. IsVisited(neg, e, longer, relink, g, type, ops, new)
  <2>1. g \in DOMAIN d.gates
    BY <1>5 DEF GateIds
  <2>3. e.gates = [neg.gates EXCEPT ![g] = GateInfo(type, ops)]
    <3>1. PICK info : info = GateInfo(type, ops)
      OBVIOUS
    <3>2. PICK not : not = GateInfo("NOT", <<ops[1]>>)
      OBVIOUS
    <3>3. Commute(d.gates, g, info, not)
      BY <1>5, <2>1, AppendReplaced
    <3>. QED
      BY <1>7, <1>d, <3>1, <3>2, <3>3 DEF Commute
  <2>5. relink = [longer EXCEPT ![g] = new]
    <3>1. Commute(link, g, new, new)
      BY <1>5, AppendReplaced
    <3>. QED
      BY <1>a, <1>d, <3>1 DEF Commute
  <2>. QED
    BY <2>3, <2>5 DEF IsVisited
<1>12. Reduces(c, names, neg, enames, longer, W, S, more, longra) /\ IsTarget(new, longer, W)
  BY <1>6 DEF IsLinkAdded
<1>13. Reduces(c, names, e, enames, relink, W \ {g}, S, more, longra)
  BY <1>4, <1>8, <1>9, <1>10, <1>11, <1>12, VisitLinked
<1>. QED
  BY <1>13

------------------------------------------------------------------------------
(* When no gate waits any more: a gate with the states of an output.        *)
IsOutputOf(c, names, d, dnames, link, T, o, out) ==
    /\ out \in T
    /\ \A values \in Values(c, names) : \A val :
          Represents(c, names, d, dnames, link, {}, T, values, val) =>
              val[out] = StatesFor(c, names, values)[o]

(* The outputs that have been found, in their order.                        *)
OutputsFound(c, names, d, dnames, link, T, outs) ==
    /\ outs \in Seq(T) /\ Len(outs) <= Len(c.outputs)
    /\ \A k \in DOMAIN outs : IsOutputOf(c, names, d, dnames, link, T, c.outputs[k], outs[k])

(* Of an output of which nothing is known it is the one it is linked to.    *)
LEMMA OutputLinked ==
    ASSUME NEW c, WellFormed(c), NEW names, NEW d, NEW dnames, NEW link, NEW T, NEW rank, NEW ra,
           Reduces(c, names, d, dnames, link, {}, T, rank, ra),
           NEW o \in OutputSet(c), ra[o] = StUndef
    PROVE  IsOutputOf(c, names, d, dnames, link, T, o, link[o])
<1>1. Carries(c, d, link, {}, T) /\ LinksKnown(c, link, {}, ra)
  BY DEF Reduces, Computes
<1>2. o \in LiveGates(c) /\ LiveGates(c) \subseteq GateIds(c)
  BY WellFormedFacts DEF LiveGates
<1>3. link[o] # 0 /\ Target(link, o) = link[o]
  BY <1>1, <1>2 DEF LinksKnown, Target
<1>4. link[o] \in T
  BY <1>1, <1>2, <1>3 DEF Carries
<1>5. ASSUME NEW values \in Values(c, names), NEW val,
             Represents(c, names, d, dnames, link, {}, T, values, val)
      PROVE  val[link[o]] = StatesFor(c, names, values)[o]
  BY <1>2, <1>3, <1>5 DEF Represents
<1>. QED
  BY <1>4, <1>5 DEF IsOutputOf

(* One more output has been found.                                          *)
LEMMA OutputsMore ==
    ASSUME NEW c, NEW names, NEW d, NEW dnames, NEW link, NEW T, NEW outs,
           OutputsFound(c, names, d, dnames, link, T, outs),
           Len(c.outputs) \in Nat, Len(outs) + 1 <= Len(c.outputs),
           NEW out, IsOutputOf(c, names, d, dnames, link, T, c.outputs[Len(outs) + 1], out),
           NEW more, more = Append(outs, out)
    PROVE  OutputsFound(c, names, d, dnames, link, T, more)
<1>1. outs \in Seq(T) /\ \A k \in DOMAIN outs : IsOutputOf(c, names, d, dnames, link, T, c.outputs[k], outs[k])
  BY DEF OutputsFound
<1>2. out \in T
  BY DEF IsOutputOf
<1>3. /\ more \in Seq(T) /\ Len(more) = Len(outs) + 1 /\ DOMAIN more = 1 .. Len(outs) + 1
      /\ \A k \in DOMAIN outs : more[k] = outs[k]
      /\ more[Len(outs) + 1] = out /\ DOMAIN outs = 1 .. Len(outs) /\ Len(outs) \in Nat
  BY <1>1, <1>2
<1>4. ASSUME NEW k \in DOMAIN more
      PROVE  IsOutputOf(c, names, d, dnames, link, T, c.outputs[k], more[k])
  <2>1. CASE k = Len(outs) + 1
    BY <1>3, <2>1
  <2>2. CASE k # Len(outs) + 1
    <3>1. k \in DOMAIN outs
      BY <1>3, <2>2
    <3>. QED
      BY <1>1, <1>3, <3>1
  <2>. QED
    BY <2>1, <2>2
<1>. QED
  BY <1>3, <1>4 DEF OutputsFound

(* They stay when gates are added.                                          *)
LEMMA OutputsStay ==
    ASSUME NEW c, NEW names, NEW d, NEW dnames, NEW link, NEW T, NEW outs,
           OutputsFound(c, names, d, dnames, link, T, outs),
           NEW e, NEW enames, NEW S, T \subseteq S,
           \A values, val : Represents(c, names, e, enames, link, {}, S, values, val) =>
                               Represents(c, names, d, dnames, link, {}, T, values, val)
    PROVE  OutputsFound(c, names, e, enames, link, S, outs)
<1>1. outs \in Seq(S)
  BY SequenceOfMore DEF OutputsFound
<1>2. ASSUME NEW k \in DOMAIN outs
      PROVE  IsOutputOf(c, names, e, enames, link, S, c.outputs[k], outs[k])
  <2>1. IsOutputOf(c, names, d, dnames, link, T, c.outputs[k], outs[k])
    BY DEF OutputsFound
  <2>. QED
    BY <2>1 DEF IsOutputOf
<1>. QED
  BY <1>1, <1>2 DEF OutputsFound

(* An input can be evaluated even if no output needs it.                    *)
LEMMA InputJoins ==
    ASSUME NEW c, NEW names, NEW d, NEW dnames, NEW link, NEW T, NEW rank, NEW ra,
           Reduces(c, names, d, dnames, link, {}, T, rank, ra),
           NEW left \in InputGates(d), dnames[left] = names[left]
    PROVE  Reduces(c, names, d, dnames, link, {}, T \cup {left}, rank, ra)
<1>1. IsReduction(c, d, link, {}, rank) /\ Computes(c, names, d, dnames, link, {}, T)
  BY DEF Reduces
<1>2. left \in GateIds(d) /\ left \in InputGates(c) /\ Type(d, left) = "INPUT" /\ Operands(d, left) = <<>>
  BY <1>1 DEF IsReduction, IsUsable, InputGates, Type, Operands
<1>3. GateFits(c, names, d, dnames, T, left)
  <2>1. OperandSet(d, left) = {} /\ Operands(d, left) \in Seq(Nat) /\ Len(Operands(d, left)) = 0
    BY <1>2 DEF OperandSet
  <2>2. ArityOk("INPUT", 0)
    BY DEF ArityOk, FoldTypes
  <2>3. dnames[left] \in InputNames(c, names)
    BY <1>2 DEF InputNames
  <2>. QED
    BY <1>2, <2>1, <2>2, <2>3 DEF GateFits
<1>4. Computes(c, names, d, dnames, link, {}, T \cup {left})
  <2>1. CASE left \in T
    <3>1. T \cup {left} = T
      BY <2>1
    <3>. QED
      BY <1>1, <3>1
  <2>2. CASE left \notin T
    <3>1. AgreeOn(T, d, dnames, d, dnames) /\ left \in GateIds(d) \ {} /\ GateIds(d) \subseteq GateIds(d)
      BY <1>2 DEF AgreeOn
    <3>. QED
      BY <1>1, <1>3, <2>2, <3>1, ComputesMore
  <2>. QED
    BY <2>1, <2>2
<1>. QED
  BY <1>4 DEF Reduces

(* One gate is added over gates that are there.                             *)
AddsGate(c, names, d, dnames, e, enames, link, T, rank, ra, type, ops, new, more) ==
    /\ IsAddition(d, dnames, e, enames, type, ops) /\ ops \in Seq(T) /\ ArityOk(type, Len(ops))
    /\ new = Len(d.gates) + 1
    /\ Reduces(c, names, e, enames, link, {}, T \cup {new}, more, ra)
    /\ more[new] \in Nat /\ \A k \in GateIds(d) : more[k] = rank[k]
    /\ \A values, val : Represents(c, names, e, enames, link, {}, T \cup {new}, values, val) =>
          AddedIs(c, names, d, dnames, link, {}, T, type, ops, new, values, val)

(* One more gate over those of T leaves all that holds as it is.            *)
LEMMA OneGateAdded ==
    ASSUME NEW c, WellFormed(c), NEW names, NEW d, NEW dnames, NEW link, NEW T, NEW rank, NEW ra,
           Reduces(c, names, d, dnames, link, {}, T, rank, ra),
           NEW type, NEW ops, NEW e, NEW enames, IsAddition(d, dnames, e, enames, type, ops),
           ops \in Seq(T), ArityOk(type, Len(ops)), NEW new, new = Len(d.gates) + 1,
           NEW r, r \in Nat, \A i \in DOMAIN ops : rank[ops[i]] < r
    PROVE  \E more : AddsGate(c, names, d, dnames, e, enames, link, T, rank, ra, type, ops, new, more)
<1> DEFINE more == RankAdded(rank, new, r)
<1>1. IsReduction(c, d, link, {}, rank) /\ Carries(c, d, link, {}, T)
  BY DEF Reduces, Computes
<1>2. Reduces(c, names, e, enames, link, {}, T \cup {new}, more, ra)
  BY AddGate
<1>3. \A values, val : Represents(c, names, e, enames, link, {}, T \cup {new}, values, val) =>
          AddedIs(c, names, d, dnames, link, {}, T, type, ops, new, values, val)
  BY <1>1, AddedState
<1>4. more[new] \in Nat /\ \A k \in GateIds(d) : more[k] = rank[k]
  <2>1. Len(d.gates) \in Nat
    BY <1>1 DEF IsReduction
  <2>. QED
    BY <2>1 DEF RankAdded, GateIds
<1> HIDE DEF more
<1>5. AddsGate(c, names, d, dnames, e, enames, link, T, rank, ra, type, ops, new, more)
  BY <1>2, <1>3, <1>4 DEF AddsGate
<1>. QED
  BY <1>5

(* x OR NOT x is true, x AND NOT x is false.                                *)
LEMMA GadgetState ==
    ASSUME NEW type \in {"OR", "AND"}, NEW x \in Bits, NEW a, a = <<x, NOT(x)>>
    PROVE  Operator(type, a) = IF type = "OR" THEN StTrue ELSE StFalse
<1>1. NOT(x) \in Bits /\ x # NOT(x)
  BY BitFacts
<1>2. a \in [1 .. 2 -> GateStates] /\ a[1] = x /\ a[2] = NOT(x)
  <2>1. x \in GateStates /\ NOT(x) \in GateStates
    BY <1>1 DEF Bits, GateStates
  <2>. QED
    BY <2>1
<1>3. Operator(type, a) = FoldValue(type, a, 2)
  <2>1. type \in FoldTypes /\ 2 \in Nat /\ 2 >= 2
    BY DEF FoldTypes
  <2>. QED
    BY <1>2, <2>1, FoldValueIs
<1>4. \A zero \in Bits : Met(a, 2, zero) = zero
  <2> SUFFICES ASSUME NEW zero \in Bits PROVE Met(a, 2, zero) = zero
    OBVIOUS
  <2>1. \E i \in 1 .. 2 : a[i] = zero
    <3>1. a[1] = zero \/ a[2] = zero
      BY <1>1, <1>2, BitFacts
    <3>. QED
      BY <3>1
  <2>. QED
    BY <2>1 DEF Met
<1>. QED
  BY <1>3, <1>4, FoldValueCases, BitNames

(* Two elements are appended one by one.                                    *)
AppendedInTurn(s, x, y) == s \o <<x, y>> = Append(Append(s, x), y)

(* Two gates are appended one after the other.                              *)
LEMMA TwoAppended ==
    ASSUME NEW M, NEW s \in Seq(M), NEW x, NEW y
    PROVE  AppendedInTurn(s, x, y)
<1>1. PICK S : S = M \cup {x, y}
  OBVIOUS
<1>2. s \in Seq(S) /\ x \in S /\ y \in S
  BY <1>1, SequenceOfMore
<1>3. PICK l : l = s \o <<x, y>>
  OBVIOUS
<1>4. PICK r : r = Append(Append(s, x), y)
  OBVIOUS
<1>5. /\ l \in Seq(S) /\ DOMAIN l = 1 .. Len(s) + 2
      /\ \A k \in 1 .. Len(s) + 2 : l[k] = IF k <= Len(s) THEN s[k] ELSE <<x, y>>[k - Len(s)]
  BY <1>2, <1>3
<1>6. /\ r \in Seq(S) /\ DOMAIN r = 1 .. Len(s) + 2 /\ r[Len(s) + 1] = x /\ r[Len(s) + 2] = y
      /\ \A k \in 1 .. Len(s) : r[k] = s[k]
  BY <1>2, <1>4
<1>7. ASSUME NEW k \in 1 .. Len(s) + 2 PROVE l[k] = r[k]
  <2>0. Len(s) \in Nat
    BY <1>2
  <2>1. CASE k <= Len(s)
    BY <1>5, <1>6, <2>0, <2>1
  <2>2. CASE k = Len(s) + 1
    BY <1>5, <1>6, <2>0, <2>2
  <2>3. CASE k = Len(s) + 2
    BY <1>5, <1>6, <2>0, <2>3
  <2>. QED
    BY <2>0, <2>1, <2>2, <2>3
<1>8. l = [k \in 1 .. Len(s) + 2 |-> l[k]] /\ r = [k \in 1 .. Len(s) + 2 |-> r[k]]
  <2>1. l = [k \in DOMAIN l |-> l[k]] /\ r = [k \in DOMAIN r |-> r[k]]
    BY <1>5, <1>6
  <2>. QED
    BY <1>5, <1>6, <2>1
<1>. QED
  BY <1>3, <1>4, <1>7, <1>8 DEF AppendedInTurn

(* Such a gadget over an input has the state b.                             *)
IsGadget(c, names, d, dnames, e, enames, link, T, ra, S, more, output, b) ==
    /\ Reduces(c, names, e, enames, link, {}, S, more, ra) /\ T \subseteq S /\ output \in S
    /\ \A values, val : Represents(c, names, e, enames, link, {}, S, values, val) =>
          Represents(c, names, d, dnames, link, {}, T, values, val) /\ val[output] = b

(* The gadget: the negation of a gate, and a gate over both.                *)
IsGadgetOver(d, e, left, type) ==
    e.gates = d.gates \o <<GateInfo("NOT", <<left>>), GateInfo(type, <<left, Len(d.gates) + 1>>)>>

(* The gadget is added with the constant state it was built for, and leaves *)
(* all else as it is.                                                       *)
LEMMA GadgetAdded ==
    ASSUME NEW c, WellFormed(c), NEW names, NEW d, NEW dnames, NEW link, NEW T, NEW rank, NEW ra,
           Reduces(c, names, d, dnames, link, {}, T, rank, ra),
           NEW left \in InputGates(d), dnames[left] = names[left],
           NEW right, right = Len(d.gates) + 1, NEW output, output = Len(d.gates) + 2,
           NEW type \in {"OR", "AND"},
           NEW e, IsGadgetOver(d, e, left, type),
           NEW enames, \A k \in GateIds(d) : enames[k] = dnames[k],
           NEW b, b = (IF type = "OR" THEN StTrue ELSE StFalse)
    PROVE  \E S, more : IsGadget(c, names, d, dnames, e, enames, link, T, ra, S, more, output, b)
<1> DEFINE I == T \cup {left}
           m == Negation(d, left)
<1>1. /\ d.gates \in Seq(GateInfos(Len(d.gates))) /\ Len(d.gates) \in Nat
      /\ left \in GateIds(d) /\ rank[left] \in Nat
  BY DEF Reduces, IsReduction, IsRanking, InputGates
<1>2. Reduces(c, names, d, dnames, link, {}, I, rank, ra)
  BY InputJoins
<1>3. \E mid : AddsGate(c, names, d, dnames, m, enames, link, I, rank, ra, "NOT", <<left>>, right, mid)
  <2>1. IsAddition(d, dnames, m, enames, "NOT", <<left>>)
    BY <1>1 DEF IsAddition, Negation, OperatorTypes
  <2>2. <<left>> \in Seq(I) /\ ArityOk("NOT", Len(<<left>>))
    BY DEF ArityOk, FoldTypes
  <2>3. rank[left] + 1 \in Nat /\ \A i \in DOMAIN <<left>> : rank[<<left>>[i]] < rank[left] + 1
    BY <1>1
  <2> HIDE DEF I, m
  <2>. QED
    BY <1>2, <2>1, <2>2, <2>3, OneGateAdded
<1>4. PICK mid : AddsGate(c, names, d, dnames, m, enames, link, I, rank, ra, "NOT", <<left>>, right, mid)
  BY <1>3
<1>5. /\ Reduces(c, names, m, enames, link, {}, I \cup {right}, mid, ra)
      /\ mid[right] \in Nat /\ mid[left] \in Nat
      /\ \A values, val : Represents(c, names, m, enames, link, {}, I \cup {right}, values, val) =>
            AddedIs(c, names, d, dnames, link, {}, I, "NOT", <<left>>, right, values, val)
  BY <1>1, <1>4 DEF AddsGate
<1>6. /\ m.gates = Append(d.gates, GateInfo("NOT", <<left>>)) /\ Len(m.gates) = right
      /\ GateIds(m) = GateIds(d) \cup {right} /\ output = Len(m.gates) + 1
  <2>1. m.gates = Append(d.gates, GateInfo("NOT", <<left>>))
    BY DEF Negation
  <2>. QED
    BY <1>1, <2>1 DEF GateIds
<1>7. e.gates = Append(m.gates, GateInfo(type, <<left, right>>))
  <2>1. PICK x : x = GateInfo("NOT", <<left>>)
    OBVIOUS
  <2>2. PICK y : y = GateInfo(type, <<left, right>>)
    OBVIOUS
  <2>3. d.gates \o <<x, y>> = Append(Append(d.gates, x), y)
    <3>1. AppendedInTurn(d.gates, x, y)
      BY <1>1, TwoAppended
    <3>. QED
      BY <3>1 DEF AppendedInTurn
  <2>4. e.gates = d.gates \o <<x, y>>
    BY <2>1, <2>2 DEF IsGadgetOver
  <2>. QED
    BY <1>6, <2>1, <2>2, <2>3, <2>4
<1>8. \E more : AddsGate(c, names, m, enames, e, enames, link, I \cup {right}, mid, ra,
                         type, <<left, right>>, output, more)
  <2>1. IsAddition(m, enames, e, enames, type, <<left, right>>)
    BY <1>1, <1>6, <1>7 DEF IsAddition, OperatorTypes, FoldTypes
  <2>2. <<left, right>> \in Seq(I \cup {right}) /\ ArityOk(type, Len(<<left, right>>))
    BY DEF ArityOk, FoldTypes
  <2>3. PICK r \in Nat : mid[left] < r /\ mid[right] < r
    <3>1. mid[left] < mid[left] + mid[right] + 1 /\ mid[right] < mid[left] + mid[right] + 1
      BY <1>5
    <3>. QED
      BY <1>5, <3>1
  <2>4. \A i \in DOMAIN <<left, right>> : mid[<<left, right>>[i]] < r
    BY <2>3
  <2> HIDE DEF I, m
  <2>. QED
    BY <1>5, <1>6, <2>1, <2>2, <2>3, <2>4, OneGateAdded
<1>9. PICK more : AddsGate(c, names, m, enames, e, enames, link, I \cup {right}, mid, ra,
                           type, <<left, right>>, output, more)
  BY <1>8
<1> DEFINE S == (I \cup {right}) \cup {output}
<1>10. /\ Reduces(c, names, e, enames, link, {}, S, more, ra)
       /\ \A values, val : Represents(c, names, e, enames, link, {}, S, values, val) =>
             AddedIs(c, names, m, enames, link, {}, I \cup {right}, type, <<left, right>>, output, values, val)
  BY <1>9 DEF AddsGate
<1>11. ASSUME NEW values, NEW val, Represents(c, names, e, enames, link, {}, S, values, val)
       PROVE  Represents(c, names, d, dnames, link, {}, T, values, val) /\ val[output] = b
  <2>1. /\ Represents(c, names, m, enames, link, {}, I \cup {right}, values, val)
        /\ val[output] = Operator(type, OperandValues(<<left, right>>, val))
    BY <1>10, <1>11 DEF AddedIs
  <2>2. /\ Represents(c, names, d, dnames, link, {}, I, values, val)
        /\ val[right] = Operator("NOT", OperandValues(<<left>>, val))
    BY <1>5, <2>1 DEF AddedIs
  <2>3. Represents(c, names, d, dnames, link, {}, T, values, val)
    <3>1. AgreeOn(T, d, dnames, d, dnames) /\ T \subseteq I /\ {} \in SUBSET {}
      BY DEF AgreeOn
    <3>. QED
      BY <2>2, <3>1, RepresentsLess
  <2>4. val[left] \in Bits
    BY <2>2 DEF Represents
  <2>5. val[right] = NOT(val[left])
    <3>1. OperandValues(<<left>>, val)[1] = val[left]
      BY DEF OperandValues
    <3>. QED
      BY <2>2, <3>1 DEF Operator
  <2>6. OperandValues(<<left, right>>, val) = <<val[left], NOT(val[left])>>
    BY <2>5 DEF OperandValues
  <2>7. val[output] = b
    BY <2>1, <2>4, <2>6, GadgetState
  <2>. QED
    BY <2>3, <2>7
<1>12. T \subseteq S /\ output \in S
  OBVIOUS
<1> HIDE DEF S, I, m
<1>13. IsGadget(c, names, d, dnames, e, enames, link, T, ra, S, more, output, b)
  BY <1>10, <1>11, <1>12 DEF IsGadget
<1>. QED
  BY <1>13

------------------------------------------------------------------------------
(* A circuit that is copied, or keeps its shape, stays one that the next    *)
(* can work on.                                                             *)
LEMMA ShapeIsUsable ==
    ASSUME NEW info, IsUsable(info), NEW other, NEW n, n = Len(info.operands),
           other.type = info.type, Len(other.operands) = n, NEW S, other.operands \in Seq(S)
    PROVE  IsUsable(other)
<1>1. info.type = "INPUT" => other.operands = <<>>
  <2> SUFFICES ASSUME info.type = "INPUT" PROVE other.operands = <<>>
    OBVIOUS
  <2>1. info.operands = <<>>
    BY DEF IsUsable
  <2>2. n = 0
    BY <2>1
  <2>. QED
    BY <2>2
<1>. QED
  BY <1>1 DEF IsUsable

(* A copy of gates that the next transformer can work on is one too.        *)
LEMMA CopyIsUsable ==
    ASSUME NEW c, Usable(c), NEW S, NEW d, NEW m, IsCopy(c, S, d, m),
           \A k \in GateIds(d) : \E g \in S : m[g] = k
    PROVE  Usable(d)
<1> SUFFICES ASSUME NEW k \in GateIds(d) PROVE IsUsable(d.gates[k])
  BY DEF Usable
<1>1. PICK g \in S : m[g] = k
  OBVIOUS
<1> DEFINE n == Len(Operands(c, g))
           a == [i \in 1 .. n |-> m[Operands(c, g)[i]]]
<1>2. g \in GateIds(c) /\ Operands(c, g) \in Seq(GateIds(c)) /\ Type(d, k) = Type(c, g)
  BY <1>1 DEF IsCopy
<1>3. IsReordering(Operands(d, k), a, n, Type(c, g))
  BY <1>1 DEF IsCopy
<1>4. n \in Nat
  BY <1>2
<1> HIDE DEF n, a
<1>5. PICK p : Operands(d, k) = [i \in 1 .. n |-> a[p[i]]]
  BY <1>3, ZenonT(60) DEF IsReordering
<1> DEFINE ids == {a[p[i]] : i \in 1 .. n}
<1>6. Operands(d, k) \in [1 .. n -> ids]
  BY <1>5
<1> HIDE DEF ids
<1>7. Operands(d, k) \in Seq(ids) /\ Len(Operands(d, k)) = n
  BY <1>4, <1>6, FunctionIsSequence
<1>8. IsUsable(c.gates[g])
  BY <1>2 DEF Usable
<1>. QED
  BY <1>2, <1>7, <1>8, ShapeIsUsable DEF Type, Operands, n

(* So is a circuit whose gates have the types and the numbers of operands   *)
(* they had.                                                                *)
LEMMA SameShapeIsUsable ==
    ASSUME NEW c, Usable(c), NEW d, WellFormed(d), GateIds(d) = GateIds(c),
           \A g \in GateIds(c) : /\ Type(d, g) = Type(c, g)
                                 /\ Len(Operands(d, g)) = Len(Operands(c, g))
    PROVE  Usable(d)
<1> SUFFICES ASSUME NEW g \in GateIds(d) PROVE IsUsable(d.gates[g])
  BY DEF Usable
<1>1. IsUsable(c.gates[g])
  BY DEF Usable
<1>2. Operands(d, g) \in Seq(GateIds(d))
  BY WellFormedFacts
<1>3. Type(d, g) = Type(c, g) /\ Len(Operands(d, g)) = Len(Operands(c, g))
  OBVIOUS
<1>. QED
  BY <1>1, <1>2, <1>3, ShapeIsUsable DEF Type, Operands

(* The encoders that come with them are sequences.                          *)
LEMMA FunctionIsNames ==
    ASSUME NEW n \in Nat, NEW f, DOMAIN f = 1 .. n, f = [i \in DOMAIN f |-> f[i]]
    PROVE  AreNames(f)
<1> DEFINE S == {f[i] : i \in 1 .. n}
<1>1. f \in [1 .. n -> S]
  OBVIOUS
<1> HIDE DEF S
<1>. QED
  BY <1>1, FunctionIsSequence DEF AreNames

(* The names that number the gates are a sequence.                          *)
LEMMA NaturalNamesAre ==
    ASSUME NEW c, Len(c.gates) \in Nat
    PROVE  AreNames(NaturalNames(c))
<1>1. DOMAIN NaturalNames(c) = 1 .. Len(c.gates)
  BY DEF NaturalNames, GateIds
<1>2. NaturalNames(c) = [i \in DOMAIN NaturalNames(c) |-> NaturalNames(c)[i]]
  BY DEF NaturalNames
<1>. QED
  BY <1>1, <1>2, FunctionIsNames

==============================================================================
