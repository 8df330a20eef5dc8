--------------------- MODULE DuplicateGatesCleanerProofs ---------------------
(****************************************************************************)
(* Proofs that DuplicateGatesCleaner_ keeps, on every well-formed circuit,  *)
(* its two encoders in step, and that it is a transformer: what it returns  *)
(* computes the function of what it was given.  A new id is greater than    *)
(* those of the operands, so that merging gates closes no cycle; gates of   *)
(* one id have one auxiliary name, and so the result is a copy in the sense *)
(* of CircuitLemmas, in which several gates may have one copy.              *)
(****************************************************************************)
EXTENDS DuplicateGatesCleaner, CircuitLemmas, TLAPS

(* Auxiliary names.                                                         *)
AuxNames == GateTypes \X Seq(Nat)

(* The gates that the first loop has given an id.                           *)
Waits(g) == \E i \in 1 .. Len(todo) : todo[i] = g
Named == IF pc = "name" THEN {g \in GateIds(circuit) : ~Waits(g)} ELSE GateIds(circuit)

(* The gate that a gate becomes.                                            *)
Rebuilt(g) == GateInfo(Type(circuit, g), NewOperands(g))

------------------------------------------------------------------------------
(* The inductive invariant.                                                 *)

Given == WellFormed(circuit) /\ NamesGates(circuit, names)

(* The first loop has every gate before it once, and operands first.        *)
TodoInv ==
    /\ todo \in Seq(GateIds(circuit))
    /\ pc = "name" =>
          \A i, j \in 1 .. Len(todo) :
              /\ todo[i] = todo[j] => i = j
              /\ todo[j] \in OperandSet(circuit, todo[i]) => j < i

IdsTyped ==
    /\ aux_names \in Seq(AuxNames) /\ IsEncoder(aux_names)
    /\ new_encoder \in Seq(GateIds(circuit)) /\ Len(new_encoder) = Len(aux_names)
    /\ old_to_new_gateId \in [GateIds(circuit) -> 0 .. Len(aux_names)]
    /\ safe_mask \subseteq GateIds(circuit)

(* An id belongs to a gate, whose operands have smaller ids.                *)
IdsOfGates ==
    \A i \in 1 .. Len(aux_names) :
        /\ new_encoder[i] \in Named /\ old_to_new_gateId[new_encoder[i]] = i
        /\ \A o \in OperandSet(circuit, new_encoder[i]) : old_to_new_gateId[o] < i

(* A gate has the id of its auxiliary name, and stays if the id is its own; *)
(* so far all others stay.                                                  *)
GatesOfIds ==
    /\ \A g \in GateIds(circuit) : g \notin Named => g \in safe_mask
    /\ \A g \in Named :
          /\ old_to_new_gateId[g] \in 1 .. Len(aux_names)
          /\ aux_names[old_to_new_gateId[g]] = get_gate_auxiliary_name_(g)
          /\ OperandSet(circuit, g) \subseteq Named
          /\ g \in safe_mask <=> new_encoder[old_to_new_gateId[g]] = g

IdsInv == IdsTyped /\ IdsOfGates /\ GatesOfIds

(* The second loop has built the gates that stay and do not wait.           *)
GatesInv ==
    IF pc = "name" THEN gate_info = <<>>
    ELSE /\ gate_info \in [1 .. Len(aux_names) -> GateInfos(Len(aux_names))]
         /\ \A g \in safe_mask : (pc = "build" => ~Waits(g)) =>
               gate_info[old_to_new_gateId[g]] = Rebuilt(g)

OutputsInv ==
    new_output_gates = IF pc \in {"name", "build"} THEN <<>>
                       ELSE [k \in DOMAIN circuit.outputs |-> old_to_new_gateId[circuit.outputs[k]]]

NamesInv ==
    new_names = IF pc # "done" THEN NoEncoder
                ELSE [i \in 1 .. Len(aux_names) |-> names[new_encoder[i]]]

Inv ==
    /\ Given
    /\ IF pc = "ready" THEN TypeOK /\ EncodersAgree
       ELSE /\ pc \in {"name", "build", "outputs", "done"}
            /\ TodoInv /\ IdsInv /\ GatesInv /\ OutputsInv /\ NamesInv

------------------------------------------------------------------------------
(* A well-formed circuit has a ranking.                                     *)
LEMMA GivenFacts ==
    ASSUME Given
    PROVE  /\ Len(circuit.gates) \in Nat /\ OperandsInside(circuit)
           /\ IsRanking(circuit, ConeSizes(circuit))
           /\ \A g \in GateIds(circuit) :
                 /\ Type(circuit, g) \in GateTypes
                 /\ Operands(circuit, g) \in Seq(GateIds(circuit))
                 /\ \A i \in 1 .. Len(Operands(circuit, g)) :
                       Operands(circuit, g)[i] \in OperandSet(circuit, g)
           /\ circuit.outputs \in Seq(GateIds(circuit)) /\ OutputSet(circuit) \subseteq GateIds(circuit)
<1>1. WellFormed(circuit)
  BY DEF Given
<1>2. /\ OperandsInside(circuit) /\ IsAcyclic(circuit)
      /\ \A g \in GateIds(circuit) :
            Type(circuit, g) \in GateTypes /\ Operands(circuit, g) \in Seq(GateIds(circuit))
      /\ circuit.outputs \in Seq(GateIds(circuit)) /\ OutputSet(circuit) \subseteq GateIds(circuit)
  BY <1>1, WellFormedFacts
<1>3. ASSUME NEW g \in GateIds(circuit), NEW i \in 1 .. Len(Operands(circuit, g))
      PROVE  Operands(circuit, g)[i] \in OperandSet(circuit, g)
  <2>1. i \in DOMAIN Operands(circuit, g)
    BY <1>2
  <2>. QED
    BY <2>1 DEF OperandSet
<1>. QED
  BY <1>2, <1>3 DEF OperandsInside, IsAcyclic

(* Where operands have ids, what is made of them has.                       *)
LEMMA NewOperandsTyped ==
    ASSUME Given, NEW n \in Nat, NEW g \in GateIds(circuit),
           \A o \in OperandSet(circuit, g) : old_to_new_gateId[o] \in 1 .. n
    PROVE  /\ NewOperands(g) \in Seq(1 .. n)
           /\ get_gate_auxiliary_name_(g) \in AuxNames
           /\ Rebuilt(g) \in GateInfos(n)
<1> DEFINE ops == Operands(circuit, g)
           k == Len(ops)
<1>1. /\ ops \in Seq(GateIds(circuit)) /\ Type(circuit, g) \in GateTypes
      /\ \A i \in 1 .. k : ops[i] \in OperandSet(circuit, g)
  BY GivenFacts
<1>2. k \in Nat /\ DOMAIN ops = 1 .. k
  BY <1>1
<1>3. NewOperands(g) = [i \in 1 .. k |-> old_to_new_gateId[ops[i]]]
  BY <1>2 DEF NewOperands
<1> HIDE DEF k
<1>4. NewOperands(g) \in [1 .. k -> 1 .. n]
  BY <1>1, <1>3
<1>5. NewOperands(g) \in Seq(1 .. n) /\ Len(NewOperands(g)) = k
  <2> DEFINE S == 1 .. n
  <2> HIDE DEF S
  <2>1. NewOperands(g) \in [1 .. k -> S]
    BY <1>4 DEF S
  <2>2. NewOperands(g) \in Seq(S) /\ Len(NewOperands(g)) = k
    BY <1>2, <2>1, FunctionIsSequence
  <2>. QED
    BY <2>2 DEF S
<1>6. NewOperands(g) \in Seq(Nat)
  BY <1>5
<1>7. <<g>> \o NewOperands(g) \in Seq(Nat)
  <2>1. g \in Nat
    BY GivenFacts DEF GateIds
  <2>2. <<g>> \in Seq(Nat)
    BY <2>1
  <2> DEFINE new == NewOperands(g)
             one == <<g>>
  <2>3. one \in Seq(Nat) /\ new \in Seq(Nat)
    BY <1>6, <2>2
  <2> HIDE DEF new, one
  <2>4. one \o new \in Seq(Nat)
    BY <2>3
  <2>. QED
    BY <2>4 DEF new, one
<1>8. get_gate_auxiliary_name_(g) \in AuxNames
  BY <1>1, <1>6, <1>7 DEF get_gate_auxiliary_name_, AuxNames
<1>9. Rebuilt(g) \in GateInfos(n)
  BY <1>1, <1>5, GateInfoTyped DEF Rebuilt
<1>. QED
  BY <1>5, <1>8, <1>9

(* They stay the same as long as the operands keep their ids.               *)
LEMMA NewOperandsKept ==
    ASSUME Given, UNCHANGED circuit, NEW g \in GateIds(circuit),
           \A o \in OperandSet(circuit, g) : old_to_new_gateId'[o] = old_to_new_gateId[o]
    PROVE  /\ NewOperands(g)' = NewOperands(g)
           /\ get_gate_auxiliary_name_(g)' = get_gate_auxiliary_name_(g)
           /\ Rebuilt(g)' = Rebuilt(g)
<1>1. \A i \in DOMAIN Operands(circuit, g) : Operands(circuit, g)[i] \in OperandSet(circuit, g)
  BY DEF OperandSet
<1>2. NewOperands(g)' = NewOperands(g)
  BY <1>1 DEF NewOperands
<1>. QED
  BY <1>2 DEF get_gate_auxiliary_name_, Rebuilt

(* Gates of one auxiliary name become the same gate, and no input shares    *)
(* its name.                                                                *)
LEMMA SameName ==
    ASSUME NEW g, NEW h, get_gate_auxiliary_name_(g) = get_gate_auxiliary_name_(h),
           NewOperands(g) \in Seq(Nat), NewOperands(h) \in Seq(Nat)
    PROVE  /\ Type(circuit, g) = Type(circuit, h)
           /\ Rebuilt(g) = Rebuilt(h) \/ Type(circuit, g) = "INPUT"
           /\ Type(circuit, g) = "INPUT" => g = h
<1>1. Type(circuit, g) = Type(circuit, h)
  BY DEF get_gate_auxiliary_name_
<1>2. Type(circuit, g) # "INPUT" => NewOperands(g) = NewOperands(h)
  BY <1>1 DEF get_gate_auxiliary_name_
<1>3. ASSUME Type(circuit, g) = "INPUT" PROVE g = h
  <2> DEFINE a == NewOperands(g)
             b == NewOperands(h)
  <2>1. <<g>> \o a = <<h>> \o b
    BY <1>1, <1>3 DEF get_gate_auxiliary_name_
  <2>2. a \in Seq(Nat) /\ b \in Seq(Nat)
    OBVIOUS
  <2> HIDE DEF a, b
  <2>3. (<<g>> \o a)[1] = g /\ (<<h>> \o b)[1] = h
    BY <2>2
  <2>. QED
    BY <2>1, <2>3
<1>. QED
  BY <1>1, <1>2, <1>3 DEF Rebuilt

------------------------------------------------------------------------------
(* Start has all gates wait in the order of the sort reversed.              *)
LEMMA StartStep ==
    ASSUME Given, Start PROVE Inv'
<1>0. /\ pc' = "name" /\ todo' = ReversedSort(circuit) /\ safe_mask' = GateIds(circuit)
      /\ aux_names' = <<>> /\ new_encoder' = <<>> /\ gate_info' = <<>>
      /\ new_output_gates' = <<>> /\ new_names' = <<>>
      /\ old_to_new_gateId' = [g \in GateIds(circuit) |-> 0]
      /\ UNCHANGED <<circuit, names>>
  BY DEF Start, NoEncoder, NoGate, ReversedSort
<1>1. Given'
  BY <1>0 DEF Given
<1>2. /\ todo' \in Seq(GateIds(circuit))
      /\ \A g \in GateIds(circuit) : \E i \in 1 .. Len(todo') : todo'[i] = g
      /\ \A i, j \in 1 .. Len(todo') : todo'[i] = todo'[j] => i = j
      /\ \A i, j \in 1 .. Len(todo') : todo'[j] \in OperandSet(circuit, todo'[i]) => j < i
  <2>1. HasOperandsFirst(circuit, ReversedSort(circuit))
    BY GivenFacts, ReversedSortFacts
  <2>. QED
    BY <1>0, <2>1 DEF HasOperandsFirst
<1>3. TodoInv'
  BY <1>0, <1>2 DEF TodoInv
<1>4. Named' = {}
  BY <1>0, <1>2 DEF Named, Waits
<1>5. IdsInv'
  <2>1. IdsTyped'
    BY <1>0 DEF IdsTyped, IsEncoder
  <2>2. IdsOfGates'
    BY <1>0 DEF IdsOfGates
  <2>3. GatesOfIds'
    BY <1>0, <1>4 DEF GatesOfIds
  <2>. QED
    BY <2>1, <2>2, <2>3 DEF IdsInv
<1>6. GatesInv' /\ OutputsInv' /\ NamesInv'
  BY <1>0 DEF GatesInv, OutputsInv, NamesInv, NoEncoder
<1>. QED
  BY <1>0, <1>1, <1>3, <1>5, <1>6 DEF Inv

(* The gate in turn has no id, its operands have, and no other gate gets    *)
(* one.                                                                     *)
LEMMA NextGate ==
    ASSUME Given, TodoInv, todo # <<>>, todo' = Tail(todo), UNCHANGED <<circuit, pc>>
    PROVE  /\ gateId \in GateIds(circuit) /\ TodoInv'
           /\ \A g : Waits(g) => Waits(g)' \/ g = gateId
           /\ pc = "name" =>
                 /\ gateId \notin Named /\ Named' = Named \cup {gateId}
                 /\ OperandSet(circuit, gateId) \subseteq Named
<1> DEFINE n == Len(todo)
           S == GateIds(circuit)
<1>1. todo \in Seq(S) /\ n \in Nat /\ n # 0 /\ DOMAIN todo = 1 .. n
  BY DEF TodoInv
<1>2. gateId = todo[1] /\ gateId \in S
  BY <1>1 DEF gateId
<1>3. /\ todo' \in Seq(S) /\ Len(todo') = n - 1
      /\ \A i \in 1 .. n - 1 : todo'[i] = todo[i + 1]
  <2> HIDE DEF S
  <2>. QED
    BY <1>1
<1>4. \A i \in 1 .. n - 1 : i + 1 \in 1 .. n
  BY <1>1
<1> HIDE DEF n
<1>5. \A g : Waits(g) <=> Waits(g)' \/ g = gateId
  <2> TAKE g
  <2>1. Waits(g) => Waits(g)' \/ g = gateId
    <3> SUFFICES ASSUME NEW i \in 1 .. n, todo[i] = g, i # 1 PROVE Waits(g)'
      BY <1>2 DEF Waits, n
    <3>1. i - 1 \in 1 .. n - 1 /\ i - 1 + 1 = i
      BY <1>1
    <3>2. todo'[i - 1] = g
      BY <1>3, <3>1
    <3>. QED
      BY <1>3, <3>1, <3>2 DEF Waits
  <2>2. Waits(g)' => Waits(g)
    <3> SUFFICES ASSUME NEW i \in 1 .. n - 1, todo'[i] = g PROVE Waits(g)
      BY <1>3 DEF Waits
    <3>. QED
      BY <1>3, <1>4 DEF Waits, n
  <2>3. Waits(gateId)
    <3>1. 1 \in 1 .. n
      BY <1>1
    <3>. QED
      BY <1>2, <3>1 DEF Waits, n
  <2>. QED
    BY <2>1, <2>2, <2>3
<1>6. TodoInv'
  <2> SUFFICES ASSUME pc = "name", NEW i \in 1 .. n - 1, NEW j \in 1 .. n - 1
               PROVE  /\ todo'[i] = todo'[j] => i = j
                      /\ todo'[j] \in OperandSet(circuit, todo'[i]) => j < i
    BY <1>3 DEF TodoInv
  <2>1. /\ todo[i + 1] = todo[j + 1] => i + 1 = j + 1
        /\ todo[j + 1] \in OperandSet(circuit, todo[i + 1]) => j + 1 < i + 1
    BY <1>4 DEF TodoInv, n
  <2>. QED
    BY <1>1, <1>3, <2>1
<1>7. ASSUME pc = "name"
      PROVE  /\ gateId \notin Named /\ Named' = Named \cup {gateId}
             /\ OperandSet(circuit, gateId) \subseteq Named
  <2>0. PICK g : g = gateId
    OBVIOUS
  <2>1. ~Waits(g)'
    <3> SUFFICES ASSUME NEW i \in 1 .. n - 1, todo'[i] = g PROVE FALSE
      BY <1>3 DEF Waits
    <3>1. todo[i + 1] = todo[1] /\ i + 1 # 1
      BY <1>2, <1>3, <2>0
    <3>2. i + 1 \in 1 .. n /\ 1 \in 1 .. n
      BY <1>1, <1>4
    <3>. QED
      BY <1>7, <3>1, <3>2 DEF TodoInv, n
  <2>2. OperandSet(circuit, g) \subseteq S
    BY <1>2, <2>0, GivenFacts DEF OperandsInside
  <2>3. ASSUME NEW o \in OperandSet(circuit, g) PROVE ~Waits(o)
    <3> SUFFICES ASSUME NEW j \in 1 .. n, todo[j] = o PROVE FALSE
      BY DEF Waits, n
    <3>1. 1 \in 1 .. n
      BY <1>1
    <3>2. j < 1
      BY <1>2, <1>7, <2>0, <3>1 DEF TodoInv, n
    <3>. QED
      BY <1>1, <3>2
  <2>4. Named = {h \in S : ~Waits(h)} /\ Named' = {h \in S : ~Waits(h)'}
    BY <1>7 DEF Named
  <2>5. g \in S /\ Waits(g)
    BY <1>2, <1>5, <2>0
  <2>6. Named' = Named \cup {g}
    BY <1>5, <2>0, <2>1, <2>4, <2>5
  <2>7. g \notin Named /\ OperandSet(circuit, g) \subseteq Named
    BY <2>2, <2>3, <2>4, <2>5
  <2>. QED
    BY <2>0, <2>6, <2>7
<1>. QED
  BY <1>2, <1>5, <1>6, <1>7

(* A gate gets an id: the one that is known for its auxiliary name, or the  *)
(* next one, which then is its own.                                         *)
LEMMA NamingStep ==
    ASSUME Given, TodoInv, IdsInv, pc = "name", todo # <<>>,
           UNCHANGED <<circuit, names, pc>>, todo' = Tail(todo),
           NEW id, old_to_new_gateId' = [old_to_new_gateId EXCEPT ![gateId] = id],
           aux_names' \in Seq(AuxNames), IsEncoder(aux_names'), Extends(aux_names', aux_names),
           new_encoder' \in Seq(GateIds(circuit)), Extends(new_encoder', new_encoder),
           Len(new_encoder') = Len(aux_names'),
           id \in 1 .. Len(aux_names'), aux_names'[id] = encoded_name,
           \A i \in 1 .. Len(aux_names') :
               \/ i \in 1 .. Len(aux_names)
               \/ i = id /\ i > Len(aux_names) /\ new_encoder'[i] = gateId,
           safe_mask' \subseteq GateIds(circuit),
           \A h : h # gateId => (h \in safe_mask' <=> h \in safe_mask),
           gateId \in safe_mask' <=> new_encoder'[id] = gateId
    PROVE  IdsInv'
<1> DEFINE m == old_to_new_gateId
           S == GateIds(circuit)
           n == Len(aux_names)
<1>0. PICK g : g = gateId
  OBVIOUS
<1>1. /\ g \in S /\ g \notin Named /\ Named' = Named \cup {g}
      /\ OperandSet(circuit, g) \subseteq Named
  BY <1>0, NextGate
<1>2. /\ m \in [S -> 0 .. n] /\ aux_names \in Seq(AuxNames) /\ n \in Nat /\ DOMAIN aux_names = 1 .. n
      /\ new_encoder \in Seq(S) /\ Len(new_encoder) = n /\ DOMAIN new_encoder = 1 .. n
      /\ Len(aux_names') \in Nat /\ n <= Len(aux_names')
  BY DEF IdsInv, IdsTyped, Extends
<1>3. /\ \A i \in 1 .. n : aux_names'[i] = aux_names[i] /\ new_encoder'[i] = new_encoder[i]
      /\ \A i \in 1 .. n : i \in 1 .. Len(aux_names')
  <2>1. \A i \in DOMAIN aux_names : aux_names'[i] = aux_names[i]
    BY DEF Extends
  <2>2. \A i \in DOMAIN new_encoder : new_encoder'[i] = new_encoder[i]
    BY DEF Extends
  <2>3. \A i \in 1 .. n : i \in 1 .. Len(aux_names')
    BY <1>2
  <2> HIDE DEF n
  <2>. QED
    BY <1>2, <2>1, <2>2, <2>3
<1>4. Named \subseteq S
  BY DEF Named
<1>5. m' = [m EXCEPT ![g] = id]
  BY <1>0
<1>6. m'[g] = id /\ \A h \in Named : h # g /\ h \in S /\ m'[h] = m[h]
  BY <1>1, <1>2, <1>4, <1>5
<1>7. IdsTyped'
  <2>1. m' \in [S -> 0 .. Len(aux_names')]
    <3>1. \A k \in 0 .. n : k \in 0 .. Len(aux_names')
      BY <1>2
    <3>2. id \in 0 .. Len(aux_names')
      BY <1>2
    <3>3. m \in [S -> 0 .. Len(aux_names')]
      BY <1>2, <3>1
    <3> HIDE DEF S, m
    <3>. QED
      BY <1>5, <3>2, <3>3
  <2>. QED
    BY <2>1 DEF IdsTyped
<1>8. \A h \in Named : /\ NewOperands(h)' = NewOperands(h)
                       /\ get_gate_auxiliary_name_(h)' = get_gate_auxiliary_name_(h)
  <2> SUFFICES ASSUME NEW h \in Named
               PROVE  /\ NewOperands(h)' = NewOperands(h)
                      /\ get_gate_auxiliary_name_(h)' = get_gate_auxiliary_name_(h)
    OBVIOUS
  <2>1. h \in S /\ \A o \in OperandSet(circuit, h) : m'[o] = m[o]
    BY <1>6 DEF IdsInv, GatesOfIds
  <2>. QED
    BY <2>1, NewOperandsKept
<1>9. get_gate_auxiliary_name_(g)' = get_gate_auxiliary_name_(g)
  <2>1. \A o \in OperandSet(circuit, g) : m'[o] = m[o]
    BY <1>1, <1>6
  <2>. QED
    BY <1>1, <2>1, NewOperandsKept
<1>10. aux_names'[id] = get_gate_auxiliary_name_(g)'
  BY <1>0, <1>9 DEF encoded_name
<1>11. circuit' = circuit
  OBVIOUS
<1>12. IdsOfGates'
  <2> SUFFICES ASSUME NEW i \in 1 .. Len(aux_names')
               PROVE  /\ new_encoder'[i] \in Named' /\ m'[new_encoder'[i]] = i
                      /\ \A o \in OperandSet(circuit, new_encoder'[i]) : m'[o] < i
    BY <1>11 DEF IdsOfGates
  <2>1. CASE i \in 1 .. n
    <3>1. /\ new_encoder[i] \in Named /\ m[new_encoder[i]] = i
          /\ \A o \in OperandSet(circuit, new_encoder[i]) : m[o] < i
      BY <2>1 DEF IdsInv, IdsOfGates
    <3>2. OperandSet(circuit, new_encoder[i]) \subseteq Named
      BY <3>1 DEF IdsInv, GatesOfIds
    <3>. QED
      BY <1>1, <1>3, <1>6, <2>1, <3>1, <3>2
  <2>2. CASE i = id /\ i > n /\ new_encoder'[i] = g
    <3>1. \A o \in OperandSet(circuit, g) : m'[o] \in 1 .. n
      BY <1>1, <1>6 DEF IdsInv, GatesOfIds
    <3>2. \A o \in OperandSet(circuit, g) : m'[o] < i
      BY <1>2, <2>2, <3>1
    <3>. QED
      BY <1>1, <1>6, <2>2, <3>2
  <2>. QED
    BY <1>0, <2>1, <2>2
<1>13. GatesOfIds'
  <2>0. \A h \in S : h \notin Named' => h \in safe_mask'
    BY <1>0, <1>1 DEF IdsInv, GatesOfIds
  <2> SUFFICES ASSUME NEW h \in Named'
               PROVE  /\ m'[h] \in 1 .. Len(aux_names')
                      /\ aux_names'[m'[h]] = get_gate_auxiliary_name_(h)'
                      /\ OperandSet(circuit, h) \subseteq Named'
                      /\ h \in safe_mask' <=> new_encoder'[m'[h]] = h
    BY <1>11, <2>0 DEF GatesOfIds
  <2>1. CASE h \in Named
    <3>1. /\ m[h] \in 1 .. n /\ aux_names[m[h]] = get_gate_auxiliary_name_(h)
          /\ OperandSet(circuit, h) \subseteq Named
          /\ h \in safe_mask <=> new_encoder[m[h]] = h
      BY <2>1 DEF IdsInv, GatesOfIds
    <3>2. m'[h] = m[h] /\ h # g
      BY <1>6, <2>1
    <3>3. h \in safe_mask' <=> h \in safe_mask
      BY <1>0, <3>2
    <3>4. get_gate_auxiliary_name_(h)' = get_gate_auxiliary_name_(h)
      BY <1>8, <2>1
    <3> HIDE DEF m, n
    <3>. QED
      BY <1>1, <1>3, <3>1, <3>2, <3>3, <3>4
  <2>2. CASE h = g
    <3>1. h \in safe_mask' <=> new_encoder'[m'[h]] = h
      BY <1>0, <1>6, <2>2
    <3>. QED
      BY <1>1, <1>6, <1>10, <2>2, <3>1
  <2>. QED
    BY <1>1, <2>1, <2>2
<1>. QED
  BY <1>7, <1>12, <1>13 DEF IdsInv

(* A gate whose auxiliary name is known gets the id of that name.           *)
LEMMA NameDuplicateStep ==
    ASSUME Inv, NameDuplicate PROVE Inv'
<1>0. /\ Given /\ TodoInv /\ IdsInv /\ GatesInv /\ OutputsInv /\ NamesInv
      /\ pc = "name" /\ todo # <<>> /\ todo' = Tail(todo)
      /\ KeyExists(aux_names, encoded_name)
      /\ safe_mask' = safe_mask \ {gateId}
      /\ old_to_new_gateId' = [old_to_new_gateId EXCEPT ![gateId] = IdOf(aux_names, encoded_name)]
      /\ UNCHANGED <<circuit, names, pc, aux_names, new_encoder, gate_info, new_output_gates, new_names>>
  BY DEF Inv, NameDuplicate, Visited
<1>1. Given' /\ TodoInv'
  BY <1>0, NextGate DEF Given
<1> DEFINE id == IdOf(aux_names, encoded_name)
<1>2. /\ aux_names \in Seq(AuxNames) /\ IsEncoder(aux_names) /\ DOMAIN aux_names = 1 .. Len(aux_names)
      /\ new_encoder \in Seq(GateIds(circuit)) /\ Len(new_encoder) = Len(aux_names)
      /\ safe_mask \subseteq GateIds(circuit)
  BY <1>0 DEF IdsInv, IdsTyped
<1>3. id \in 1 .. Len(aux_names) /\ aux_names[id] = encoded_name
  BY <1>0, <1>2, IdOfFacts
<1>4. Extends(aux_names', aux_names) /\ Extends(new_encoder', new_encoder)
  BY <1>0, <1>2 DEF Extends
<1>5. new_encoder[id] # gateId
  <2>1. new_encoder[id] \in Named
    BY <1>0, <1>3 DEF IdsInv, IdsOfGates
  <2>2. gateId \notin Named
    BY <1>0, NextGate
  <2>. QED
    BY <2>1, <2>2
<1>6. IdsInv'
  <2>1. /\ gateId \in safe_mask' <=> new_encoder'[id] = gateId
        /\ safe_mask' \subseteq GateIds(circuit)
        /\ \A h : h # gateId => (h \in safe_mask' <=> h \in safe_mask)
    BY <1>0, <1>2, <1>5
  <2>2. /\ aux_names' \in Seq(AuxNames) /\ IsEncoder(aux_names')
        /\ new_encoder' \in Seq(GateIds(circuit)) /\ Len(new_encoder') = Len(aux_names')
        /\ id \in 1 .. Len(aux_names') /\ aux_names'[id] = encoded_name
        /\ \A i \in 1 .. Len(aux_names') :
               \/ i \in 1 .. Len(aux_names)
               \/ i = id /\ i > Len(aux_names) /\ new_encoder'[i] = gateId
    BY <1>0, <1>2, <1>3
  <2>3. old_to_new_gateId' = [old_to_new_gateId EXCEPT ![gateId] = id]
    BY <1>0
  <2>4. PICK k : k = id
    OBVIOUS
  <2> HIDE DEF id
  <2>5. /\ old_to_new_gateId' = [old_to_new_gateId EXCEPT ![gateId] = k]
        /\ k \in 1 .. Len(aux_names') /\ aux_names'[k] = encoded_name
        /\ gateId \in safe_mask' <=> new_encoder'[k] = gateId
        /\ \A i \in 1 .. Len(aux_names') :
               \/ i \in 1 .. Len(aux_names)
               \/ i = k /\ i > Len(aux_names) /\ new_encoder'[i] = gateId
    BY <2>1, <2>2, <2>3, <2>4
  <2>. QED
    BY <1>0, <1>4, <2>1, <2>2, <2>5, NamingStep
<1>7. GatesInv' /\ OutputsInv' /\ NamesInv'
  BY <1>0 DEF GatesInv, OutputsInv, NamesInv
<1>. QED
  BY <1>0, <1>1, <1>6, <1>7 DEF Inv

(* A gate with a new auxiliary name gets the next id of both encoders.      *)
LEMMA NameNewStep ==
    ASSUME Inv, NameNew PROVE Inv'
<1>0. /\ Given /\ TodoInv /\ IdsInv /\ GatesInv /\ OutputsInv /\ NamesInv
      /\ pc = "name" /\ todo # <<>> /\ todo' = Tail(todo)
      /\ ~KeyExists(aux_names, encoded_name)
      /\ new_encoder' = EncodeGate(new_encoder, gateId)
      /\ aux_names' = EncodeGate(aux_names, encoded_name)
      /\ old_to_new_gateId' = [old_to_new_gateId EXCEPT ![gateId] = IdOf(aux_names, encoded_name)]
      /\ UNCHANGED <<circuit, names, pc, safe_mask, gate_info, new_output_gates, new_names>>
  BY DEF Inv, NameNew, Visited
<1>1. /\ Given' /\ TodoInv' /\ gateId \in GateIds(circuit) /\ gateId \notin Named
      /\ OperandSet(circuit, gateId) \subseteq Named
  BY <1>0, NextGate DEF Given
<1> DEFINE n == Len(aux_names)
<1>2. /\ aux_names \in Seq(AuxNames) /\ IsEncoder(aux_names) /\ DOMAIN aux_names = 1 .. n /\ n \in Nat
      /\ new_encoder \in Seq(GateIds(circuit)) /\ Len(new_encoder) = n /\ DOMAIN new_encoder = 1 .. n
      /\ safe_mask \subseteq GateIds(circuit)
  BY <1>0 DEF IdsInv, IdsTyped
<1>3. encoded_name \in AuxNames
  <2>1. \A o \in OperandSet(circuit, gateId) : old_to_new_gateId[o] \in 1 .. n
    BY <1>0, <1>1 DEF IdsInv, GatesOfIds
  <2>. QED
    BY <1>0, <1>1, <1>2, <2>1, NewOperandsTyped DEF encoded_name
<1>4. /\ IdOf(aux_names, encoded_name) = n + 1
      /\ aux_names' = Append(aux_names, encoded_name)
      /\ aux_names' \in Seq(AuxNames) /\ IsEncoder(aux_names') /\ Extends(aux_names', aux_names)
  BY <1>0, <1>2, <1>3, EncodeGateFacts, NewIdFacts
<1>5. ~KeyExists(new_encoder, gateId)
  <2>1. \A i \in 1 .. n : new_encoder[i] \in Named
    BY <1>0 DEF IdsInv, IdsOfGates
  <2>. QED
    BY <1>1, <1>2, <2>1 DEF KeyExists
<1>6. /\ new_encoder' = Append(new_encoder, gateId)
      /\ new_encoder' \in Seq(GateIds(circuit)) /\ Extends(new_encoder', new_encoder)
  BY <1>0, <1>1, <1>2, <1>5, EncodeGateFacts
<1>7. /\ Len(aux_names') = n + 1 /\ aux_names'[n + 1] = encoded_name
      /\ Len(new_encoder') = n + 1 /\ new_encoder'[n + 1] = gateId
  BY <1>1, <1>2, <1>3, <1>4, <1>6
<1>8. gateId \in safe_mask
  BY <1>0, <1>1 DEF IdsInv, GatesOfIds
<1>9. IdsInv'
  <2>1. /\ gateId \in safe_mask' <=> new_encoder'[n + 1] = gateId
        /\ safe_mask' \subseteq GateIds(circuit)
        /\ \A h : h # gateId => (h \in safe_mask' <=> h \in safe_mask)
    BY <1>0, <1>2, <1>7, <1>8
  <2>2. PICK k : k = n + 1
    OBVIOUS
  <2>3. /\ old_to_new_gateId' = [old_to_new_gateId EXCEPT ![gateId] = k]
        /\ k \in 1 .. Len(aux_names') /\ aux_names'[k] = encoded_name
        /\ gateId \in safe_mask' <=> new_encoder'[k] = gateId
        /\ \A i \in 1 .. Len(aux_names') :
               \/ i \in 1 .. Len(aux_names)
               \/ i = k /\ i > Len(aux_names) /\ new_encoder'[i] = gateId
    BY <1>0, <1>2, <1>4, <1>7, <2>1, <2>2
  <2>. QED
    BY <1>0, <1>4, <1>6, <1>7, <2>1, <2>3, NamingStep
<1>10. GatesInv' /\ OutputsInv' /\ NamesInv'
  BY <1>0 DEF GatesInv, OutputsInv, NamesInv
<1>. QED
  BY <1>0, <1>1, <1>9, <1>10 DEF Inv

------------------------------------------------------------------------------
(* What is said of ids does not change with what comes after them.          *)
LEMMA IdsKept ==
    ASSUME IdsInv, Named' = Named,
           UNCHANGED <<circuit, safe_mask, aux_names, old_to_new_gateId, new_encoder>>
    PROVE  IdsInv'
<1>1. \A g : get_gate_auxiliary_name_(g)' = get_gate_auxiliary_name_(g)
  BY DEF get_gate_auxiliary_name_, NewOperands
<1>2. IdsTyped'
  BY DEF IdsInv, IdsTyped
<1>3. IdsOfGates'
  BY DEF IdsInv, IdsOfGates
<1>4. GatesOfIds'
  BY <1>1 DEF IdsInv, GatesOfIds
<1>. QED
  BY <1>2, <1>3, <1>4 DEF IdsInv

(* After the first loop every gate has an id, and so has what it is made of *)
(* when it is built.                                                        *)
LEMMA IdsOfAll ==
    ASSUME Given, IdsInv, Named = GateIds(circuit)
    PROVE  /\ Len(aux_names) \in Nat /\ DOMAIN new_encoder = 1 .. Len(aux_names)
           /\ \A g \in GateIds(circuit) :
                 /\ old_to_new_gateId[g] \in 1 .. Len(aux_names)
                 /\ NewOperands(g) \in Seq(1 .. Len(aux_names))
                 /\ Rebuilt(g) \in GateInfos(Len(aux_names))
           /\ \A i \in 1 .. Len(aux_names) :
                 /\ new_encoder[i] \in GateIds(circuit) /\ new_encoder[i] \in safe_mask
                 /\ old_to_new_gateId[new_encoder[i]] = i
           /\ safe_mask \subseteq GateIds(circuit)
           /\ \A g, h \in safe_mask : old_to_new_gateId[g] = old_to_new_gateId[h] => g = h
<1>1. /\ Len(aux_names) \in Nat /\ DOMAIN new_encoder = 1 .. Len(aux_names)
      /\ safe_mask \subseteq GateIds(circuit)
  BY DEF IdsInv, IdsTyped
<1>2. \A g \in GateIds(circuit) :
         /\ old_to_new_gateId[g] \in 1 .. Len(aux_names)
         /\ OperandSet(circuit, g) \subseteq GateIds(circuit)
         /\ g \in safe_mask <=> new_encoder[old_to_new_gateId[g]] = g
  BY DEF IdsInv, GatesOfIds
<1>3. \A i \in 1 .. Len(aux_names) :
         new_encoder[i] \in GateIds(circuit) /\ old_to_new_gateId[new_encoder[i]] = i
  BY DEF IdsInv, IdsOfGates
<1>4. \A i \in 1 .. Len(aux_names) : new_encoder[i] \in safe_mask
  BY <1>2, <1>3
<1>5. ASSUME NEW g \in GateIds(circuit)
      PROVE  NewOperands(g) \in Seq(1 .. Len(aux_names)) /\ Rebuilt(g) \in GateInfos(Len(aux_names))
  <2>1. \A o \in OperandSet(circuit, g) : old_to_new_gateId[o] \in 1 .. Len(aux_names)
    BY <1>2
  <2>. QED
    BY <1>1, <2>1, NewOperandsTyped
<1>6. \A g, h \in safe_mask : old_to_new_gateId[g] = old_to_new_gateId[h] => g = h
  BY <1>1, <1>2
<1>. QED
  BY <1>1, <1>2, <1>3, <1>4, <1>5, <1>6

(* gate_info gets a place for each id, and none is filled.                  *)
LEMMA AllocateGatesStep ==
    ASSUME Inv, AllocateGates PROVE Inv'
<1>0. /\ Given /\ TodoInv /\ IdsInv /\ OutputsInv /\ NamesInv
      /\ pc = "name" /\ todo = <<>> /\ pc' = "build"
      /\ gate_info' = [i \in DOMAIN aux_names |-> NoGateInfo]
      /\ todo' = [g \in GateIds(circuit) |-> g]
      /\ UNCHANGED <<circuit, names, safe_mask, aux_names, old_to_new_gateId, new_encoder,
                     new_output_gates, new_names>>
  BY DEF Inv, AllocateGates
<1>1. Given'
  BY <1>0 DEF Given
<1>2. todo' \in Seq(GateIds(circuit)) /\ Len(todo') = Len(circuit.gates)
  <2>1. Len(circuit.gates) \in Nat /\ todo' \in [1 .. Len(circuit.gates) -> GateIds(circuit)]
    BY <1>0, GivenFacts DEF GateIds
  <2>. QED
    BY <2>1, FunctionIsSequence
<1>3. TodoInv'
  BY <1>0, <1>2 DEF TodoInv
<1>4. Named' = Named /\ Named = GateIds(circuit)
  <2>1. \A g : ~Waits(g)
    BY <1>0 DEF Waits
  <2>. QED
    BY <1>0, <2>1 DEF Named
<1>5. IdsInv'
  BY <1>0, <1>4, IdsKept
<1>6. GatesInv'
  <2>1. NoGateInfo \in GateInfos(Len(aux_names))
    BY DEF NoGateInfo, GateInfos, GateTypes
  <2>2. DOMAIN aux_names = 1 .. Len(aux_names) /\ safe_mask \subseteq GateIds(circuit)
    BY <1>0 DEF IdsInv, IdsTyped
  <2>3. gate_info' \in [1 .. Len(aux_names) -> GateInfos(Len(aux_names))]
    BY <1>0, <2>1, <2>2
  <2>4. \A g \in safe_mask : Waits(g)'
    <3>1. \A g \in GateIds(circuit) : g \in 1 .. Len(todo') /\ todo'[g] = g
      BY <1>0, <1>2 DEF GateIds
    <3>. QED
      BY <2>2, <3>1 DEF Waits
  <2>. QED
    BY <1>0, <2>3, <2>4 DEF GatesInv
<1>7. OutputsInv' /\ NamesInv'
  BY <1>0 DEF OutputsInv, NamesInv
<1>. QED
  BY <1>0, <1>1, <1>3, <1>5, <1>6, <1>7 DEF Inv

(* A gate that stays is put at the place of its id, which no other gate     *)
(* that stays has.                                                          *)
LEMMA BuildGateStep ==
    ASSUME Inv, BuildGate PROVE Inv'
<1>0. /\ Given /\ TodoInv /\ IdsInv /\ GatesInv /\ OutputsInv /\ NamesInv
      /\ pc = "build" /\ todo # <<>> /\ todo' = Tail(todo)
      /\ gate_info' = IF gateId \in safe_mask
                      THEN [gate_info EXCEPT ![old_to_new_gateId[gateId]] = Rebuilt(gateId)]
                      ELSE gate_info
      /\ UNCHANGED <<circuit, names, pc, safe_mask, aux_names, old_to_new_gateId, new_encoder,
                     new_output_gates, new_names>>
  BY DEF Inv, BuildGate, Visited, Rebuilt
<1>1. Given' /\ TodoInv' /\ \A g : Waits(g) => Waits(g)' \/ g = gateId
  BY <1>0, NextGate DEF Given
<1>2. Named' = Named /\ Named = GateIds(circuit)
  BY <1>0 DEF Named
<1>3. IdsInv'
  BY <1>0, <1>2, IdsKept
<1>4. GatesInv'
  <2> DEFINE n == Len(aux_names)
             m == old_to_new_gateId
  <2>0. PICK x : x = gateId
    OBVIOUS
  <2>1. /\ gate_info \in [1 .. n -> GateInfos(n)]
        /\ \A g \in safe_mask : ~Waits(g) => gate_info[m[g]] = Rebuilt(g)
    BY <1>0 DEF GatesInv
  <2>2. /\ \A g \in safe_mask : m[g] \in 1 .. n /\ Rebuilt(g) \in GateInfos(n)
        /\ \A g, h \in safe_mask : m[g] = m[h] => g = h
    BY <1>0, <1>2, IdsOfAll
  <2>3. gate_info' = IF x \in safe_mask THEN [gate_info EXCEPT ![m[x]] = Rebuilt(x)] ELSE gate_info
    BY <1>0, <2>0
  <2> DEFINE R == GateInfos(n)
  <2>4. gate_info' \in [1 .. n -> R]
    <3>1. gate_info \in [1 .. n -> R] /\ \A g \in safe_mask : m[g] \in 1 .. n /\ Rebuilt(g) \in R
      BY <2>1, <2>2
    <3> HIDE DEF R, n, m
    <3>. QED
      BY <2>3, <3>1
  <2>5. ASSUME NEW g \in safe_mask, ~Waits(g)' PROVE gate_info'[m[g]] = Rebuilt(g)
    <3>1. ~Waits(g) \/ g = x
      BY <1>1, <2>0, <2>5
    <3> HIDE DEF n, m, R
    <3>2. CASE g = x
      BY <2>1, <2>2, <2>3, <3>2
    <3>3. CASE g # x /\ ~Waits(g)
      <4>1. x \in safe_mask => m[g] # m[x]
        BY <2>2, <3>3
      <4>. QED
        BY <2>1, <2>2, <2>3, <3>3, <4>1
    <3>. QED
      BY <3>1, <3>2, <3>3
  <2>6. \A g : Rebuilt(g)' = Rebuilt(g)
    BY <1>0 DEF Rebuilt, NewOperands
  <2>7. pc' = "build" /\ aux_names' = aux_names /\ safe_mask' = safe_mask /\ m' = m
    BY <1>0
  <2>. QED
    BY <2>4, <2>5, <2>6, <2>7 DEF GatesInv
<1>5. OutputsInv' /\ NamesInv'
  BY <1>0 DEF OutputsInv, NamesInv
<1>. QED
  BY <1>0, <1>1, <1>3, <1>4, <1>5 DEF Inv

(* Outputs become what their gates have become.                             *)
LEMMA RebuildOutputsStep ==
    ASSUME Inv, RebuildOutputs PROVE Inv'
<1>0. /\ Given /\ TodoInv /\ IdsInv /\ GatesInv /\ OutputsInv /\ NamesInv
      /\ pc = "build" /\ todo = <<>> /\ pc' = "outputs"
      /\ new_output_gates' = [k \in DOMAIN circuit.outputs |-> old_to_new_gateId[circuit.outputs[k]]]
      /\ UNCHANGED <<circuit, names, todo, safe_mask, aux_names, old_to_new_gateId, new_encoder,
                     gate_info, new_names>>
  BY DEF Inv, RebuildOutputs
<1>1. Given' /\ TodoInv' /\ OutputsInv' /\ NamesInv'
  BY <1>0 DEF Given, TodoInv, OutputsInv, NamesInv
<1>2. Named' = Named
  BY <1>0 DEF Named
<1>3. IdsInv'
  BY <1>0, <1>2, IdsKept
<1>4. GatesInv'
  <2>1. \A g : ~Waits(g)
    BY <1>0 DEF Waits
  <2>2. \A g : Rebuilt(g)' = Rebuilt(g)
    BY <1>0 DEF Rebuilt, NewOperands
  <2>. QED
    BY <1>0, <2>1, <2>2 DEF GatesInv
<1>. QED
  BY <1>0, <1>1, <1>3, <1>4 DEF Inv

(* Gates that stay keep their names.                                        *)
LEMMA ReturnStep ==
    ASSUME Inv, Return PROVE Inv'
<1>0. /\ Given /\ TodoInv /\ IdsInv /\ GatesInv /\ OutputsInv /\ NamesInv
      /\ pc = "outputs" /\ pc' = "done"
      /\ new_names' = MergeGateEncoders(names, new_encoder)
      /\ UNCHANGED <<circuit, names, todo, safe_mask, aux_names, old_to_new_gateId, new_encoder,
                     gate_info, new_output_gates>>
  BY DEF Inv, Return
<1>1. Given' /\ TodoInv' /\ OutputsInv'
  BY <1>0 DEF Given, TodoInv, OutputsInv
<1>2. Named' = Named /\ Named = GateIds(circuit)
  BY <1>0 DEF Named
<1>3. IdsInv'
  BY <1>0, <1>2, IdsKept
<1>4. GatesInv'
  <2>1. \A g : Rebuilt(g)' = Rebuilt(g)
    BY <1>0 DEF Rebuilt, NewOperands
  <2>. QED
    BY <1>0, <2>1 DEF GatesInv
<1>5. NamesInv'
  <2> DEFINE n == Len(aux_names)
             keys == [i \in 1 .. n |-> names[new_encoder[i]]]
             S == {names[new_encoder[i]] : i \in 1 .. n}
  <2>1. /\ n \in Nat /\ DOMAIN new_encoder = 1 .. n
        /\ \A i \in 1 .. n : new_encoder[i] \in GateIds(circuit) /\ old_to_new_gateId[new_encoder[i]] = i
    BY <1>0, <1>2, IdsOfAll
  <2>2. new_names' = EncodeGates(NoEncoder, keys)
    BY <1>0, <2>1 DEF MergeGateEncoders, DecodeGate
  <2>3. keys \in [1 .. n -> S]
    OBVIOUS
  <2>4. keys \in Seq(S) /\ DOMAIN keys = 1 .. n
    <3> HIDE DEF S, n, keys
    <3>. QED
      BY <2>1, <2>3, FunctionIsSequence
  <2>5. IsEncoder(keys)
    <3>1. \A g, h \in GateIds(circuit) : names[g] = names[h] => g = h
      BY <1>0 DEF Given, NamesGates
    <3> HIDE DEF n
    <3>. QED
      BY <2>1, <2>4, <3>1 DEF IsEncoder
  <2> HIDE DEF S
  <2>6. new_names' = keys
    BY <2>2, <2>4, <2>5, EncodeNewKeys
  <2>. QED
    BY <1>0, <2>6 DEF NamesInv
<1>. QED
  BY <1>0, <1>1, <1>3, <1>4, <1>5 DEF Inv

------------------------------------------------------------------------------
(* There are no more ids than gates, since each id belongs to a gate.       *)
LEMMA IdsAreFew ==
    ASSUME Given, IdsInv PROVE Len(aux_names) <= Len(circuit.gates)
<1> DEFINE n == Len(aux_names)
           k == Len(circuit.gates)
<1>1. /\ n \in Nat /\ k \in Nat /\ new_encoder \in Seq(1 .. k) /\ Len(new_encoder) = n
      /\ \A i \in 1 .. n : old_to_new_gateId[new_encoder[i]] = i
  BY GivenFacts DEF IdsInv, IdsTyped, IdsOfGates, GateIds
<1> HIDE DEF n, k
<1>2. new_encoder \in Injection(1 .. n, 1 .. k)
  BY <1>1 DEF Injection, IsInjective
<1>3. /\ IsFiniteSet(1 .. k) /\ Cardinality(1 .. k) = k /\ Cardinality(1 .. n) = n
  BY <1>1, FS_Interval
<1>4. Cardinality(1 .. n) <= Cardinality(1 .. k)
  BY <1>2, <1>3, FS_Injection
<1>. QED
  BY <1>3, <1>4 DEF n, k

(* The invariant gives all variables their types.                           *)
LEMMA InvTyped ==
    ASSUME Inv PROVE TypeOK
<1> SUFFICES ASSUME pc # "ready" PROVE TypeOK
  BY DEF Inv
<1> DEFINE n == Len(aux_names)
<1>1. /\ Given /\ TodoInv /\ IdsInv /\ GatesInv /\ OutputsInv /\ NamesInv
      /\ pc \in {"name", "build", "outputs", "done"}
  BY DEF Inv
<1>2. /\ n \in Nat /\ safe_mask \subseteq GateIds(circuit)
      /\ new_encoder \in Seq(GateIds(circuit)) /\ Len(new_encoder) = n
      /\ old_to_new_gateId \in [GateIds(circuit) -> 0 .. n]
  BY <1>1 DEF IdsInv, IdsTyped
<1>3. old_to_new_gateId \in [GateIds(circuit) -> 0 .. Len(circuit.gates)]
  <2>1. Len(circuit.gates) \in Nat /\ n <= Len(circuit.gates)
    BY <1>1, IdsAreFew, GivenFacts
  <2>2. \A k \in 0 .. n : k \in 0 .. Len(circuit.gates)
    BY <1>2, <2>1
  <2> HIDE DEF n
  <2>. QED
    BY <1>2, <2>2
<1>4. \A i \in DOMAIN gate_info : gate_info[i].type \in GateTypes
  <2>1. CASE pc = "name"
    BY <1>1, <2>1 DEF GatesInv
  <2>2. CASE pc # "name"
    <3>1. gate_info \in [1 .. n -> GateInfos(n)]
      BY <1>1, <2>2 DEF GatesInv
    <3>. QED
      BY <3>1 DEF GateInfos
  <2>. QED
    BY <2>1, <2>2
<1>5. new_output_gates \in Seq(DOMAIN gate_info)
  <2>1. CASE pc \in {"name", "build"}
    BY <1>1, <2>1 DEF OutputsInv
  <2>2. CASE pc \notin {"name", "build"}
    <3>1. DOMAIN gate_info = 1 .. n
      BY <1>1, <2>2 DEF GatesInv
    <3>2. new_output_gates = [k \in DOMAIN circuit.outputs |-> old_to_new_gateId[circuit.outputs[k]]]
      BY <1>1, <2>2 DEF OutputsInv
    <3>3. \A g \in GateIds(circuit) : old_to_new_gateId[g] \in 1 .. n
      BY <1>1, <2>2, IdsOfAll DEF Named
    <3>4. circuit.outputs \in Seq(GateIds(circuit))
      BY <1>1, GivenFacts
    <3> DEFINE S == 1 .. n
               l == Len(circuit.outputs)
    <3>5. l \in Nat /\ new_output_gates \in [1 .. l -> S]
      BY <3>2, <3>3, <3>4
    <3> HIDE DEF S, l
    <3>6. new_output_gates \in Seq(S)
      BY <3>5, FunctionIsSequence
    <3>. QED
      BY <3>1, <3>6 DEF S
  <2>. QED
    BY <2>1, <2>2
<1>6. new_names \in Seq({names[g] : g \in GateIds(circuit)})
  <2> DEFINE S == {names[g] : g \in GateIds(circuit)}
  <2>1. CASE pc # "done"
    BY <1>1, <2>1 DEF NamesInv, NoEncoder
  <2>2. CASE pc = "done"
    <3>1. new_names = [i \in 1 .. n |-> names[new_encoder[i]]]
      BY <1>1, <2>2 DEF NamesInv
    <3>2. new_names \in [1 .. n -> S]
      BY <1>2, <3>1
    <3> HIDE DEF n, S
    <3>. QED
      BY <1>2, <3>2, FunctionIsSequence DEF S
  <2>. QED
    BY <2>1, <2>2
<1>7. todo \in Seq(GateIds(circuit))
  BY <1>1 DEF TodoInv
<1>. QED
  BY <1>1, <1>2, <1>3, <1>4, <1>5, <1>6, <1>7 DEF TypeOK

(* Whatever the loops have done, the encoders agree.                        *)
LEMMA InvAgrees ==
    ASSUME Inv PROVE EncodersAgree
<1> SUFFICES ASSUME pc # "ready" PROVE EncodersAgree
  BY DEF Inv
<1>1. IdsInv
  BY DEF Inv
<1>2. /\ Len(new_encoder) = Len(aux_names) /\ DOMAIN new_encoder = 1 .. Len(aux_names)
      /\ \A i \in 1 .. Len(aux_names) : old_to_new_gateId[new_encoder[i]] = i
  BY <1>1 DEF IdsInv, IdsTyped, IdsOfGates
<1>. QED
  BY <1>2 DEF EncodersAgree

------------------------------------------------------------------------------
(* The circuit returned holds at each id a copy of all gates that have the  *)
(* id: a gate that stays and the duplicates of it.                          *)
LEMMA ResultIsCopy ==
    ASSUME Inv, pc = "done"
    PROVE  /\ IsCopy(circuit, GateIds(circuit), Result, old_to_new_gateId)
           /\ \A k \in GateIds(Result) : \E g \in GateIds(circuit) : old_to_new_gateId[g] = k
           /\ Result.outputs = [k \in DOMAIN circuit.outputs |-> old_to_new_gateId[circuit.outputs[k]]]
           /\ \A g \in GateIds(circuit) :
                 Type(circuit, g) = "INPUT" => new_names[old_to_new_gateId[g]] = names[g]
           /\ IdsInRange(Result) /\ NamesGates(Result, new_names)
<1> DEFINE m == old_to_new_gateId
           n == Len(aux_names)
           S == GateIds(circuit)
<1>0. /\ Given /\ IdsInv /\ GatesInv /\ OutputsInv /\ NamesInv /\ Named = S /\ TypeOK
  BY InvTyped DEF Inv, Named
<1>1. /\ n \in Nat
      /\ \A g \in S : m[g] \in 1 .. n
      /\ \A i \in 1 .. n : new_encoder[i] \in S /\ new_encoder[i] \in safe_mask /\ m[new_encoder[i]] = i
      /\ \A g \in S : NewOperands(g) \in Seq(1 .. n)
  BY <1>0, IdsOfAll
<1>2. /\ gate_info \in [1 .. n -> GateInfos(n)]
      /\ \A g \in safe_mask : gate_info[m[g]] = Rebuilt(g)
  BY <1>0 DEF GatesInv
<1>3. gate_info \in Seq(GateInfos(n)) /\ Len(gate_info) = n
  <2> HIDE DEF n
  <2>. QED
    BY <1>1, <1>2, FunctionIsSequence
<1>4. Result.gates = gate_info /\ Result.outputs = new_output_gates /\ GateIds(Result) = 1 .. n
  BY <1>3 DEF Result, GateIds
<1>5. ASSUME NEW g \in S
      PROVE  /\ Type(circuit, g) = Type(circuit, new_encoder[m[g]])
             /\ Rebuilt(g) = Rebuilt(new_encoder[m[g]])
             /\ Type(circuit, g) = "INPUT" => g = new_encoder[m[g]]
  <2>0. PICK h : h = new_encoder[m[g]]
    OBVIOUS
  <2>1. h \in S /\ m[h] = m[g]
    BY <1>1, <2>0
  <2>2. get_gate_auxiliary_name_(g) = get_gate_auxiliary_name_(h)
    BY <1>0, <2>1 DEF IdsInv, GatesOfIds
  <2>3. NewOperands(g) \in Seq(Nat) /\ NewOperands(h) \in Seq(Nat)
    <3>1. NewOperands(g) \in Seq(1 .. n) /\ NewOperands(h) \in Seq(1 .. n)
      BY <1>1, <2>1
    <3> HIDE DEF n
    <3>. QED
      BY <1>1, <3>1
  <2>4. /\ Type(circuit, g) = Type(circuit, h)
        /\ Rebuilt(g) = Rebuilt(h) \/ Type(circuit, g) = "INPUT"
        /\ Type(circuit, g) = "INPUT" => g = h
    BY <2>2, <2>3, SameName
  <2>. QED
    BY <2>0, <2>4
<1>6. IsCopy(circuit, S, Result, m)
  <2>1. \A g \in S : m[g] \in GateIds(Result) /\ Operands(circuit, g) \in Seq(S)
    BY <1>0, <1>1, <1>4, GivenFacts
  <2>2. ASSUME NEW g \in S
        PROVE  Result.gates[m[g]] =
                   GateInfo(Type(circuit, g), [i \in DOMAIN Operands(circuit, g) |-> m[Operands(circuit, g)[i]]])
    <3>1. Result.gates[m[g]] = Rebuilt(g)
      <4>0. PICK h : h = new_encoder[m[g]]
        OBVIOUS
      <4>1. h \in safe_mask /\ m[h] = m[g]
        BY <1>1, <4>0
      <4>2. gate_info[m[h]] = Rebuilt(h)
        BY <1>2, <4>1
      <4>3. Rebuilt(g) = Rebuilt(h)
        BY <1>5, <4>0
      <4>. QED
        BY <1>4, <4>1, <4>2, <4>3
    <3>. QED
      BY <3>1 DEF Rebuilt, NewOperands
  <2>3. S \subseteq GateIds(circuit) /\ IsClosed(circuit, S)
    BY <1>0, GivenFacts DEF IsClosed, OperandsInside
  <2>. QED
    BY <2>1, <2>2, <2>3, RebuiltIsCopy
<1>7. Result.outputs = [k \in DOMAIN circuit.outputs |-> m[circuit.outputs[k]]]
  BY <1>0, <1>4 DEF OutputsInv
<1>8. new_names = [i \in 1 .. n |-> names[new_encoder[i]]] /\ Len(new_names) = n
  <2>1. new_names = [i \in 1 .. n |-> names[new_encoder[i]]]
    BY <1>0 DEF NamesInv
  <2>2. new_names \in [1 .. n -> {names[new_encoder[i]] : i \in 1 .. n}]
    BY <2>1
  <2> HIDE DEF n
  <2>. QED
    BY <1>1, <2>1, <2>2, FunctionIsSequence
<1>9. \A g \in S : Type(circuit, g) = "INPUT" => new_names[m[g]] = names[g]
  <2> SUFFICES ASSUME NEW g \in S, Type(circuit, g) = "INPUT" PROVE new_names[m[g]] = names[g]
    OBVIOUS
  <2>1. m[g] \in 1 .. n /\ new_encoder[m[g]] = g
    BY <1>1, <1>5
  <2>. QED
    BY <1>8, <2>1
<1>10. IdsInRange(Result)
  <2>1. DOMAIN gate_info = 1 .. n
    BY <1>2
  <2>2. Result.outputs \in Seq(GateIds(Result))
    BY <1>0, <1>4, <2>1 DEF TypeOK
  <2>. QED
    BY <1>3, <1>4, <2>2 DEF IdsInRange
<1>11. NamesGates(Result, new_names)
  <2>1. \A g, h \in S : names[g] = names[h] => g = h
    BY <1>0 DEF Given, NamesGates
  <2>2. \A i, j \in 1 .. n : new_names[i] = new_names[j] => i = j
    <3> HIDE DEF n
    <3>. QED
      BY <1>1, <1>8, <2>1
  <2>. QED
    BY <1>3, <1>4, <1>8, <2>2 DEF NamesGates
<1>12. \A k \in GateIds(Result) : \E g \in S : m[g] = k
  BY <1>1, <1>4
<1>. QED
  BY <1>6, <1>7, <1>9, <1>10, <1>11, <1>12

(* Ids grow from operands to users, and so it has no cycle.                 *)
LEMMA ResultIsAcyclic ==
    ASSUME Inv, pc = "done" PROVE IsAcyclic(Result)
<1> DEFINE m == old_to_new_gateId
           d == Result
           rank == [k \in GateIds(d) |-> k]
<1>0. IdsInv
  BY DEF Inv
<1>1. /\ IsCopy(circuit, GateIds(circuit), d, m) /\ OperandsInside(d)
      /\ GateIds(d) \subseteq 1 .. Len(aux_names) /\ Len(aux_names) \in Nat
  <2>1. GatesInv /\ pc # "name" /\ Len(aux_names) \in Nat
    BY <1>0 DEF Inv, IdsInv, IdsTyped
  <2>2. gate_info \in [1 .. Len(aux_names) -> GateInfos(Len(aux_names))]
    BY <2>1 DEF GatesInv
  <2> DEFINE n == Len(aux_names)
             R == GateInfos(n)
  <2>3. Len(gate_info) = n
    <3> HIDE DEF n, R
    <3>. QED
      BY <2>1, <2>2, FunctionIsSequence DEF n, R
  <2>. QED
    BY <2>1, <2>3, ResultIsCopy, InRangeInside DEF GateIds, Result
<1> HIDE DEF d
<1>2. ASSUME NEW k \in GateIds(d), NEW o \in OperandSet(d, k) PROVE o \in GateIds(d) /\ o < k
  <2>0. PICK g : g = new_encoder[k]
    OBVIOUS
  <2>1. /\ g \in GateIds(circuit) /\ m[g] = k
        /\ \A h \in OperandSet(circuit, g) : m[h] < k
    BY <1>0, <1>1, <2>0 DEF IdsInv, IdsOfGates, Named
  <2>2. \E h \in OperandSet(circuit, g) : o = m[h]
    <3> DEFINE T == GateIds(circuit)
    <3>1. IsCopy(circuit, T, d, m) /\ g \in T /\ o \in OperandSet(d, m[g])
      BY <1>1, <2>1
    <3> HIDE DEF m, T
    <3>. QED
      BY <3>1, OperandOfCopy
  <2>3. o \in GateIds(d)
    BY <1>1 DEF OperandsInside
  <2>. QED
    BY <2>1, <2>2, <2>3
<1>3. \A k \in GateIds(d) : k \in Nat
  BY DEF GateIds
<1>4. IsRanking(d, rank)
  BY <1>2, <1>3 DEF IsRanking
<1> HIDE DEF rank
<1>. QED
  BY <1>1, <1>4, RankedIsAcyclic DEF d

(* It is well formed and computes the same function of the same inputs.     *)
LEMMA ResultIsCorrect ==
    ASSUME Inv, pc = "done"
    PROVE  /\ WellFormed(Result) /\ NamesGates(Result, new_names)
           /\ SameFunction(circuit, names, Result, new_names)
<1> DEFINE d == Result
           m == old_to_new_gateId
           T == GateIds(circuit)
<1>1. /\ IsCopy(circuit, T, d, m)
      /\ \A k \in GateIds(d) : \E g \in T : m[g] = k
      /\ d.outputs = [k \in DOMAIN circuit.outputs |-> m[circuit.outputs[k]]]
      /\ \A g \in T : Type(circuit, g) = "INPUT" => new_names[m[g]] = names[g]
      /\ IdsInRange(d) /\ NamesGates(d, new_names)
  BY ResultIsCopy
<1>2. IsAcyclic(d)
  BY ResultIsAcyclic
<1>3. WellFormed(circuit) /\ OutputSet(circuit) \subseteq T
  BY GivenFacts DEF Inv, Given
<1> HIDE DEF d, m, T
<1>4. WellFormed(d) /\ SameFunction(circuit, names, d, new_names)
  BY <1>1, <1>2, <1>3, CopyIsCorrect
<1>. QED
  BY <1>1, <1>4 DEF d

(* The next transformer can work on it, if this one could on what it was    *)
(* given.                                                                   *)
LEMMA ResultIsUsable ==
    ASSUME Inv, pc = "done"
    PROVE  (Usable(circuit) => Usable(Result)) /\ AreNames(new_names)
<1>1. Usable(circuit) => Usable(Result)
  BY ResultIsCopy, CopyIsUsable
<1>2. AreNames(new_names)
  <2>1. new_names = [i \in 1 .. Len(aux_names) |-> names[new_encoder[i]]]
    BY DEF Inv, NamesInv
  <2>2. aux_names \in Seq(AuxNames)
    BY DEF Inv, IdsInv, IdsTyped
  <2>3. /\ Len(aux_names) \in Nat /\ DOMAIN new_names = 1 .. Len(aux_names)
        /\ new_names = [i \in DOMAIN new_names |-> new_names[i]]
    BY <2>1, <2>2
  <2>. QED
    BY <2>3, FunctionIsNames
<1>. QED
  BY <1>1, <1>2

------------------------------------------------------------------------------
(* A run begins with a circuit that was given.                              *)
LEMMA InitHolds ==
    ASSUME \A c \in Circuits : WellFormed(c), Init PROVE Inv
<1>1. WellFormed(circuit) /\ Len(circuit.gates) \in Nat
  BY DEF Init, WellFormed, IdsInRange
<1>2. Given
  BY <1>1, NaturalNamesFit DEF Init, Given
<1>3. TypeOK
  <2>1. old_to_new_gateId \in [GateIds(circuit) -> 0 .. Len(circuit.gates)]
    BY <1>1 DEF Init, NoGate
  <2>. QED
    BY <2>1 DEF Init, TypeOK, NoEncoder
<1>4. EncodersAgree
  BY DEF Init, EncodersAgree, NoEncoder
<1>. QED
  BY <1>2, <1>3, <1>4 DEF Inv, Init

(* The invariant speaks of the variables of the component only.             *)
LEMMA StutterHolds ==
    ASSUME Inv, UNCHANGED vars PROVE Inv'
<1>0. UNCHANGED <<circuit, names, pc, todo, safe_mask, aux_names, old_to_new_gateId,
                  new_encoder, gate_info, new_output_gates, new_names>>
  BY DEF vars
<1>1. /\ \A g : Waits(g)' = Waits(g) /\ Rebuilt(g)' = Rebuilt(g)
      /\ Named' = Named
  <2>1. \A g : Waits(g)' = Waits(g)
    BY <1>0 DEF Waits
  <2>2. \A g : Rebuilt(g)' = Rebuilt(g)
    BY <1>0 DEF Rebuilt, NewOperands
  <2>3. Named' = Named
    BY <1>0, <2>1 DEF Named
  <2>. QED
    BY <2>1, <2>2, <2>3
<1>2. Given' = Given /\ TypeOK' = TypeOK /\ EncodersAgree' = EncodersAgree
  BY <1>0 DEF Given, TypeOK, EncodersAgree
<1>3. TodoInv' = TodoInv /\ OutputsInv' = OutputsInv /\ NamesInv' = NamesInv
  BY <1>0 DEF TodoInv, OutputsInv, NamesInv
<1>4. IdsInv => IdsInv'
  BY <1>0, <1>1, IdsKept
<1>5. GatesInv' = GatesInv
  BY <1>0, <1>1 DEF GatesInv
<1>. QED
  BY <1>0, <1>2, <1>3, <1>4, <1>5 DEF Inv

(* All steps keep the invariant.                                            *)
LEMMA NextHolds ==
    ASSUME Inv, [Next]_vars PROVE Inv'
<1>1. CASE Start
  BY <1>1, StartStep DEF Inv
<1>2. CASE NameDuplicate
  BY <1>2, NameDuplicateStep
<1>3. CASE NameNew
  BY <1>3, NameNewStep
<1>4. CASE AllocateGates
  BY <1>4, AllocateGatesStep
<1>5. CASE BuildGate
  BY <1>5, BuildGateStep
<1>6. CASE RebuildOutputs
  BY <1>6, RebuildOutputsStep
<1>7. CASE Return
  BY <1>7, ReturnStep
<1>8. CASE UNCHANGED vars
  BY <1>8, StutterHolds
<1>. QED
  BY <1>1, <1>2, <1>3, <1>4, <1>5, <1>6, <1>7, <1>8 DEF Next

(* The invariant holds whenever the circuits given are well formed.         *)
THEOREM InvAlways ==
    ASSUME \A c \in Circuits : WellFormed(c) PROVE Spec => []Inv
<1>1. Init => Inv
  BY InitHolds
<1>2. Inv /\ [Next]_vars => Inv'
  BY NextHolds
<1>. QED
  BY <1>1, <1>2, PTL DEF Spec

(* All variables keep their types: every id that is looked up is a gate of  *)
(* the circuit or a place of gate_info.                                     *)
THEOREM TypeCorrect ==
    ASSUME \A c \in Circuits : WellFormed(c) PROVE Spec => []TypeOK
<1>1. Inv => TypeOK
  BY InvTyped
<1>. QED
  BY <1>1, InvAlways, PTL

(* The encoder of auxiliary names and the encoder of gates, to which keys   *)
(* are added one by one, number the gates that stay alike.                  *)
THEOREM EncodersStayInStep ==
    ASSUME \A c \in Circuits : WellFormed(c) PROVE Spec => []EncodersAgree
<1>1. Inv => EncodersAgree
  BY InvAgrees
<1>. QED
  BY <1>1, InvAlways, PTL
------------------------------------------------------------------------------
(* DuplicateGatesCleaner_ is a transformer: its circuit is the source, and  *)
(* what it returns is the result, which it has once it is done.             *)
T == INSTANCE Transformer WITH
        source <- circuit, source_names <- names,
        result <- IF pc = "done" THEN Result ELSE [gates |-> <<>>, outputs |-> <<>>],
        result_names <- IF pc = "done" THEN new_names ELSE <<>>,
        done <- pc = "done"

(* Transformer has the notions of Circuits as its own: they are the same.   *)
LEMMA SameNotions ==
    ASSUME NEW c, NEW cnames, NEW d, NEW dnames
    PROVE  /\ T!WellFormed(c) <=> WellFormed(c)
           /\ T!NamesGates(c, cnames) <=> NamesGates(c, cnames)
           /\ T!SameFunction(c, cnames, d, dnames) <=> SameFunction(c, cnames, d, dnames)
<1>1. T!NamesGates(c, cnames) <=> NamesGates(c, cnames)
  BY DEF NamesGates, T!NamesGates, GateIds, T!GateIds
<1>2. ASSUME NEW e, NEW S, NEW g, NEW asmt
      PROVE  /\ T!GateIds(e) = GateIds(e) /\ T!Type(e, g) = Type(e, g)
             /\ T!Operands(e, g) = Operands(e, g) /\ T!OperandSet(e, g) = OperandSet(e, g)
             /\ T!InputGates(e) = InputGates(e) /\ T!OutputSet(e) = OutputSet(e)
             /\ T!Cone(e, S) = Cone(e, S)
  BY DEF T!GateIds, GateIds, T!Type, Type, T!Operands, Operands, T!OperandSet, OperandSet,
         T!InputGates, InputGates, T!OutputSet, OutputSet, T!Cone, Cone
<1>3. T!WellFormed(c) <=> WellFormed(c)
  <2>1. T!IdsInRange(c) <=> IdsInRange(c)
    BY DEF T!IdsInRange, IdsInRange, T!GateInfos, GateInfos, T!GateTypes, GateTypes, T!OperatorTypes, OperatorTypes, T!FoldTypes, FoldTypes, T!GateIds, GateIds
  <2>0. \A S : T!Cardinality(S) = Cardinality(S)
    BY DEF T!Cardinality, Cardinality
  <2>2. T!IsAcyclic(c) <=> IsAcyclic(c)
    BY <1>2, <2>0 DEF T!IsAcyclic, IsAcyclic, T!IsRanking, IsRanking, T!ConeSizes, ConeSizes
  <2>3. ASSUME NEW type, NEW n PROVE T!ArityOk(type, n) <=> ArityOk(type, n)
    BY ZenonT(60) DEF T!ArityOk, ArityOk, T!FoldTypes, FoldTypes
  <2>. QED
    BY <1>2, <2>1, <2>2, <2>3 DEF T!WellFormed, WellFormed
<1>4. ASSUME NEW e, NEW asmt PROVE T!StatesOf(e, asmt) = StatesOf(e, asmt)
  BY DEF T!StatesOf, StatesOf, T!GateIds, GateIds, T!Type, Type, T!Operands, Operands, T!Operator, Operator, T!NOT, NOT, T!IFF, IFF, T!AND, AND, T!OR, OR, T!XOR, XOR, T!MUX, MUX, T!Lookup1, Lookup1, T!Lookup2, Lookup2, T!Lookup3, Lookup3, T!StFalse, StFalse, T!StTrue, StTrue, T!StUndef, StUndef, T!GateStates, GateStates, T!FunctionOf, FunctionOf, T!FoldMap, FoldMap
<1>5. ASSUME NEW e, NEW asmt PROVE T!OutputStates(e, asmt) = OutputStates(e, asmt)
  <2>1. T!CutAtGiven(e, asmt) = CutAtGiven(e, asmt)
    BY DEF T!CutAtGiven, CutAtGiven, T!GateIds, GateIds, T!Type, Type, T!NoGateInfo, NoGateInfo, T!StUndef, StUndef
  <2>. QED
    BY <1>2, <1>4, <2>1 DEF T!OutputStates, OutputStates, T!EvaluateCircuit, EvaluateCircuit, T!StUndef, StUndef
<1>6. T!SameFunction(c, cnames, d, dnames) <=> SameFunction(c, cnames, d, dnames)
  <2>1. ASSUME NEW e, NEW n PROVE T!InputNames(e, n) = InputNames(e, n)
    BY <1>2 DEF T!InputNames, InputNames
  <2>2. ASSUME NEW e, NEW n, NEW v PROVE T!Assignment(e, n, v) = Assignment(e, n, v)
    BY <1>2 DEF T!Assignment, Assignment, T!StUndef, StUndef
  <2>. QED
    BY <1>5, <2>1, <2>2 DEF T!SameFunction, SameFunction, T!StFalse, StFalse, T!StTrue, StTrue
<1>. QED
  BY <1>1, <1>3, <1>6

(* The circuit returned is well formed, the encoder returned names its      *)
(* gates, and it computes the function of the circuit given, known by the   *)
(* names of the inputs.                                                     *)
ReturnsCorrect ==
    pc = "done" =>
        /\ WellFormed(Result) /\ NamesGates(Result, new_names)
        /\ SameFunction(circuit, names, Result, new_names)

(* So it is at the end of every run, whenever the circuits given are well   *)
(* formed.                                                                  *)
THEOREM CorrectAtEnd ==
    ASSUME \A c \in Circuits : WellFormed(c) PROVE Spec => []ReturnsCorrect
<1>1. Inv => ReturnsCorrect
  BY ResultIsCorrect DEF ReturnsCorrect
<1>. QED
  BY <1>1, InvAlways, PTL

(* Return is the step that Transformer allows; all other steps leave what   *)
(* it can see unchanged.                                                    *)
THEOREM IsTransformer ==
    ASSUME \A c \in Circuits : WellFormed(c) PROVE Spec => T!Safety
<1>1. Init /\ Inv => T!Init
  BY SameNotions DEF Init, Inv, Given, T!Init, T!NoCircuit
<1>2. Inv /\ ReturnsCorrect' /\ [Next]_vars => [T!Transform]_(T!vars)
  <2> SUFFICES ASSUME Inv, ReturnsCorrect', [Next]_vars PROVE T!Transform \/ UNCHANGED T!vars
    OBVIOUS
  <2>1. CASE Return
    <3>1. pc = "outputs" /\ pc' = "done" /\ UNCHANGED <<circuit, names>>
      BY <2>1 DEF Return
    <3>2. /\ WellFormed(Result') /\ NamesGates(Result', new_names')
          /\ SameFunction(circuit, names, Result', new_names')
      BY <3>1 DEF ReturnsCorrect
    <3>. QED
      BY <3>1, <3>2, SameNotions DEF T!Transform, T!Correct
  <2>2. CASE pc' # "done" /\ pc # "done" /\ UNCHANGED <<circuit, names>>
    BY <2>2 DEF T!vars
  <2>3. CASE UNCHANGED vars
    BY <2>3 DEF vars, T!vars, Result
  <2>4. CASE Next /\ ~Return
    BY <2>2, <2>4 DEF Next, Start, NameDuplicate, NameNew, AllocateGates, BuildGate, RebuildOutputs
  <2>. QED
    BY <2>1, <2>3, <2>4
<1>. QED
  BY <1>1, <1>2, InvAlways, CorrectAtEnd, PTL DEF Spec, T!Safety
==============================================================================
