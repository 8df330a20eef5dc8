--------------------- MODULE RedundantGatesCleanerProofs ---------------------
(****************************************************************************)
(* Proofs that RedundantGatesCleaner_ does, on every well-formed circuit,   *)
(* what its module says, and that it is a transformer: what it returns      *)
(* computes the function of what it was given.  The gates it keeps are      *)
(* closed under operands; the encoder is a one-to-one numbering of them,    *)
(* and so the rebuilt circuit is a copy in the sense of CircuitLemmas.      *)
(****************************************************************************)
EXTENDS RedundantGatesCleaner, CircuitLemmas, TLAPS

(* The gates that stay.                                                     *)
Kept == {g \in GateIds(circuit) : IsKept(g)}

(* The gate that a kept gate becomes.                                       *)
Rebuilt(g) ==
    GateInfo(Type(circuit, g),
             [i \in DOMAIN Operands(circuit, g) |-> IdOf(encoder_old_to_new, Operands(circuit, g)[i])])

------------------------------------------------------------------------------
(* The inductive invariant.                                                 *)

Given == WellFormed(circuit) /\ NamesGates(circuit, names)

(* The first loop numbers the kept gates below its counter; after it all    *)
(* kept gates have a number and no other gate has.                          *)
EncoderInv ==
    /\ encoder_old_to_new \in Seq(GateIds(circuit)) /\ IsEncoder(encoder_old_to_new)
    /\ \A g \in GateIds(circuit) :
          KeyExists(encoder_old_to_new, g) <=> g \in Kept /\ (pc = "encode" => g < gateId)

(* The second loop has rebuilt the kept gates below its counter.            *)
GatesInv ==
    IF pc = "encode" THEN gate_info = <<>>
    ELSE /\ gate_info \in [DOMAIN encoder_old_to_new -> GateInfos(Len(encoder_old_to_new))]
         /\ \A g \in Kept : (pc = "rebuild" => g < gateId) =>
               gate_info[IdOf(encoder_old_to_new, g)] = Rebuilt(g)

OutputsInv ==
    new_output_gates = IF pc \in {"encode", "rebuild"} THEN <<>>
                       ELSE [k \in DOMAIN circuit.outputs |-> IdOf(encoder_old_to_new, circuit.outputs[k])]

NamesInv ==
    new_names = IF pc # "done" THEN NoEncoder
                ELSE [i \in DOMAIN encoder_old_to_new |-> names[encoder_old_to_new[i]]]

Inv ==
    /\ Given
    /\ IF pc = "ready" THEN TypeOK
       ELSE /\ pc \in {"encode", "rebuild", "outputs", "done"}
            /\ gateId \in 1 .. Len(circuit.gates) + 1
            /\ EncoderInv /\ GatesInv /\ OutputsInv /\ NamesInv

------------------------------------------------------------------------------
(* What is kept is closed under operands, has all outputs, and only gates   *)
(* that can be evaluated.                                                   *)
LEMMA KeptFacts ==
    ASSUME WellFormed(circuit)
    PROVE  /\ Kept \subseteq GateIds(circuit) /\ IsClosed(circuit, Kept)
           /\ OutputSet(circuit) \subseteq Kept
           /\ Cone(circuit, OutputSet(circuit)) \subseteq Kept
           /\ \A g \in Kept : ArityOk(Type(circuit, g), Len(Operands(circuit, g)))
<1> DEFINE cone == Cone(circuit, OutputSet(circuit))
<1>1. /\ cone \subseteq GateIds(circuit) /\ IsClosed(circuit, cone) /\ OutputSet(circuit) \subseteq cone
      /\ \A g \in InputGates(circuit) : Operands(circuit, g) = <<>>
      /\ \A g \in cone : ArityOk(Type(circuit, g), Len(Operands(circuit, g)))
  BY WellFormedFacts DEF WellFormed
<1>2. \A g \in Kept : g \in cone \/ g \in InputGates(circuit)
  BY DEF Kept, IsKept, mask_use_output, InputGates
<1>3. cone \subseteq Kept
  BY <1>1 DEF Kept, IsKept, mask_use_output
<1> HIDE DEF cone
<1>4. ASSUME NEW g \in InputGates(circuit)
      PROVE  /\ OperandSet(circuit, g) = {}
             /\ ArityOk(Type(circuit, g), Len(Operands(circuit, g)))
  <2>1. Operands(circuit, g) = <<>> /\ Type(circuit, g) = "INPUT"
    BY <1>1 DEF InputGates
  <2>2. OperandSet(circuit, g) = {}
    BY <2>1 DEF OperandSet
  <2>3. ArityOk("INPUT", 0)
    BY ZenonT(60) DEF ArityOk, FoldTypes
  <2>4. Len(Operands(circuit, g)) = 0
    BY <2>1
  <2>. QED
    BY <2>1, <2>2, <2>3, <2>4
<1>5. IsClosed(circuit, Kept)
  BY <1>1, <1>2, <1>3, <1>4 DEF IsClosed
<1>6. Kept \subseteq GateIds(circuit)
  BY DEF Kept
<1>. QED
  BY <1>1, <1>2, <1>3, <1>4, <1>5, <1>6 DEF cone

(* Kept gates and their operands have ids once all kept gates are encoded.  *)
LEMMA IdsOfKept ==
    ASSUME Given, EncoderInv, pc # "encode"
    PROVE  /\ \A g \in Kept : /\ KeyExists(encoder_old_to_new, g)
                              /\ IdOf(encoder_old_to_new, g) \in DOMAIN encoder_old_to_new
                              /\ encoder_old_to_new[IdOf(encoder_old_to_new, g)] = g
           /\ \A g, h \in Kept : IdOf(encoder_old_to_new, g) = IdOf(encoder_old_to_new, h) => g = h
           /\ \A k \in DOMAIN encoder_old_to_new :
                 /\ encoder_old_to_new[k] \in Kept
                 /\ IdOf(encoder_old_to_new, encoder_old_to_new[k]) = k
<1> DEFINE e == encoder_old_to_new
<1>1. \A g \in Kept : KeyExists(e, g)
  BY DEF EncoderInv, Kept
<1>2. \A g \in Kept : IdOf(e, g) \in DOMAIN e /\ e[IdOf(e, g)] = g
  BY <1>1, IdOfFacts
<1>3. ASSUME NEW k \in DOMAIN e PROVE e[k] \in Kept /\ IdOf(e, e[k]) = k
  <2>1. e[k] \in GateIds(circuit) /\ KeyExists(e, e[k])
    BY DEF EncoderInv, KeyExists
  <2>2. e[k] \in Kept
    BY <2>1 DEF EncoderInv
  <2>3. IdOf(e, e[k]) = k
    BY <2>1, IdOfFacts DEF EncoderInv
  <2>. QED
    BY <2>2, <2>3
<1> HIDE DEF e
<1>4. \A g, h \in Kept : IdOf(e, g) = IdOf(e, h) => g = h
  BY <1>2
<1>. QED
  BY <1>1, <1>2, <1>3, <1>4 DEF e

(* What a kept gate becomes has a place of gate_info for each operand.      *)
LEMMA RebuiltTyped ==
    ASSUME Given, EncoderInv, pc # "encode"
    PROVE  \A g \in Kept : Rebuilt(g) \in GateInfos(Len(encoder_old_to_new))
<1> SUFFICES ASSUME NEW g \in Kept PROVE Rebuilt(g) \in GateInfos(Len(encoder_old_to_new))
  OBVIOUS
<1> DEFINE e == encoder_old_to_new
           ops == [i \in DOMAIN Operands(circuit, g) |-> IdOf(e, Operands(circuit, g)[i])]
<1>1. Len(e) \in Nat /\ DOMAIN e = 1 .. Len(e)
  BY DEF EncoderInv
<1>2. /\ g \in GateIds(circuit) /\ Type(circuit, g) \in GateTypes
      /\ Operands(circuit, g) \in Seq(GateIds(circuit))
  BY KeptFacts, WellFormedFacts DEF Given
<1>3. \A i \in DOMAIN Operands(circuit, g) : Operands(circuit, g)[i] \in Kept
  BY KeptFacts DEF Given, IsClosed, OperandSet
<1>4. \A h \in Kept : IdOf(e, h) \in 1 .. Len(e)
  BY <1>1, IdsOfKept
<1>5. ops \in Seq(1 .. Len(e))
  <2>1. /\ Len(Operands(circuit, g)) \in Nat
        /\ DOMAIN Operands(circuit, g) = 1 .. Len(Operands(circuit, g))
    BY <1>2
  <2>2. ops \in [1 .. Len(Operands(circuit, g)) -> 1 .. Len(e)]
    <3> HIDE DEF e
    <3>. QED
      BY <1>3, <1>4, <2>1
  <2>. QED
    BY <2>1, <2>2, FunctionIsSequence
<1>6. GateInfo(Type(circuit, g), ops) \in GateInfos(Len(e))
  <2> HIDE DEF ops, e
  <2>. QED
    BY <1>1, <1>2, <1>5, GateInfoTyped
<1>. QED
  BY <1>6 DEF Rebuilt

------------------------------------------------------------------------------
(* The types follow from what the invariant says of the variables.          *)
LEMMA InvTyped ==
    ASSUME Inv PROVE TypeOK
<1>1. CASE pc = "ready"
  BY <1>1 DEF Inv
<1>2. CASE pc # "ready"
  <2> DEFINE e == encoder_old_to_new
  <2>0. /\ Given /\ EncoderInv /\ GatesInv /\ OutputsInv /\ NamesInv
        /\ pc \in {"encode", "rebuild", "outputs", "done"}
        /\ gateId \in 1 .. Len(circuit.gates) + 1
    BY <1>2 DEF Inv
  <2>1. e \in Seq(GateIds(circuit)) /\ Len(e) \in Nat /\ DOMAIN e = 1 .. Len(e)
    BY <2>0 DEF EncoderInv
  <2>2. \A i \in DOMAIN gate_info : gate_info[i].type \in GateTypes
    <3>1. CASE pc = "encode"
      BY <2>0, <3>1 DEF GatesInv
    <3>2. CASE pc # "encode"
      <4>1. gate_info \in [DOMAIN e -> GateInfos(Len(e))]
        BY <2>0, <3>2 DEF GatesInv
      <4> HIDE DEF e
      <4>. QED
        BY <4>1 DEF GateInfos
    <3>. QED
      BY <3>1, <3>2
  <2>3. new_output_gates \in Seq(DOMAIN gate_info)
    <3>1. CASE pc \in {"encode", "rebuild"}
      BY <2>0, <3>1 DEF OutputsInv
    <3>2. CASE pc \notin {"encode", "rebuild"}
      <4>1. /\ DOMAIN gate_info = DOMAIN e
            /\ new_output_gates = [k \in DOMAIN circuit.outputs |-> IdOf(e, circuit.outputs[k])]
        BY <2>0, <3>2 DEF GatesInv, OutputsInv
      <4>2. /\ Len(circuit.outputs) \in Nat /\ DOMAIN circuit.outputs = 1 .. Len(circuit.outputs)
            /\ \A k \in DOMAIN circuit.outputs : circuit.outputs[k] \in Kept
        BY <2>0, WellFormedFacts, KeptFacts DEF Given, OutputSet
      <4>3. \A g \in Kept : IdOf(e, g) \in DOMAIN e
        BY <2>0, <3>2, IdsOfKept
      <4> HIDE DEF e
      <4>4. new_output_gates \in [1 .. Len(circuit.outputs) -> DOMAIN e]
        BY <4>1, <4>2, <4>3
      <4>. QED
        BY <4>1, <4>2, <4>4, FunctionIsSequence
    <3>. QED
      BY <3>1, <3>2
  <2>4. new_names \in Seq({names[g] : g \in GateIds(circuit)})
    <3>1. CASE pc # "done"
      BY <2>0, <3>1 DEF NamesInv, NoEncoder
    <3>2. CASE pc = "done"
      <4>1. new_names = [i \in DOMAIN e |-> names[e[i]]]
        BY <2>0, <3>2 DEF NamesInv
      <4>2. \A i \in 1 .. Len(e) : e[i] \in GateIds(circuit)
        BY <2>1
      <4> HIDE DEF e
      <4>3. new_names \in [1 .. Len(e) -> {names[g] : g \in GateIds(circuit)}]
        BY <2>1, <4>1, <4>2
      <4>. QED
        BY <2>1, <4>3, FunctionIsSequence
    <3>. QED
      BY <3>1, <3>2
  <2>. QED
    BY <2>0, <2>1, <2>2, <2>3, <2>4 DEF TypeOK
<1>. QED
  BY <1>1, <1>2

(* What is kept, and what the kept gates become, depends on the circuit and *)
(* the encoder only.                                                        *)
LEMMA KeptUnchanged ==
    ASSUME UNCHANGED circuit PROVE Kept' = Kept
BY DEF Kept, IsKept, mask_use_output

(* A kept gate becomes the same as long as circuit and encoder do not       *)
(* change.                                                                  *)
LEMMA RebuiltUnchanged ==
    ASSUME UNCHANGED <<circuit, encoder_old_to_new>> PROVE \A g : Rebuilt(g)' = Rebuilt(g)
BY DEF Rebuilt

(* Start begins with nothing numbered and nothing built.                    *)
LEMMA StartStep ==
    ASSUME Given, Start PROVE Inv'
<1>1. Given'
  BY DEF Given, Start
<1>2. gateId' \in 1 .. Len(circuit'.gates) + 1
  BY DEF Start, Given, WellFormed, IdsInRange
<1>3. EncoderInv'
  <2>1. encoder_old_to_new' = <<>> /\ pc' = "encode" /\ gateId' = 1
    BY DEF Start, NoEncoder
  <2>2. \A g \in GateIds(circuit') : ~(g < 1)
    BY DEF GateIds
  <2>. QED
    BY <2>1, <2>2 DEF EncoderInv, IsEncoder, KeyExists
<1>4. GatesInv' /\ OutputsInv' /\ NamesInv'
  BY DEF Start, GatesInv, OutputsInv, NamesInv
<1>. QED
  BY <1>1, <1>2, <1>3, <1>4 DEF Inv, Start

(* The first loop goes through the gates by ascending id.                   *)
LEMMA EncodeKeptStep ==
    ASSUME Inv, EncodeKept PROVE Inv'
<1> DEFINE e == encoder_old_to_new
<1>0. /\ Given /\ EncoderInv /\ GatesInv /\ OutputsInv /\ NamesInv
      /\ pc = "encode" /\ gateId \in GateIds(circuit)
      /\ pc' = "encode" /\ gateId' = gateId + 1
      /\ e' = IF IsKept(gateId) THEN EncodeGate(e, gateId) ELSE e
      /\ UNCHANGED <<circuit, names, gate_info, new_output_gates, new_names>>
  BY DEF Inv, EncodeKept
<1>1. Given'
  BY <1>0 DEF Given
<1>2. gateId' \in 1 .. Len(circuit'.gates) + 1
  BY <1>0 DEF Given, WellFormed, IdsInRange, GateIds
<1>3. EncoderInv'
  <2>1. e \in Seq(GateIds(circuit)) /\ IsEncoder(e)
        /\ \A g \in GateIds(circuit) : KeyExists(e, g) <=> g \in Kept /\ g < gateId
    BY <1>0 DEF EncoderInv
  <2>2. e' \in Seq(GateIds(circuit)) /\ IsEncoder(e')
        /\ \A g \in GateIds(circuit) :
              KeyExists(e', g) <=> KeyExists(e, g) \/ (IsKept(gateId) /\ g = gateId)
    <3>1. CASE IsKept(gateId)
      <4> DEFINE f == EncodeGate(e, gateId)
      <4>1. f \in Seq(GateIds(circuit)) /\ IsEncoder(f)
            /\ \A k : KeyExists(f, k) <=> KeyExists(e, k) \/ k = gateId
        BY <1>0, <2>1, EncodeGateFacts
      <4>2. e' = f
        BY <1>0, <3>1
      <4> HIDE DEF f, e
      <4>. QED
        BY <3>1, <4>1, <4>2
    <3>2. CASE ~IsKept(gateId)
      BY <1>0, <2>1, <3>2
    <3>. QED
      BY <3>1, <3>2
  <2>3. \A g \in GateIds(circuit) : g < gateId + 1 <=> g < gateId \/ g = gateId
    BY <1>0 DEF GateIds
  <2>4. gateId \in Kept <=> IsKept(gateId)
    BY <1>0 DEF Kept
  <2>5. Kept' = Kept /\ circuit' = circuit
    BY <1>0, KeptUnchanged
  <2>6. \A g \in GateIds(circuit) : KeyExists(e', g) <=> g \in Kept /\ g < gateId + 1
    <3> HIDE DEF e
    <3>. QED
      BY <2>1, <2>2, <2>3, <2>4
  <2>. QED
    BY <1>0, <2>2, <2>5, <2>6 DEF EncoderInv
<1>4. GatesInv' /\ OutputsInv' /\ NamesInv'
  BY <1>0 DEF GatesInv, OutputsInv, NamesInv
<1>. QED
  BY <1>0, <1>1, <1>2, <1>3, <1>4 DEF Inv

(* gate_info gets a place for each id, and none is filled.                  *)
LEMMA AllocateGatesStep ==
    ASSUME Inv, AllocateGates PROVE Inv'
<1> DEFINE e == encoder_old_to_new
<1>0. /\ Given /\ EncoderInv /\ GatesInv /\ OutputsInv /\ NamesInv
      /\ pc = "encode" /\ gateId \notin GateIds(circuit)
      /\ gateId \in 1 .. Len(circuit.gates) + 1
      /\ pc' = "rebuild" /\ gateId' = 1
      /\ gate_info' = [i \in DOMAIN e |-> NoGateInfo]
      /\ UNCHANGED <<circuit, names, encoder_old_to_new, new_output_gates, new_names>>
  BY DEF Inv, AllocateGates
<1>1. Given'
  BY <1>0 DEF Given
<1>2. Len(circuit.gates) \in Nat
  BY <1>0 DEF Given, WellFormed, IdsInRange
<1>3. gateId' \in 1 .. Len(circuit'.gates) + 1
  BY <1>0, <1>2
<1>4. Kept' = Kept
  BY <1>0, KeptUnchanged
<1>5. EncoderInv'
  <2>1. \A g \in GateIds(circuit) : g < gateId
    BY <1>0, <1>2 DEF GateIds
  <2>. QED
    BY <1>0, <1>4, <2>1 DEF EncoderInv
<1>6. GatesInv'
  <2>1. NoGateInfo \in GateInfos(Len(e))
    BY DEF NoGateInfo, GateInfos, GateTypes
  <2>2. gate_info' \in [DOMAIN e -> GateInfos(Len(e))]
    BY <1>0, <2>1
  <2>3. \A g \in Kept : ~(g < 1)
    BY DEF Kept, GateIds
  <2> HIDE DEF e
  <2>4. e' = e
    BY <1>0 DEF e
  <2>. QED
    BY <1>0, <1>4, <2>2, <2>3, <2>4 DEF GatesInv, e
<1>7. OutputsInv' /\ NamesInv'
  BY <1>0 DEF OutputsInv, NamesInv
<1>. QED
  BY <1>0, <1>1, <1>3, <1>5, <1>6, <1>7 DEF Inv

(* The second loop only looks ids up: the operands of kept gates are kept.  *)
LEMMA OperandsKnown ==
    ASSUME Given, EncoderInv, pc # "encode", NEW g \in Kept
    PROVE  EncodeGates(encoder_old_to_new, Operands(circuit, g)) = encoder_old_to_new
<1> DEFINE keys == Operands(circuit, g)
<1>1. keys \in Seq(GateIds(circuit)) /\ encoder_old_to_new \in Seq(GateIds(circuit))
  BY KeptFacts, WellFormedFacts DEF Given, EncoderInv
<1>2. \A i \in DOMAIN keys : keys[i] \in Kept
  BY KeptFacts DEF Given, IsClosed, OperandSet
<1>3. \A i \in DOMAIN keys : KeyExists(encoder_old_to_new, keys[i])
  BY <1>2, IdsOfKept
<1> HIDE DEF keys
<1>4. EncodeGates(encoder_old_to_new, keys) = encoder_old_to_new
  BY <1>1, <1>3, EncodeGatesFacts
<1>. QED
  BY <1>4 DEF keys

(* A kept gate goes to its own place of gate_info, which no other gate      *)
(* writes.                                                                  *)
LEMMA RebuildGateStep ==
    ASSUME Inv, RebuildGate PROVE Inv' /\ UNCHANGED encoder_old_to_new
<1> DEFINE e == encoder_old_to_new
           id == IdOf(e, gateId)
<1>0. /\ Given /\ EncoderInv /\ GatesInv /\ OutputsInv /\ NamesInv
      /\ pc = "rebuild" /\ gateId \in GateIds(circuit) /\ KeyExists(e, gateId)
      /\ pc' = "rebuild" /\ gateId' = gateId + 1
      /\ e' = EncodeGates(e, Operands(circuit, gateId))
      /\ gate_info' = [gate_info EXCEPT ![id] =
            GateInfo(Type(circuit, gateId),
               [i \in DOMAIN Operands(circuit, gateId) |-> IdOf(e', Operands(circuit, gateId)[i])])]
      /\ UNCHANGED <<circuit, names, new_output_gates, new_names>>
  BY DEF Inv, RebuildGate
<1>1. Given'
  BY <1>0 DEF Given
<1>2. gateId' \in 1 .. Len(circuit'.gates) + 1
  BY <1>0 DEF Given, WellFormed, IdsInRange, GateIds
<1>3. gateId \in Kept
  BY <1>0 DEF EncoderInv
<1>4. e' = e
  <2>1. EncodeGates(e, Operands(circuit, gateId)) = e
    BY <1>0, <1>3, OperandsKnown
  <2>. QED
    BY <1>0, <2>1
<1>5. Kept' = Kept /\ \A g : Rebuilt(g)' = Rebuilt(g)
  BY <1>0, <1>4, KeptUnchanged, RebuiltUnchanged
<1>6. EncoderInv'
  BY <1>0, <1>4, <1>5 DEF EncoderInv
<1>7. GatesInv'
  <2>1. gate_info' = [gate_info EXCEPT ![id] = Rebuilt(gateId)]
    BY <1>0, <1>4 DEF Rebuilt
  <2>2. Rebuilt(gateId) \in GateInfos(Len(e)) /\ id \in DOMAIN e
    BY <1>0, <1>3, RebuiltTyped, IdsOfKept
  <2>3. gate_info \in [DOMAIN e -> GateInfos(Len(e))]
        /\ \A g \in Kept : g < gateId => gate_info[IdOf(e, g)] = Rebuilt(g)
    BY <1>0 DEF GatesInv
  <2>4. \A g \in Kept : g < gateId + 1 => g < gateId \/ g = gateId
    BY <1>0 DEF Kept, GateIds
  <2>5. \A g \in Kept : IdOf(e, g) \in DOMAIN e /\ (IdOf(e, g) = id => g = gateId)
    BY <1>0, <1>3, IdsOfKept
  <2> HIDE DEF e, id
  <2>6. gate_info' \in [DOMAIN e -> GateInfos(Len(e))]
    BY <2>1, <2>2, <2>3
  <2>7. ASSUME NEW g \in Kept, g < gateId + 1 PROVE gate_info'[IdOf(e, g)] = Rebuilt(g)
    <3>1. CASE g = gateId
      <4>1. IdOf(e, g) = id
        BY <3>1 DEF id
      <4>2. gate_info'[id] = Rebuilt(gateId)
        BY <2>1, <2>2, <2>3
      <4>. QED
        BY <3>1, <4>1, <4>2
    <3>2. CASE g # gateId
      <4>1. g < gateId /\ IdOf(e, g) # id /\ IdOf(e, g) \in DOMAIN e
        BY <2>4, <2>5, <2>7, <3>2
      <4>2. gate_info'[IdOf(e, g)] = gate_info[IdOf(e, g)]
        BY <2>1, <2>2, <2>3, <4>1
      <4>. QED
        BY <2>3, <4>1, <4>2
    <3>. QED
      BY <3>1, <3>2
  <2>. QED
    BY <1>0, <1>4, <1>5, <2>6, <2>7 DEF GatesInv, e
<1>8. OutputsInv' /\ NamesInv'
  BY <1>0, <1>4 DEF OutputsInv, NamesInv
<1>. QED
  BY <1>0, <1>1, <1>2, <1>4, <1>6, <1>7, <1>8 DEF Inv

(* A removed gate has no place.                                             *)
LEMMA SkipRemovedStep ==
    ASSUME Inv, SkipRemoved PROVE Inv'
<1>0. /\ Given /\ EncoderInv /\ GatesInv /\ OutputsInv /\ NamesInv
      /\ pc = "rebuild" /\ gateId \in GateIds(circuit) /\ ~KeyExists(encoder_old_to_new, gateId)
      /\ pc' = "rebuild" /\ gateId' = gateId + 1
      /\ UNCHANGED <<circuit, names, encoder_old_to_new, gate_info, new_output_gates, new_names>>
  BY DEF Inv, SkipRemoved
<1>1. Given'
  BY <1>0 DEF Given
<1>2. gateId' \in 1 .. Len(circuit'.gates) + 1
  BY <1>0 DEF Given, WellFormed, IdsInRange, GateIds
<1>3. gateId \notin Kept
  BY <1>0 DEF EncoderInv
<1>4. Kept' = Kept /\ \A g : Rebuilt(g)' = Rebuilt(g)
  BY <1>0, KeptUnchanged, RebuiltUnchanged
<1>5. EncoderInv'
  BY <1>0, <1>4 DEF EncoderInv
<1>6. GatesInv'
  <2>1. \A g \in Kept : g < gateId + 1 => g < gateId
    BY <1>0, <1>3 DEF Kept, GateIds
  <2>. QED
    BY <1>0, <1>4, <2>1 DEF GatesInv
<1>7. OutputsInv' /\ NamesInv'
  BY <1>0 DEF OutputsInv, NamesInv
<1>. QED
  BY <1>0, <1>1, <1>2, <1>5, <1>6, <1>7 DEF Inv

(* All outputs are kept, and so have an id.                                 *)
LEMMA RebuildOutputsStep ==
    ASSUME Inv, RebuildOutputs PROVE Inv' /\ UNCHANGED encoder_old_to_new
<1> DEFINE e == encoder_old_to_new
<1>0. /\ Given /\ EncoderInv /\ GatesInv /\ OutputsInv /\ NamesInv
      /\ pc = "rebuild" /\ gateId \notin GateIds(circuit)
      /\ gateId \in 1 .. Len(circuit.gates) + 1 /\ pc' = "outputs"
      /\ e' = EncodeGates(e, circuit.outputs)
      /\ new_output_gates' = [k \in DOMAIN circuit.outputs |-> IdOf(e', circuit.outputs[k])]
      /\ UNCHANGED <<circuit, names, gateId, gate_info, new_names>>
  BY DEF Inv, RebuildOutputs
<1>1. Given'
  BY <1>0 DEF Given
<1>2. e' = e
  <2>1. circuit.outputs \in Seq(GateIds(circuit)) /\ e \in Seq(GateIds(circuit))
    BY <1>0, WellFormedFacts DEF Given, EncoderInv
  <2>2. \A k \in DOMAIN circuit.outputs : circuit.outputs[k] \in Kept
    BY <1>0, KeptFacts DEF Given, OutputSet
  <2>3. \A k \in DOMAIN circuit.outputs : KeyExists(e, circuit.outputs[k])
    BY <1>0, <2>2, IdsOfKept
  <2>4. EncodeGates(e, circuit.outputs) = e
    <3> DEFINE keys == circuit.outputs
    <3> HIDE DEF keys, e
    <3>1. /\ keys \in Seq(GateIds(circuit)) /\ e \in Seq(GateIds(circuit))
          /\ \A k \in DOMAIN keys : KeyExists(e, keys[k])
      BY <2>1, <2>3 DEF keys
    <3>2. EncodeGates(e, keys) = e
      BY <3>1, EncodeGatesFacts
    <3>. QED
      BY <3>2 DEF keys
  <2>. QED
    BY <1>0, <2>4
<1>3. Kept' = Kept /\ \A g : Rebuilt(g)' = Rebuilt(g)
  BY <1>0, <1>2, KeptUnchanged, RebuiltUnchanged
<1>4. EncoderInv'
  BY <1>0, <1>2, <1>3 DEF EncoderInv
<1>5. GatesInv'
  <2>1. \A g \in Kept : g < gateId
    BY <1>0 DEF Kept, GateIds, Given, WellFormed, IdsInRange
  <2>. QED
    BY <1>0, <1>2, <1>3, <2>1 DEF GatesInv
<1>6. OutputsInv' /\ NamesInv'
  BY <1>0, <1>2 DEF OutputsInv, NamesInv
<1>. QED
  BY <1>0, <1>1, <1>2, <1>4, <1>5, <1>6 DEF Inv

(* The kept gates keep their names.                                         *)
LEMMA ReturnStep ==
    ASSUME Inv, Return PROVE Inv'
<1> DEFINE e == encoder_old_to_new
           keys == [i \in DOMAIN e |-> names[e[i]]]
<1>0. /\ Given /\ EncoderInv /\ GatesInv /\ OutputsInv /\ NamesInv
      /\ pc = "outputs" /\ pc' = "done"
      /\ gateId \in 1 .. Len(circuit.gates) + 1
      /\ new_names' = MergeGateEncoders(names, e)
      /\ UNCHANGED <<circuit, names, gateId, encoder_old_to_new, gate_info, new_output_gates>>
  BY DEF Inv, Return
<1>1. Given'
  BY <1>0 DEF Given
<1>2. Kept' = Kept /\ \A g : Rebuilt(g)' = Rebuilt(g)
  BY <1>0, KeptUnchanged, RebuiltUnchanged
<1>3. EncoderInv'
  BY <1>0, <1>2 DEF EncoderInv
<1>4. GatesInv' /\ OutputsInv'
  BY <1>0, <1>2 DEF GatesInv, OutputsInv
<1>5. NamesInv'
  <2>1. Len(e) \in Nat /\ DOMAIN e = 1 .. Len(e) /\ \A i \in DOMAIN e : e[i] \in GateIds(circuit)
    BY <1>0 DEF EncoderInv
  <2>2. \A i, j \in DOMAIN e : names[e[i]] = names[e[j]] => i = j
    BY <1>0, <2>1 DEF EncoderInv, IsEncoder, Given, NamesGates
  <2>3. keys \in Seq({names[e[i]] : i \in DOMAIN e}) /\ IsEncoder(keys)
    <3>1. keys \in [1 .. Len(e) -> {names[e[i]] : i \in DOMAIN e}]
      BY <2>1
    <3>2. keys \in Seq({names[e[i]] : i \in DOMAIN e})
      <4> HIDE DEF keys
      <4>. QED
        BY <2>1, <3>1, FunctionIsSequence
    <3>3. IsEncoder(keys)
      BY <2>2 DEF IsEncoder
    <3>. QED
      BY <3>2, <3>3
  <2>4. EncodeGates(NoEncoder, keys) = keys
    <3> HIDE DEF keys
    <3>. QED
      BY <2>3, EncodeNewKeys
  <2>5. MergeGateEncoders(names, e) = EncodeGates(NoEncoder, keys)
    BY DEF MergeGateEncoders, DecodeGate
  <2>. QED
    BY <1>0, <2>4, <2>5 DEF NamesInv
<1>. QED
  BY <1>0, <1>1, <1>3, <1>4, <1>5 DEF Inv
------------------------------------------------------------------------------
(* The circuit returned is a copy of the kept gates and of nothing else.    *)
NewId == [g \in Kept |-> IdOf(encoder_old_to_new, g)]

(* The ids number the kept gates without gap, and each place of gate_info   *)
(* holds the copy of its gate.                                              *)
LEMMA ResultIsCopy ==
    ASSUME Inv, pc = "done"
    PROVE  /\ GateIds(Result) = DOMAIN encoder_old_to_new
           /\ IsCopy(circuit, Kept, Result, NewId)
           /\ \A g, h \in Kept : NewId[g] = NewId[h] => g = h
           /\ \A k \in GateIds(Result) : \E g \in Kept : NewId[g] = k
           /\ Result.outputs = [k \in DOMAIN circuit.outputs |-> NewId[circuit.outputs[k]]]
           /\ \A g \in Kept : new_names[NewId[g]] = names[g]
           /\ IdsInRange(Result) /\ NamesGates(Result, new_names)
<1> DEFINE e == encoder_old_to_new
           n == Len(e)
<1>0. /\ Given /\ EncoderInv /\ GatesInv /\ OutputsInv /\ NamesInv /\ pc # "encode" /\ TypeOK
  BY InvTyped DEF Inv
<1>1. n \in Nat /\ DOMAIN e = 1 .. n
  BY <1>0 DEF EncoderInv
<1>2. /\ gate_info \in [1 .. n -> GateInfos(n)]
      /\ \A g \in Kept : gate_info[IdOf(e, g)] = Rebuilt(g)
  BY <1>0, <1>1 DEF GatesInv
<1>3. gate_info \in Seq(GateInfos(n)) /\ Len(gate_info) = n
  <2> HIDE DEF n
  <2>. QED
    BY <1>1, <1>2, FunctionIsSequence
<1>4. Result.gates = gate_info /\ Result.outputs = new_output_gates
  BY DEF Result
<1>5. GateIds(Result) = 1 .. n
  BY <1>3, <1>4 DEF GateIds
<1>6. \A g \in Kept : /\ NewId[g] = IdOf(e, g) /\ NewId[g] \in 1 .. n /\ e[NewId[g]] = g
  BY <1>0, <1>1, IdsOfKept DEF NewId
<1>7. \A k \in 1 .. n : e[k] \in Kept /\ NewId[e[k]] = k
  BY <1>0, <1>1, IdsOfKept DEF NewId
<1>8. IsClosed(circuit, Kept) /\ Kept \subseteq GateIds(circuit) /\ OutputSet(circuit) \subseteq Kept
  BY <1>0, KeptFacts DEF Given
<1>9. IsCopy(circuit, Kept, Result, NewId)
  <2> SUFFICES ASSUME NEW g \in Kept
               PROVE  /\ NewId[g] \in GateIds(Result)
                      /\ Operands(circuit, g) \in Seq(GateIds(circuit))
                      /\ Result.gates[NewId[g]] =
                            GateInfo(Type(circuit, g),
                                     [i \in DOMAIN Operands(circuit, g) |-> NewId[Operands(circuit, g)[i]]])
    BY <1>8, RebuiltIsCopy
  <2>1. Operands(circuit, g) \in Seq(GateIds(circuit))
    BY <1>0, <1>8, WellFormedFacts DEF Given
  <2>2. \A i \in DOMAIN Operands(circuit, g) : Operands(circuit, g)[i] \in Kept
    BY <1>8 DEF IsClosed, OperandSet
  <2>3. [i \in DOMAIN Operands(circuit, g) |-> IdOf(e, Operands(circuit, g)[i])]
        = [i \in DOMAIN Operands(circuit, g) |-> NewId[Operands(circuit, g)[i]]]
    BY <1>6, <2>2
  <2>4. Result.gates[NewId[g]] = Rebuilt(g)
    BY <1>2, <1>4, <1>6
  <2>. QED
    BY <1>5, <1>6, <2>1, <2>3, <2>4 DEF Rebuilt
<1>10. Result.outputs = [k \in DOMAIN circuit.outputs |-> NewId[circuit.outputs[k]]]
  <2>1. \A k \in DOMAIN circuit.outputs : circuit.outputs[k] \in Kept
    BY <1>8 DEF OutputSet
  <2>2. Result.outputs = [k \in DOMAIN circuit.outputs |-> IdOf(e, circuit.outputs[k])]
    BY <1>0, <1>4, pc = "done" DEF OutputsInv
  <2>. QED
    BY <1>6, <2>1, <2>2
<1>11. new_names = [i \in 1 .. n |-> names[e[i]]] /\ Len(new_names) = n
  <2>1. new_names = [i \in 1 .. n |-> names[e[i]]]
    BY <1>0, <1>1, pc = "done" DEF NamesInv
  <2>2. new_names \in [1 .. n -> {names[e[i]] : i \in 1 .. n}]
    BY <2>1
  <2> HIDE DEF n, e
  <2>. QED
    BY <1>1, <2>1, <2>2, FunctionIsSequence
<1>12. \A g \in Kept : new_names[NewId[g]] = names[g]
  BY <1>6, <1>11
<1>13. IdsInRange(Result)
  <2>1. Result.outputs \in Seq(GateIds(Result))
    <3>1. DOMAIN gate_info = 1 .. n
      BY <1>2
    <3>. QED
      BY <1>0, <1>4, <1>5, <3>1 DEF TypeOK
  <2>. QED
    BY <1>3, <1>4, <2>1 DEF IdsInRange
<1>14. NamesGates(Result, new_names)
  <2>1. \A g, h \in Kept : names[g] = names[h] => g = h
    BY <1>0, <1>8 DEF Given, NamesGates
  <2>2. \A g, h \in 1 .. n : new_names[g] = new_names[h] => g = h
    <3> HIDE DEF e, n
    <3>. QED
      BY <1>7, <1>11, <2>1
  <2>. QED
    BY <1>3, <1>4, <1>5, <1>11, <2>2 DEF NamesGates
<1>15. \A g, h \in Kept : NewId[g] = NewId[h] => g = h
  BY <1>6
<1>. QED
  BY <1>1, <1>5, <1>7, <1>9, <1>10, <1>12, <1>13, <1>14, <1>15

(* It is well formed and computes the same function of the inputs it still  *)
(* has.                                                                     *)
LEMMA ResultIsCorrect ==
    ASSUME Inv, pc = "done"
    PROVE  /\ WellFormed(Result) /\ NamesGates(Result, new_names)
           /\ SameFunction(circuit, names, Result, new_names)
           /\ Cone(Result, OutputSet(Result)) =
                 {NewId[g] : g \in Cone(circuit, OutputSet(circuit))}
           /\ InputNames(Result, new_names) =
                 {names[g] : g \in Kept \cap InputGates(circuit)}
<1>1. /\ IsCopy(circuit, Kept, Result, NewId)
      /\ \A g, h \in Kept : NewId[g] = NewId[h] => g = h
      /\ \A k \in GateIds(Result) : \E g \in Kept : NewId[g] = k
      /\ Result.outputs = [k \in DOMAIN circuit.outputs |-> NewId[circuit.outputs[k]]]
      /\ \A g \in Kept : new_names[NewId[g]] = names[g]
      /\ IdsInRange(Result) /\ NamesGates(Result, new_names)
  BY ResultIsCopy
<1>2. WellFormed(circuit) /\ OutputSet(circuit) \subseteq Kept
  BY KeptFacts DEF Inv, Given
<1> DEFINE d == Result
           m == NewId
<1> HIDE DEF d, m
<1>. QED
  BY <1>1, <1>2, FullCopyIsCorrect DEF d, m

(* The next transformer can work on it, if this one could on what it was    *)
(* given.                                                                   *)
LEMMA ResultIsUsable ==
    ASSUME Inv, pc = "done"
    PROVE  (Usable(circuit) => Usable(Result)) /\ AreNames(new_names)
<1>1. Usable(circuit) => Usable(Result)
  BY ResultIsCopy, CopyIsUsable
<1>2. AreNames(new_names)
  <2>1. new_names = [i \in DOMAIN encoder_old_to_new |-> names[encoder_old_to_new[i]]]
    BY DEF Inv, NamesInv
  <2>2. encoder_old_to_new \in Seq(GateIds(circuit))
    BY DEF Inv, EncoderInv
  <2>3. /\ Len(encoder_old_to_new) \in Nat /\ DOMAIN new_names = 1 .. Len(encoder_old_to_new)
        /\ new_names = [i \in DOMAIN new_names |-> new_names[i]]
    BY <2>1, <2>2
  <2>. QED
    BY <2>3, FunctionIsNames
<1>. QED
  BY <1>1, <1>2

(* Every gate of it is the copy of a gate that an output needs, or of an    *)
(* input that was to be preserved.                                          *)
LEMMA ResultHasNoMore ==
    ASSUME Inv PROVE NothingRedundant
<1> SUFFICES ASSUME pc = "done"
             PROVE  /\ \A g \in GateIds(Result) :
                          \/ g \in Cone(Result, OutputSet(Result))
                          \/ preserveInputs /\ Type(Result, g) = "INPUT"
                    /\ preserveInputs => InputNames(Result, new_names) = InputNames(circuit, names)
  BY DEF NothingRedundant
<1> DEFINE d == Result
           m == NewId
           C == Cone(circuit, OutputSet(circuit))
<1>1. IsCopy(circuit, Kept, d, m) /\ \A k \in GateIds(d) : \E g \in Kept : m[g] = k
  BY ResultIsCopy
<1>2. /\ Cone(d, OutputSet(d)) = {m[g] : g \in C}
      /\ InputNames(d, new_names) = {names[g] : g \in Kept \cap InputGates(circuit)}
  BY ResultIsCorrect
<1> HIDE DEF d, m, C
<1>3. \A g \in Kept : Type(d, m[g]) = Type(circuit, g)
  BY <1>1, CopiedArity
<1>4. \A g \in Kept : g \in C \/ (preserveInputs /\ Type(circuit, g) = "INPUT")
  BY DEF Kept, IsKept, mask_use_output, C
<1>5. ASSUME NEW k \in GateIds(d)
      PROVE  k \in Cone(d, OutputSet(d)) \/ (preserveInputs /\ Type(d, k) = "INPUT")
  <2>1. PICK g \in Kept : m[g] = k
    BY <1>1
  <2>. QED
    BY <1>2, <1>3, <1>4, <2>1
<1>6. ASSUME preserveInputs PROVE InputNames(d, new_names) = InputNames(circuit, names)
  <2>1. InputGates(circuit) \subseteq Kept
    BY <1>6 DEF InputGates, Kept, IsKept
  <2>. QED
    BY <1>2, <2>1 DEF InputNames
<1>. QED
  BY <1>5, <1>6 DEF d

------------------------------------------------------------------------------
(* A run begins with a circuit that was given.                              *)
LEMMA InitHolds ==
    ASSUME \A c \in Circuits : WellFormed(c), Init PROVE Inv
<1>1. WellFormed(circuit) /\ Len(circuit.gates) \in Nat
  BY DEF Init, WellFormed, IdsInRange
<1>2. Given
  BY <1>1, NaturalNamesFit DEF Init, Given
<1>3. TypeOK
  BY <1>1 DEF Init, TypeOK, NoEncoder
<1>. QED
  BY <1>2, <1>3 DEF Inv, Init

(* The invariant speaks of the variables of the component only.             *)
LEMMA StutterHolds ==
    ASSUME Inv, UNCHANGED vars PROVE Inv'
<1>0. UNCHANGED <<circuit, names, pc, gateId, encoder_old_to_new, gate_info, new_output_gates, new_names>>
  BY DEF vars
<1>1. Kept' = Kept /\ \A g : Rebuilt(g)' = Rebuilt(g)
  BY <1>0, KeptUnchanged, RebuiltUnchanged
<1>2. Given' = Given /\ TypeOK' = TypeOK
  BY <1>0 DEF Given, TypeOK
<1>3. EncoderInv' = EncoderInv
  BY <1>0, <1>1 DEF EncoderInv
<1>4. GatesInv' = GatesInv
  BY <1>0, <1>1 DEF GatesInv
<1>5. OutputsInv' = OutputsInv /\ NamesInv' = NamesInv
  BY <1>0 DEF OutputsInv, NamesInv
<1>. QED
  BY <1>0, <1>2, <1>3, <1>4, <1>5 DEF Inv

(* All steps keep the invariant.                                            *)
LEMMA NextHolds ==
    ASSUME Inv, [Next]_vars PROVE Inv'
<1>1. CASE Start
  BY <1>1, StartStep DEF Inv
<1>2. CASE EncodeKept
  BY <1>2, EncodeKeptStep
<1>3. CASE AllocateGates
  BY <1>3, AllocateGatesStep
<1>4. CASE RebuildGate
  BY <1>4, RebuildGateStep
<1>5. CASE SkipRemoved
  BY <1>5, SkipRemovedStep
<1>6. CASE RebuildOutputs
  BY <1>6, RebuildOutputsStep
<1>7. CASE Return
  BY <1>7, ReturnStep
<1>8. CASE UNCHANGED vars
  BY <1>8, StutterHolds
<1>. QED
  BY <1>1, <1>2, <1>3, <1>4, <1>5, <1>6, <1>7, <1>8 DEF Next

(* The invariant holds whenever the circuits given are well formed.         *)
THEOREM InvAlways ==
    ASSUME \A c \in Circuits : WellFormed(c) PROVE Spec => []Inv
<1>1. Init => Inv
  BY InitHolds
<1>2. Inv /\ [Next]_vars => Inv'
  BY NextHolds
<1>. QED
  BY <1>1, <1>2, PTL DEF Spec

(* All variables keep their types: every id that is looked up is a gate of  *)
(* the circuit or a place of gate_info.                                     *)
THEOREM TypeCorrect ==
    ASSUME \A c \in Circuits : WellFormed(c) PROVE Spec => []TypeOK
<1>1. Inv => TypeOK
  BY InvTyped
<1>. QED
  BY <1>1, InvAlways, PTL

(* What is left at the end is needed by an output or an input to preserve.  *)
THEOREM NothingRedundantAtEnd ==
    ASSUME \A c \in Circuits : WellFormed(c) PROVE Spec => []NothingRedundant
<1>1. Inv => NothingRedundant
  BY ResultHasNoMore
<1>. QED
  BY <1>1, InvAlways, PTL

(* The loops after the first only look ids up.                              *)
LEMMA OnlyLookedUp ==
    ASSUME Inv, Next, pc \notin {"ready", "encode"} PROVE UNCHANGED encoder_old_to_new
<1>1. CASE RebuildGate
  BY <1>1, RebuildGateStep
<1>2. CASE RebuildOutputs
  BY <1>2, RebuildOutputsStep
<1>3. CASE Start \/ EncodeKept \/ AllocateGates \/ SkipRemoved \/ Return
  BY <1>3 DEF Start, EncodeKept, AllocateGates, SkipRemoved, Return
<1>. QED
  BY <1>1, <1>2, <1>3 DEF Next

(* encodeGate gives no id after the first loop: gate_info has a place for   *)
(* every id that the other loops look up.                                   *)
THEOREM IdsOnlyLookedUp ==
    ASSUME \A c \in Circuits : WellFormed(c) PROVE Spec => EncoderIsComplete
<1>1. Inv /\ [Next]_vars => [pc \notin {"ready", "encode"} => UNCHANGED encoder_old_to_new]_vars
  BY OnlyLookedUp
<1>. QED
  BY <1>1, InvAlways, PTL DEF Spec, EncoderIsComplete
------------------------------------------------------------------------------
(* RedundantGatesCleaner_ is a transformer: its circuit is the source, and  *)
(* what it returns is the result, which it has once it is done.             *)
T == INSTANCE Transformer WITH
        source <- circuit, source_names <- names,
        result <- IF pc = "done" THEN Result ELSE [gates |-> <<>>, outputs |-> <<>>],
        result_names <- IF pc = "done" THEN new_names ELSE <<>>,
        done <- pc = "done"

(* Transformer has the notions of Circuits as its own: they are the same.   *)
LEMMA SameNotions ==
    ASSUME NEW c, NEW cnames, NEW d, NEW dnames
    PROVE  /\ T!WellFormed(c) <=> WellFormed(c)
           /\ T!NamesGates(c, cnames) <=> NamesGates(c, cnames)
           /\ T!SameFunction(c, cnames, d, dnames) <=> SameFunction(c, cnames, d, dnames)
<1>1. T!NamesGates(c, cnames) <=> NamesGates(c, cnames)
  BY DEF NamesGates, T!NamesGates, GateIds, T!GateIds
<1>2. ASSUME NEW e, NEW S, NEW g, NEW asmt
      PROVE  /\ T!GateIds(e) = GateIds(e) /\ T!Type(e, g) = Type(e, g)
             /\ T!Operands(e, g) = Operands(e, g) /\ T!OperandSet(e, g) = OperandSet(e, g)
             /\ T!InputGates(e) = InputGates(e) /\ T!OutputSet(e) = OutputSet(e)
             /\ T!Cone(e, S) = Cone(e, S)
  BY DEF T!GateIds, GateIds, T!Type, Type, T!Operands, Operands, T!OperandSet, OperandSet,
         T!InputGates, InputGates, T!OutputSet, OutputSet, T!Cone, Cone
<1>3. T!WellFormed(c) <=> WellFormed(c)
  <2>1. T!IdsInRange(c) <=> IdsInRange(c)
    BY DEF T!IdsInRange, IdsInRange, T!GateInfos, GateInfos, T!GateTypes, GateTypes, T!OperatorTypes, OperatorTypes, T!FoldTypes, FoldTypes, T!GateIds, GateIds
  <2>0. \A S : T!Cardinality(S) = Cardinality(S)
    BY DEF T!Cardinality, Cardinality
  <2>2. T!IsAcyclic(c) <=> IsAcyclic(c)
    BY <1>2, <2>0 DEF T!IsAcyclic, IsAcyclic, T!IsRanking, IsRanking, T!ConeSizes, ConeSizes
  <2>3. ASSUME NEW type, NEW n PROVE T!ArityOk(type, n) <=> ArityOk(type, n)
    BY ZenonT(60) DEF T!ArityOk, ArityOk, T!FoldTypes, FoldTypes
  <2>. QED
    BY <1>2, <2>1, <2>2, <2>3 DEF T!WellFormed, WellFormed
<1>4. ASSUME NEW e, NEW asmt PROVE T!StatesOf(e, asmt) = StatesOf(e, asmt)
  BY DEF T!StatesOf, StatesOf, T!GateIds, GateIds, T!Type, Type, T!Operands, Operands, T!Operator, Operator, T!NOT, NOT, T!IFF, IFF, T!AND, AND, T!OR, OR, T!XOR, XOR, T!MUX, MUX, T!Lookup1, Lookup1, T!Lookup2, Lookup2, T!Lookup3, Lookup3, T!StFalse, StFalse, T!StTrue, StTrue, T!StUndef, StUndef, T!GateStates, GateStates, T!FunctionOf, FunctionOf, T!FoldMap, FoldMap
<1>5. ASSUME NEW e, NEW asmt PROVE T!OutputStates(e, asmt) = OutputStates(e, asmt)
  <2>1. T!CutAtGiven(e, asmt) = CutAtGiven(e, asmt)
    BY DEF T!CutAtGiven, CutAtGiven, T!GateIds, GateIds, T!Type, Type, T!NoGateInfo, NoGateInfo, T!StUndef, StUndef
  <2>. QED
    BY <1>2, <1>4, <2>1 DEF T!OutputStates, OutputStates, T!EvaluateCircuit, EvaluateCircuit, T!StUndef, StUndef
<1>6. T!SameFunction(c, cnames, d, dnames) <=> SameFunction(c, cnames, d, dnames)
  <2>1. ASSUME NEW e, NEW n PROVE T!InputNames(e, n) = InputNames(e, n)
    BY <1>2 DEF T!InputNames, InputNames
  <2>2. ASSUME NEW e, NEW n, NEW v PROVE T!Assignment(e, n, v) = Assignment(e, n, v)
    BY <1>2 DEF T!Assignment, Assignment, T!StUndef, StUndef
  <2>. QED
    BY <1>5, <2>1, <2>2 DEF T!SameFunction, SameFunction, T!StFalse, StFalse, T!StTrue, StTrue
<1>. QED
  BY <1>1, <1>3, <1>6

(* The circuit returned is well formed, the encoder returned names its      *)
(* gates, and it computes the function of the circuit given, known by the   *)
(* names of the inputs.                                                     *)
ReturnsCorrect ==
    pc = "done" =>
        /\ WellFormed(Result) /\ NamesGates(Result, new_names)
        /\ SameFunction(circuit, names, Result, new_names)

(* So it is at the end of every run, whenever the circuits given are well   *)
(* formed.                                                                  *)
THEOREM CorrectAtEnd ==
    ASSUME \A c \in Circuits : WellFormed(c) PROVE Spec => []ReturnsCorrect
<1>1. Inv => ReturnsCorrect
  BY ResultIsCorrect DEF ReturnsCorrect
<1>. QED
  BY <1>1, InvAlways, PTL

(* Return is the step that Transformer allows; all other steps leave what   *)
(* it can see unchanged.                                                    *)
THEOREM IsTransformer ==
    ASSUME \A c \in Circuits : WellFormed(c) PROVE Spec => T!Safety
<1>1. Init /\ Inv => T!Init
  BY SameNotions DEF Init, Inv, Given, T!Init, T!NoCircuit
<1>2. Inv /\ ReturnsCorrect' /\ [Next]_vars => [T!Transform]_(T!vars)
  <2> SUFFICES ASSUME Inv, ReturnsCorrect', [Next]_vars PROVE T!Transform \/ UNCHANGED T!vars
    OBVIOUS
  <2>1. CASE Return
    <3>1. pc = "outputs" /\ pc' = "done" /\ UNCHANGED <<circuit, names>>
      BY <2>1 DEF Return
    <3>2. /\ WellFormed(Result') /\ NamesGates(Result', new_names')
          /\ SameFunction(circuit, names, Result', new_names')
      BY <3>1 DEF ReturnsCorrect
    <3>. QED
      BY <3>1, <3>2, SameNotions DEF T!Transform, T!Correct
  <2>2. CASE pc' # "done" /\ pc # "done" /\ UNCHANGED <<circuit, names>>
    BY <2>2 DEF T!vars
  <2>3. CASE UNCHANGED vars
    BY <2>3 DEF vars, T!vars, Result
  <2>4. CASE Next /\ ~Return
    BY <2>2, <2>4 DEF Next, Start, EncodeKept, AllocateGates, RebuildGate, SkipRemoved, RebuildOutputs
  <2>. QED
    BY <2>1, <2>3, <2>4
<1>. QED
  BY <1>1, <1>2, InvAlways, CorrectAtEnd, PTL DEF Spec, T!Safety
==============================================================================
