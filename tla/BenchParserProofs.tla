-------------------------- MODULE BenchParserProofs --------------------------
(****************************************************************************)
(* Proofs that BenchToCircuit reads every .bench file as the circuit that   *)
(* the file means, whatever the order of its lines, that nothing takes the  *)
(* place of a gate that is missing, and that what is written for a circuit  *)
(* means this circuit.                                                      *)
(****************************************************************************)
EXTENDS BenchParser, CircuitLemmas, TLAPS

(* A sequence with one more element.                                        *)
LEMMA AppendFacts ==
    ASSUME NEW S, NEW s \in Seq(S), NEW x
    PROVE  Append(s, x) = [k \in 1 .. Len(s) + 1 |-> IF k = Len(s) + 1 THEN x ELSE s[k]]
<1> DEFINE V == S \cup {x}
<1>1. s \in Seq(V) /\ x \in V
  OBVIOUS
<1> HIDE DEF V
<1> DEFINE a == Append(s, x)
           n == Len(s)
<1>2. /\ n \in Nat /\ a \in Seq(V) /\ DOMAIN a = 1 .. n + 1
      /\ a[n + 1] = x /\ \A k \in 1 .. n : a[k] = s[k]
  BY <1>1
<1>3. \A k \in 1 .. n + 1 : a[k] = IF k = n + 1 THEN x ELSE s[k]
  BY <1>2
<1>4. a = [k \in 1 .. n + 1 |-> a[k]]
  <2>1. a \in Seq(V) /\ Len(a) = n + 1
    BY <1>1
  <2> HIDE DEF a
  <2>2. a \in [1 .. Len(a) -> V]
    BY <2>1
  <2>. QED
    BY <2>1, <2>2
<1> HIDE DEF a, n
<1>5. a = [k \in 1 .. n + 1 |-> IF k = n + 1 THEN x ELSE s[k]]
  BY <1>3, <1>4
<1>. QED
  BY <1>5 DEF a, n

(* The outputs are collected line by line.                                  *)
LEMMA OutputsInFacts ==
    ASSUME NEW f, Len(f) \in Nat
    PROVE  /\ OutputsIn(f)[0] = <<>>
           /\ \A k \in 1 .. Len(f) :
                 OutputsIn(f)[k] = IF f[k].kind = "OUTPUT" THEN Append(OutputsIn(f)[k - 1], f[k].name)
                                                           ELSE OutputsIn(f)[k - 1]
<1> DEFINE n == Len(f)
           keep == {k \in 1 .. n : f[k].kind = "OUTPUT"}
           s == [k \in 1 .. n |-> f[k].name]
           names == CHOOSE names : names = [k \in 0 .. Len(f) |->
                       IF k = 0 THEN <<>>
                       ELSE IF f[k].kind = "OUTPUT" THEN Append(names[k - 1], f[k].name)
                                                    ELSE names[k - 1]]
<1>1. PICK t : IsKeptLoop(t, s, n, keep)
  <2> HIDE DEF n, s, keep
  <2>. QED
    BY KeptLoopExists DEF n
<1>2. t = [k \in 0 .. n |->
             IF k = 0 THEN <<>>
             ELSE IF f[k].kind = "OUTPUT" THEN Append(t[k - 1], f[k].name) ELSE t[k - 1]]
  <2>1. ASSUME NEW k \in 0 .. n, k # 0
        PROVE  (k \in keep <=> f[k].kind = "OUTPUT") /\ s[k] = f[k].name
    <3>1. k \in 1 .. n
      BY <2>1
    <3>. QED
      BY <3>1
  <2>2. t = [k \in 0 .. n |->
               IF k = 0 THEN <<>> ELSE IF k \in keep THEN Append(t[k - 1], s[k]) ELSE t[k - 1]]
    BY <1>1 DEF IsKeptLoop
  <2> HIDE DEF keep, s, n
  <2>. QED
    BY <2>1, <2>2
<1>3. names = [k \in 0 .. n |->
                 IF k = 0 THEN <<>>
                 ELSE IF f[k].kind = "OUTPUT" THEN Append(names[k - 1], f[k].name)
                                              ELSE names[k - 1]]
  BY <1>2
<1>4. OutputsIn(f) = names
  BY DEF OutputsIn
<1> HIDE DEF names
<1>5. names[0] = <<>>
  BY <1>3
<1>6. ASSUME NEW k \in 1 .. n
      PROVE  names[k] = IF f[k].kind = "OUTPUT" THEN Append(names[k - 1], f[k].name) ELSE names[k - 1]
  <2>1. k \in 0 .. n /\ k # 0
    OBVIOUS
  <2> HIDE DEF n
  <2>. QED
    BY <1>3, <2>1
<1>. QED
  BY <1>4, <1>5, <1>6

(* A listing has every element once.                                        *)
LEMMA ListingFacts ==
    ASSUME NEW S, IsFiniteSet(S)
    PROVE  /\ Listing(S) \in Seq(S) /\ IsEncoder(Listing(S))
           /\ \A x \in S : KeyExists(Listing(S), x)
<1> DEFINE D == SUBSET S
           V == Seq(S)
           Chosen(T) == CHOOSE x \in T : TRUE
           F == [f \in [D -> V] |->
                   [T \in D |-> IF T = {} THEN <<>> ELSE Append(f[T \ {Chosen(T)}], Chosen(T))]]
           rank == [T \in D |-> Cardinality(T)]
<1>1. ASSUME NEW T \in D, T # {}
      PROVE  /\ Chosen(T) \in T /\ Chosen(T) \in S /\ T \ {Chosen(T)} \in D
             /\ rank[T \ {Chosen(T)}] < rank[T]
  <2>1. Chosen(T) \in T /\ T \ {Chosen(T)} \in D
    BY <1>1
  <2> HIDE DEF Chosen
  <2>2. IsFiniteSet(T)
    BY FS_Subset
  <2>3. Cardinality(T \ {Chosen(T)}) = Cardinality(T) - 1 /\ Cardinality(T) \in Nat
    BY <2>1, <2>2, FS_RemoveElement, FS_CardinalityType
  <2>. QED
    BY <2>1, <2>3
<1>2. \A T \in D : rank[T] \in Nat
  <2> SUFFICES ASSUME NEW T \in D PROVE Cardinality(T) \in Nat
    OBVIOUS
  <2>. QED
    BY FS_Subset, FS_CardinalityType
<1>3. <<>> \in V /\ V # {}
  <2> HIDE DEF D, Chosen, F, rank
  <2>1. <<>> \in V
    OBVIOUS
  <2>. QED
    BY <2>1
<1>4. Descends(F, D, V, rank)
  <2> HIDE DEF D, Chosen, rank
  <2>1. ASSUME NEW f \in [D -> V], NEW T \in D
        PROVE  (IF T = {} THEN <<>> ELSE Append(f[T \ {Chosen(T)}], Chosen(T))) \in V
    <3>1. CASE T = {}
      BY <1>3, <3>1
    <3>2. CASE T # {}
      <4>1. f[T \ {Chosen(T)}] \in Seq(S) /\ Chosen(T) \in S
        BY <1>1, <3>2
      <4>. QED
        BY <3>2, <4>1
    <3>. QED
      BY <3>1, <3>2
  <2> HIDE DEF V
  <2>2. F \in [[D -> V] -> [D -> V]]
    BY <2>1
  <2>3. ASSUME NEW g \in [D -> V], NEW h \in [D -> V], NEW T \in D,
               \A U \in D : rank[U] < rank[T] => g[U] = h[U]
        PROVE  F[g][T] = F[h][T]
    BY <1>1, <2>3
  <2>. QED
    BY <1>2, <2>2, <2>3 DEF Descends
<1>5. PICK f \in [D -> V] : f = F[f]
  <2> HIDE DEF D, V, F, rank
  <2>. QED
    BY <1>3, <1>4, RecursiveFunction
<1> DEFINE listed == CHOOSE listed : listed = [T \in SUBSET S |->
                        IF T = {} THEN <<>>
                        ELSE Append(listed[T \ {CHOOSE x \in T : TRUE}], CHOOSE x \in T : TRUE)]
<1>6. Listing(S) = listed[S]
  BY DEF Listing
<1>7. listed = [T \in D |-> IF T = {} THEN <<>> ELSE Append(listed[T \ {Chosen(T)}], Chosen(T))]
  <2>1. f = [T \in SUBSET S |->
               IF T = {} THEN <<>>
               ELSE Append(f[T \ {CHOOSE x \in T : TRUE}], CHOOSE x \in T : TRUE)]
    BY <1>5
  <2>. QED
    BY <2>1
<1> DEFINE Lists(s, T) == /\ s \in Seq(T) /\ IsEncoder(s) /\ \A x \in T : KeyExists(s, x)
           Listed == {T \in D : Lists(listed[T], T)}
<1>8. ASSUME NEW T \in D, \A U \in D : rank[U] < rank[T] => U \in Listed PROVE T \in Listed
  <2> HIDE DEF listed
  <2>1. CASE T = {}
    <3>1. listed[T] = <<>>
      BY <1>7, <2>1
    <3>2. IsEncoder(<<>>)
      BY DEF IsEncoder
    <3>3. Lists(listed[T], T)
      BY <2>1, <3>1, <3>2
    <3>. QED
      BY <3>3
  <2>2. CASE T # {}
    <3> DEFINE x == Chosen(T)
               s == listed[T \ {x}]
    <3>1. listed[T] = Append(s, x)
      <4> HIDE DEF Chosen
      <4>. QED
        BY <1>7, <2>2
    <3>2. x \in T /\ T \ {x} \in D /\ Lists(s, T \ {x})
      BY <1>1, <1>8, <2>2
    <3> HIDE DEF x, s, D
    <3>3. s \in Seq(T) /\ Len(s) \in Nat /\ \A i \in 1 .. Len(s) : s[i] \in T /\ s[i] # x
      BY <3>2
    <3>4. Append(s, x) \in Seq(T)
      BY <3>2, <3>3
    <3>5. ~KeyExists(s, x)
      BY <3>3 DEF KeyExists
    <3>6. EncodeGate(s, x) = Append(s, x)
      BY <3>5 DEF EncodeGate
    <3>7. /\ IsEncoder(EncodeGate(s, x))
          /\ \A y : KeyExists(EncodeGate(s, x), y) <=> KeyExists(s, y) \/ y = x
      BY <3>2, <3>3, EncodeGateFacts
    <3>8. Lists(listed[T], T)
      BY <3>1, <3>2, <3>4, <3>6, <3>7
    <3>. QED
      BY <3>8
  <2>. QED
    BY <2>1, <2>2
<1>9. D \subseteq Listed
  <2> HIDE DEF D, Listed, rank
  <2>. QED
    BY <1>2, <1>8, RankInduction, ZenonT(60)
<1> HIDE DEF listed
<1>. QED
  BY <1>6, <1>9

------------------------------------------------------------------------------
(* The inductive invariant.                                                 *)

(* How many lines have been read.                                           *)
Read == Len(file) - Len(lines)

LinesInv ==
    /\ IsFile(file)
    /\ lines \in Seq(LinesOf(file)) /\ Len(lines) <= Len(file)
    /\ \A i \in 1 .. Len(lines) : lines[i] = file[Read + i]
    /\ \A i \in 1 .. Read : IsReadable(file[i])

(* The names of these lines have ids, and no other name has.                *)
EncoderInv ==
    /\ encoder \in Seq(NamesIn(file)) /\ IsEncoder(encoder)
    /\ \A name : KeyExists(encoder, name) <=> \E i \in 1 .. Read : name \in NamesOf(file[i])

(* The definitions of a name among these lines.                             *)
DefinitionsRead(name) == {i \in 1 .. Read : IsDefinition(file[i]) /\ file[i].name = name}

(* The gate that a line defines.                                            *)
GateRead(keys, entry) ==
    GateInfo(LineType(entry),
             [i \in DOMAIN OperandNames(entry) |-> IdOf(keys, OperandNames(entry)[i])])

(* The gate of a name is the one that the last of them defines.             *)
LastIsRead(g) ==
    LET definitions == DefinitionsRead(encoder[g])
    IN  /\ definitions = {} => g \notin DOMAIN gate_info_vector \/ gate_info_vector[g] = NoGateInfo
        /\ \A i \in definitions : (\A j \in definitions : j <= i) =>
              g \in DOMAIN gate_info_vector /\ gate_info_vector[g] = GateRead(encoder, file[i])

GatesInv ==
    /\ gate_info_vector \in Seq(GateInfos(Len(encoder)))
    /\ Len(gate_info_vector) <= Len(encoder)
    /\ \A g \in DOMAIN encoder : LastIsRead(g)

OutputsInv ==
    LET names == OutputsIn(file)[Read]
    IN  /\ names \in Seq(NamesIn(file))
        /\ \A k \in DOMAIN names : KeyExists(encoder, names[k])
        /\ output_gate_ids = [k \in DOMAIN names |-> IdOf(encoder, names[k])]

(* The check in the end, and the other reason to stop.                      *)
ResultInv ==
    /\ pc \in {"parse", "done", "aborted"}
    /\ pc = "done" =>
          /\ lines = <<>> /\ OperandsInRange
          /\ circuit = [gates |-> gate_info_vector, outputs |-> output_gate_ids]
    /\ pc = "aborted" =>
          IF lines = <<>> THEN ~OperandsInRange ELSE ~IsReadable(Head(lines))

Inv == LinesInv /\ EncoderInv /\ GatesInv /\ OutputsInv /\ ResultInv

------------------------------------------------------------------------------
(* A line is read ...                                                       *)
ReadsLine ==
    lines # <<>> /\ IsReadable(Head(lines)) /\ lines' = Tail(lines) /\ file' = file

(* ... and its names get ids.                                               *)
Encodes(names) ==
    /\ encoder' \in Seq(NamesIn(file)) /\ IsEncoder(encoder') /\ Extends(encoder', encoder)
    /\ \A name : KeyExists(encoder', name) <=> KeyExists(encoder, name) \/ name \in names

(* A line that is read is the next of the file.                             *)
LEMMA LineIsRead ==
    ASSUME LinesInv, ReadsLine
    PROVE  /\ Read \in Nat /\ Read' = Read + 1 /\ Read + 1 \in DOMAIN file
           /\ file[Read + 1] = Head(lines)
           /\ \A i : i \in 1 .. Read' <=> i \in 1 .. Read \/ i = Read + 1
           /\ LinesInv'
<1> USE DEF ReadsLine
<1> DEFINE n == Len(lines)
           N == Len(file)
<1>1. /\ n \in Nat /\ N \in Nat /\ n <= N /\ n # 0
      /\ DOMAIN lines = 1 .. n /\ DOMAIN file = 1 .. N
      /\ lines[1] = Head(lines)
  BY DEF LinesInv, IsFile
<1>2. /\ Tail(lines) \in Seq(LinesOf(file)) /\ Len(Tail(lines)) = n - 1
      /\ \A i \in 1 .. n - 1 : Tail(lines)[i] = lines[i + 1]
  BY DEF LinesInv
<1>3. Read \in Nat /\ Read' = Read + 1 /\ Read = N - n
  BY <1>1, <1>2 DEF Read
<1>4. lines[1] = file[Read + 1]
  <2>1. 1 \in 1 .. n
    BY <1>1
  <2>. QED
    BY <2>1 DEF LinesInv
<1>5. \A i : i \in 1 .. Read' <=> i \in 1 .. Read \/ i = Read + 1
  BY <1>3
<1>6. \A i \in 1 .. Len(lines') : lines'[i] = file'[Read' + i]
  <2> SUFFICES ASSUME NEW i \in 1 .. n - 1 PROVE Tail(lines)[i] = file[Read + 1 + i]
    BY <1>2, <1>3
  <2>1. i + 1 \in 1 .. n /\ Read + 1 + i = Read + (i + 1)
    BY <1>1, <1>3
  <2>2. lines[i + 1] = file[Read + (i + 1)]
    BY <2>1 DEF LinesInv
  <2>. QED
    BY <1>2, <2>1, <2>2
<1>7. \A i \in 1 .. Read' : IsReadable(file'[i])
  BY <1>1, <1>4, <1>5 DEF LinesInv
<1>8. IsFile(file)' /\ LinesOf(file)' = LinesOf(file)
  BY DEF LinesInv
<1>9. LinesInv'
  BY <1>1, <1>2, <1>6, <1>7, <1>8 DEF LinesInv
<1>. QED
  BY <1>1, <1>3, <1>4, <1>5, <1>9

(* The names of a line of the file are names of the file.                   *)
LEMMA LineNames ==
    ASSUME NEW f, IsFile(f), NEW i \in DOMAIN f
    PROVE  /\ NamesOf(f[i]) \subseteq NamesIn(f)
           /\ OperandNames(f[i]) \in Seq(NamesOf(f[i])) \/ f[i].kind \notin {"INPUT", "OUTPUT", "gate"}
           /\ f[i].kind \in {"INPUT", "OUTPUT", "gate"} => f[i].name \in NamesOf(f[i])
           /\ f[i].kind # "gate" => OperandNames(f[i]) = <<>>
<1> DEFINE entry == f[i]
           ops == OperandNames(entry)
<1>1. entry \in LinesOf(f)
  BY DEF LinesOf
<1>2. NamesOf(entry) \subseteq NamesIn(f)
  BY <1>1 DEF NamesIn
<1>3. entry.kind # "gate" => ops = <<>>
  BY DEF OperandNames
<1>4. entry.kind \in {"INPUT", "OUTPUT", "gate"} => entry.name \in NamesOf(entry)
  BY DEF NamesOf
<1>5. ops \in Seq({ops[k] : k \in DOMAIN ops})
  <2>1. CASE ops = <<>>
    BY <2>1
  <2>2. CASE ops # <<>>
    <3>1. entry.kind = "gate" /\ ops = entry.operands
      BY <2>2 DEF OperandNames
    <3>2. entry.operands \in Seq({entry.operands[k] : k \in DOMAIN entry.operands})
      BY <1>1, <3>1 DEF IsFile
    <3>. QED
      BY <3>1, <3>2
  <2>. QED
    BY <2>1, <2>2
<1>6. entry.kind \in {"INPUT", "OUTPUT", "gate"} => {ops[k] : k \in DOMAIN ops} \subseteq NamesOf(entry)
  BY DEF NamesOf
<1> HIDE DEF ops, entry
<1>7. entry.kind \in {"INPUT", "OUTPUT", "gate"} => ops \in Seq(NamesOf(entry))
  BY <1>5, <1>6
<1>. QED
  BY <1>2, <1>3, <1>4, <1>7 DEF ops, entry

(* The ids of a longer encoder.                                             *)
LEMMA IdsStay ==
    ASSUME NEW S, NEW before \in Seq(S), NEW after \in Seq(S), IsEncoder(before), IsEncoder(after),
           Extends(after, before), NEW key, KeyExists(before, key)
    PROVE  KeyExists(after, key) /\ IdOf(after, key) = IdOf(before, key)
<1>1. IdOf(before, key) \in DOMAIN before /\ before[IdOf(before, key)] = key
  BY IdOfFacts
<1>2. IdOf(before, key) \in DOMAIN after /\ after[IdOf(before, key)] = key
  BY <1>1 DEF Extends
<1>3. KeyExists(after, key)
  BY <1>2 DEF KeyExists
<1>. QED
  BY <1>2, <1>3, IdOfFacts

(* All that parses a line gives ids to its names.                           *)
LEMMA LineEncodes ==
    ASSUME LinesInv, EncoderInv,
           SkipLine \/ ParseInput \/ ParseOutput \/ ParseSpecial \/ ParseGate
    PROVE  ReadsLine /\ Encodes(NamesOf(Head(lines)))
<1> DEFINE S == NamesIn(file)
           entry == Head(lines)
<1>1. lines # <<>> /\ lines' = Tail(lines) /\ file' = file
  BY DEF SkipLine, ParseInput, ParseOutput, ParseSpecial, ParseGate, AtLine, NextLine
<1>2. IsReadable(entry)
  BY DEF SkipLine, ParseInput, ParseOutput, ParseSpecial, ParseGate, AtLine, IsReadable, line
<1>3. ReadsLine
  BY <1>1, <1>2 DEF ReadsLine
<1>4. Read + 1 \in DOMAIN file /\ entry = file[Read + 1] /\ IsFile(file)
  BY <1>3, LineIsRead DEF LinesInv
<1>5. /\ NamesOf(entry) \subseteq S
      /\ OperandNames(entry) \in Seq(NamesOf(entry)) \/ entry.kind \notin {"INPUT", "OUTPUT", "gate"}
  BY <1>4, LineNames
<1>6. encoder \in Seq(S) /\ IsEncoder(encoder)
  BY DEF EncoderInv
<1>7. CASE SkipLine
  <2>1. encoder' = encoder /\ NamesOf(entry) = {}
    BY <1>7 DEF SkipLine, AtLine, collected, NamesOf
  <2>. QED
    BY <1>3, <1>6, <2>1 DEF Encodes, Extends
<1>8. CASE ParseInput \/ ParseOutput \/ ParseSpecial
  <2>1. encoder' = EncodeGate(encoder, entry.name) /\ entry.kind \in {"INPUT", "OUTPUT", "gate"}
    BY <1>8 DEF ParseInput, ParseOutput, ParseSpecial, AtLine, line
  <2>2. OperandNames(entry) = <<>>
    BY <1>8 DEF ParseInput, ParseOutput, ParseSpecial, AtLine, line, OperandNames
  <2>3. NamesOf(entry) = {entry.name}
    BY <2>1, <2>2 DEF NamesOf
  <2> HIDE DEF entry, S
  <2>4. entry.name \in S
    BY <1>5, <2>3
  <2>5. /\ encoder' \in Seq(S) /\ Extends(encoder', encoder) /\ IsEncoder(encoder')
        /\ \A k : KeyExists(encoder', k) <=> KeyExists(encoder, k) \/ k = entry.name
    BY <1>6, <2>1, <2>4, EncodeGateFacts
  <2>. QED
    BY <1>3, <2>3, <2>5 DEF Encodes, S, entry
<1>9. CASE ParseGate
  <2> DEFINE first == EncodeGate(encoder, entry.name)
             ops == entry.operands
  <2>1. encoder' = EncodeGates(first, ops) /\ entry.kind = "gate" /\ ~IsSpecial(entry)
    BY <1>9 DEF ParseGate, AtLine, line
  <2>2. OperandNames(entry) = ops
    BY <2>1 DEF OperandNames
  <2>3. NamesOf(entry) = {entry.name} \cup {ops[i] : i \in DOMAIN ops}
    BY <2>1, <2>2 DEF NamesOf
  <2>4. entry.name \in S /\ ops \in Seq(NamesOf(entry))
    BY <1>5, <2>1, <2>2, <2>3
  <2> HIDE DEF ops, entry, S
  <2>5. ops \in Seq(S)
    BY <1>5, <2>4
  <2>6. /\ first \in Seq(S) /\ Extends(first, encoder) /\ IsEncoder(first)
        /\ \A k : KeyExists(first, k) <=> KeyExists(encoder, k) \/ k = entry.name
    BY <1>6, <2>4, EncodeGateFacts
  <2> HIDE DEF first
  <2>7. /\ encoder' \in Seq(S) /\ Extends(encoder', first) /\ IsEncoder(encoder')
        /\ \A k : KeyExists(encoder', k) <=> KeyExists(first, k) \/ \E i \in DOMAIN ops : ops[i] = k
    <3> DEFINE after == EncodeGates(first, ops)
    <3>1. /\ after \in Seq(S) /\ Extends(after, first)
          /\ IsEncoder(first) => IsEncoder(after)
          /\ \A k : KeyExists(after, k) <=> KeyExists(first, k) \/ \E i \in DOMAIN ops : ops[i] = k
      BY <2>5, <2>6, EncodeGatesFacts, ZenonT(60)
    <3> HIDE DEF after
    <3>2. encoder' = after
      BY <2>1 DEF after
    <3>. QED
      BY <2>6, <3>1, <3>2
  <2>8. Extends(encoder', encoder)
    <3>1. /\ Len(encoder) \in Nat /\ Len(first) \in Nat /\ Len(encoder') \in Nat
          /\ DOMAIN encoder = 1 .. Len(encoder) /\ DOMAIN first = 1 .. Len(first)
      BY <1>6, <2>6, <2>7
    <3>. QED
      BY <2>6, <2>7, <3>1 DEF Extends
  <2>. QED
    BY <1>3, <2>3, <2>6, <2>7, <2>8 DEF Encodes, S, entry
<1>. QED
  BY <1>7, <1>8, <1>9

(* The encoder then has the names of one more line.                         *)
LEMMA EncoderStep ==
    ASSUME LinesInv, EncoderInv, ReadsLine, Encodes(NamesOf(Head(lines)))
    PROVE  EncoderInv'
<1>1. /\ file[Read + 1] = Head(lines) /\ file' = file
      /\ \A i : i \in 1 .. Read' <=> i \in 1 .. Read \/ i = Read + 1
  BY LineIsRead DEF ReadsLine
<1>2. NamesIn(file') = NamesIn(file)
  BY <1>1
<1>3. ASSUME NEW name
      PROVE  KeyExists(encoder', name) <=> \E i \in 1 .. Read' : name \in NamesOf(file'[i])
  <2>1. KeyExists(encoder', name) <=> KeyExists(encoder, name) \/ name \in NamesOf(file[Read + 1])
    BY <1>1 DEF Encodes
  <2>2. KeyExists(encoder, name) <=> \E i \in 1 .. Read : name \in NamesOf(file[i])
    BY DEF EncoderInv
  <2>. QED
    BY <1>1, <2>1, <2>2
<1>. QED
  BY <1>2, <1>3 DEF EncoderInv, Encodes

(* The lines read before define the gates that they did.                    *)
LEMMA GateReadStays ==
    ASSUME LinesInv, EncoderInv, ReadsLine, Encodes(NamesOf(Head(lines))), NEW i \in 1 .. Read
    PROVE  GateRead(encoder', file[i]) = GateRead(encoder, file[i])
<1> DEFINE entry == file[i]
           ops == OperandNames(entry)
<1>1. file' = file /\ IsFile(file) /\ Read \in Nat /\ Read + 1 \in DOMAIN file
  BY LineIsRead DEF LinesInv, ReadsLine
<1>2. i \in DOMAIN file
  <2>1. DOMAIN file = 1 .. Len(file) /\ Len(file) \in Nat
    BY <1>1 DEF IsFile
  <2>. QED
    BY <1>1, <2>1
<1>3. ASSUME NEW k \in DOMAIN ops PROVE ops[k] \in NamesOf(entry)
  <2>1. CASE entry.kind = "gate"
    BY <1>3, <2>1 DEF NamesOf
  <2>2. CASE entry.kind # "gate"
    <3>1. ops = <<>>
      BY <2>2 DEF OperandNames
    <3>. QED
      BY <3>1
  <2>. QED
    BY <2>1, <2>2
<1> HIDE DEF ops
<1>4. \A k \in DOMAIN ops : KeyExists(encoder, ops[k])
  BY <1>3 DEF EncoderInv
<1>5. \A k \in DOMAIN ops : IdOf(encoder', ops[k]) = IdOf(encoder, ops[k])
  BY <1>4, IdsStay DEF EncoderInv, Encodes
<1>6. GateRead(encoder, entry) = GateInfo(LineType(entry), [k \in DOMAIN ops |-> IdOf(encoder, ops[k])])
  BY DEF GateRead, ops
<1>7. GateRead(encoder', entry) = GateInfo(LineType(entry), [k \in DOMAIN ops |-> IdOf(encoder', ops[k])])
  BY DEF GateRead, ops
<1>. QED
  BY <1>5, <1>6, <1>7

(* Gates over the first ids are gates over more ids.                        *)
LEMMA InfosGrow ==
    ASSUME NEW m \in Nat, NEW n \in Nat, m <= n, NEW infos \in Seq(GateInfos(m))
    PROVE  infos \in Seq(GateInfos(n))
<1>1. GateInfos(m) \subseteq GateInfos(n)
  <2>1. \A ops \in Seq(1 .. m) : ops \in Seq(1 .. n)
    <3>1. 1 .. m \subseteq 1 .. n
      OBVIOUS
    <3> DEFINE A == 1 .. m
               B == 1 .. n
    <3> HIDE DEF A, B
    <3>2. \A ops \in Seq(A) : ops \in Seq(B)
      BY <3>1 DEF A, B
    <3>. QED
      BY <3>2 DEF A, B
  <2> DEFINE A == Seq(1 .. m)
             B == Seq(1 .. n)
  <2> HIDE DEF A, B
  <2>2. [type : GateTypes, operands : A] \subseteq [type : GateTypes, operands : B]
    BY <2>1 DEF A, B
  <2>. QED
    BY <2>2 DEF GateInfos, A, B
<1> DEFINE A == GateInfos(m)
           B == GateInfos(n)
<1> HIDE DEF A, B
<1>2. \A s \in Seq(A) : s \in Seq(B)
  BY <1>1 DEF A, B
<1>. QED
  BY <1>2 DEF A, B

(* The vector has a place for the id, and keeps the rest.                   *)
LEMMA AddGateFacts ==
    ASSUME NEW n \in Nat, NEW infos \in Seq(GateInfos(n)), Len(infos) <= n,
           NEW id \in 1 .. n, NEW info \in GateInfos(n)
    PROVE  LET after == addGate(infos, id, info)
           IN  /\ after \in Seq(GateInfos(n)) /\ Len(after) <= n
               /\ id \in DOMAIN after /\ after[id] = info
               /\ \A g \in DOMAIN infos : g \in DOMAIN after /\ (g # id => after[g] = infos[g])
               /\ \A g : g \notin DOMAIN infos /\ g # id /\ g \in DOMAIN after => after[g] = NoGateInfo
<1> DEFINE k == IF id > Len(infos) THEN id ELSE Len(infos)
           after == addGate(infos, id, info)
           V == GateInfos(n)
<1>1. k \in Nat /\ k <= n /\ id \in 1 .. k /\ DOMAIN infos \subseteq 1 .. k
  OBVIOUS
<1>2. after = [g \in 1 .. k |-> IF g = id THEN info
                                ELSE IF g \in DOMAIN infos THEN infos[g] ELSE NoGateInfo]
  BY DEF addGate
<1>3. NoGateInfo \in V
  <2>1. <<>> \in Seq(1 .. n) /\ "UNDEFINED" \in GateTypes
    BY DEF GateTypes
  <2>. QED
    BY <2>1 DEF GateInfos, NoGateInfo
<1>4. \A g \in DOMAIN infos : infos[g] \in V
  <2> HIDE DEF V
  <2>. QED
    BY DEF V
<1>5. info \in V
  OBVIOUS
<1> HIDE DEF k, V, after
<1>6. after \in [1 .. k -> V]
  BY <1>2, <1>3, <1>4, <1>5
<1>7. after \in Seq(V) /\ Len(after) = k /\ DOMAIN after = 1 .. k
  BY <1>1, <1>6, FunctionIsSequence
<1>8. /\ after[id] = info
      /\ \A g \in DOMAIN infos : g # id => after[g] = infos[g]
      /\ \A g \in 1 .. k : g \notin DOMAIN infos /\ g # id => after[g] = NoGateInfo
  BY <1>1, <1>2
<1>. QED
  BY <1>1, <1>7, <1>8 DEF after, V

(* The gates that the next line leaves alone, or defines.                   *)
LEMMA GatesStep ==
    ASSUME Inv, ReadsLine, Encodes(NamesOf(Head(lines))),
           gate_info_vector' \in Seq(GateInfos(Len(encoder'))),
           Len(gate_info_vector') <= Len(encoder'),
           \A g \in DOMAIN encoder' :
              IF IsDefinition(Head(lines)) /\ Head(lines).name = encoder'[g]
              THEN g \in DOMAIN gate_info_vector' /\ gate_info_vector'[g] = GateRead(encoder', Head(lines))
              ELSE IF g \in DOMAIN gate_info_vector
              THEN g \in DOMAIN gate_info_vector' /\ gate_info_vector'[g] = gate_info_vector[g]
              ELSE g \in DOMAIN gate_info_vector' => gate_info_vector'[g] = NoGateInfo
    PROVE  GatesInv'
<1> DEFINE entry == Head(lines)
           T(name) == DefinitionsRead(name)
           U(name) == {i \in 1 .. Read' : IsDefinition(file[i]) /\ file[i].name = name}
<1>0. LinesInv /\ EncoderInv /\ GatesInv
  BY DEF Inv
<1>1. /\ file' = file /\ file[Read + 1] = entry /\ Read \in Nat
      /\ \A i : i \in 1 .. Read' <=> i \in 1 .. Read \/ i = Read + 1
  BY <1>0, LineIsRead DEF ReadsLine
<1>2. \A name : DefinitionsRead(name)' = U(name)
  BY <1>1 DEF DefinitionsRead
<1>3. \A name : U(name) = IF IsDefinition(entry) /\ entry.name = name THEN T(name) \cup {Read + 1} ELSE T(name)
  BY <1>1 DEF DefinitionsRead
<1>4. \A i \in 1 .. Read : GateRead(encoder', file[i]) = GateRead(encoder, file[i])
  BY <1>0, GateReadStays
<1>5. /\ Len(encoder) \in Nat /\ DOMAIN encoder = 1 .. Len(encoder)
      /\ Len(encoder') \in Nat /\ DOMAIN encoder' = 1 .. Len(encoder')
      /\ DOMAIN gate_info_vector \subseteq DOMAIN encoder
      /\ \A g \in DOMAIN encoder : encoder'[g] = encoder[g] /\ g \in DOMAIN encoder'
  <2>1. encoder \in Seq(NamesIn(file)) /\ encoder' \in Seq(NamesIn(file)) /\ Extends(encoder', encoder)
    BY <1>0 DEF EncoderInv, Encodes
  <2>2. DOMAIN gate_info_vector = 1 .. Len(gate_info_vector) /\ Len(gate_info_vector) \in Nat
        /\ Len(gate_info_vector) <= Len(encoder)
    BY <1>0 DEF GatesInv
  <2>. QED
    BY <2>1, <2>2 DEF Extends
<1>6. ASSUME NEW g \in DOMAIN encoder', g \notin DOMAIN encoder PROVE T(encoder'[g]) = {}
  <2> SUFFICES ASSUME NEW i \in 1 .. Read, IsDefinition(file[i]), file[i].name = encoder'[g] PROVE FALSE
    BY DEF DefinitionsRead
  <2>1. encoder'[g] \in NamesOf(file[i])
    BY DEF NamesOf, IsDefinition
  <2>2. KeyExists(encoder, encoder'[g])
    BY <1>0, <2>1 DEF EncoderInv
  <2>3. PICK h \in DOMAIN encoder : encoder[h] = encoder'[g]
    BY <2>2 DEF KeyExists
  <2>4. h = g
    BY <1>5, <2>3 DEF Encodes, IsEncoder
  <2>. QED
    BY <1>6, <2>4
<1>7. ASSUME NEW g \in DOMAIN encoder'
      PROVE  /\ U(encoder'[g]) = {} => g \notin DOMAIN gate_info_vector' \/ gate_info_vector'[g] = NoGateInfo
             /\ \A i \in U(encoder'[g]) : (\A j \in U(encoder'[g]) : j <= i) =>
                   g \in DOMAIN gate_info_vector' /\ gate_info_vector'[g] = GateRead(encoder', file[i])
  <2> DEFINE name == encoder'[g]
  <2>1. CASE IsDefinition(entry) /\ entry.name = name
    <3>1. g \in DOMAIN gate_info_vector' /\ gate_info_vector'[g] = GateRead(encoder', entry)
      BY <2>1
    <3>2. Read + 1 \in U(name)
      BY <1>3, <2>1
    <3>3. \A i \in U(name) : (\A j \in U(name) : j <= i) => i = Read + 1
      <4> SUFFICES ASSUME NEW i \in U(name), \A j \in U(name) : j <= i PROVE i = Read + 1
        OBVIOUS
      <4>1. i \in 1 .. Read \/ i = Read + 1
        BY <1>1
      <4>2. Read + 1 <= i
        BY <3>2
      <4>. QED
        BY <1>1, <4>1, <4>2
    <3> HIDE DEF U
    <3>. QED
      BY <1>1, <3>1, <3>2, <3>3
  <2>2. CASE ~(IsDefinition(entry) /\ entry.name = name)
    <3>1. U(name) = T(name) /\ \A i \in T(name) : i \in 1 .. Read
      BY <1>3, <2>2 DEF DefinitionsRead
    <3>2. CASE g \notin DOMAIN encoder
      <4>1. g \notin DOMAIN gate_info_vector /\ U(name) = {}
        BY <1>5, <1>6, <3>1, <3>2
      <4>2. g \in DOMAIN gate_info_vector' => gate_info_vector'[g] = NoGateInfo
        BY <2>2, <4>1
      <4> HIDE DEF U, T
      <4>. QED
        BY <4>1, <4>2
    <3>3. CASE g \in DOMAIN encoder
      <4>1. name = encoder[g] /\ LastIsRead(g)
        BY <1>0, <1>5, <3>3 DEF GatesInv
      <4>2. /\ U(name) = {} => g \notin DOMAIN gate_info_vector \/ gate_info_vector[g] = NoGateInfo
            /\ \A i \in U(name) : (\A j \in U(name) : j <= i) =>
                  g \in DOMAIN gate_info_vector /\ gate_info_vector[g] = GateRead(encoder, file[i])
        BY <3>1, <4>1 DEF LastIsRead
      <4>3. IF g \in DOMAIN gate_info_vector
            THEN g \in DOMAIN gate_info_vector' /\ gate_info_vector'[g] = gate_info_vector[g]
            ELSE g \in DOMAIN gate_info_vector' => gate_info_vector'[g] = NoGateInfo
        BY <2>2
      <4>4. \A i \in U(name) : GateRead(encoder', file[i]) = GateRead(encoder, file[i])
        BY <1>4, <3>1
      <4> HIDE DEF U, T, name
      <4>5. ASSUME NEW i \in U(name), \A j \in U(name) : j <= i
            PROVE  g \in DOMAIN gate_info_vector' /\ gate_info_vector'[g] = GateRead(encoder', file[i])
        BY <4>2, <4>3, <4>4, <4>5
      <4>6. U(name) = {} => g \notin DOMAIN gate_info_vector' \/ gate_info_vector'[g] = NoGateInfo
        BY <4>2, <4>3
      <4>. QED
        BY <4>5, <4>6 DEF name
    <3>. QED
      BY <3>2, <3>3
  <2>. QED
    BY <2>1, <2>2
<1>8. \A g \in DOMAIN encoder' : LastIsRead(g)'
  <2> HIDE DEF U, T
  <2>. QED
    BY <1>1, <1>2, <1>7 DEF LastIsRead
<1>. QED
  BY <1>8 DEF GatesInv

(* A line that can be read defines a gate of a type that can be evaluated.  *)
LEMMA DefinedType ==
    ASSUME NEW entry, IsDefinition(entry), IsReadable(entry)
    PROVE  LineType(entry) \in GateTypes \ {"UNDEFINED", "BUFF"}
<1>1. CASE entry.kind = "INPUT"
  BY <1>1 DEF LineType, GateTypes
<1>2. CASE entry.kind # "INPUT" /\ IsSpecial(entry)
  <2>1. entry.op = "vdd" \/ entry.operands = <<One>> \/ entry.operands = <<Zero>>
    BY <1>2 DEF IsSpecial, IsReadable, IsDefinition
  <2>2. SpecialType(entry) \in {"CONST_TRUE", "CONST_FALSE"}
    BY <2>1, ZenonT(60) DEF SpecialType
  <2>. QED
    BY <1>2, <2>2 DEF LineType, GateTypes, OperatorTypes
<1>3. CASE entry.kind # "INPUT" /\ ~IsSpecial(entry)
  <2>1. entry.op \in OperatorTypes \cup {"BUFF"}
    BY <1>3 DEF IsSpecial, IsReadable, IsDefinition, GateTypeNames
  <2>2. entry.op = "BUFF" => stringToGateType(entry.op) = "IFF"
    BY ZenonT(60) DEF stringToGateType
  <2>3. entry.op # "BUFF" /\ entry.op # "vdd" => stringToGateType(entry.op) = entry.op
    BY ZenonT(60) DEF stringToGateType
  <2>4. entry.op # "vdd"
    BY <1>3 DEF IsSpecial
  <2>5. OperatorTypes \subseteq GateTypes \ {"UNDEFINED", "BUFF"} /\ "IFF" \in OperatorTypes
    BY DEF OperatorTypes, FoldTypes, GateTypes
  <2>6. stringToGateType(entry.op) \in OperatorTypes
    BY <2>1, <2>2, <2>3, <2>4, <2>5
  <2>. QED
    BY <1>3, <2>5, <2>6 DEF LineType
<1>. QED
  BY <1>1, <1>2, <1>3

(* A line that defines a gate.                                              *)
LEMMA DefinitionStep ==
    ASSUME Inv, ReadsLine, Encodes(NamesOf(Head(lines))), IsDefinition(Head(lines)),
           gate_info_vector' = addGate(gate_info_vector, IdOf(encoder', Head(lines).name),
                                       GateRead(encoder', Head(lines)))
    PROVE  GatesInv'
<1> DEFINE entry == Head(lines)
           id == IdOf(encoder', entry.name)
           info == GateRead(encoder', entry)
           ops == OperandNames(entry)
           n == Len(encoder')
<1>0. LinesInv /\ EncoderInv /\ GatesInv /\ IsReadable(entry)
  BY DEF Inv, ReadsLine
<1>1. IsFile(file) /\ Read + 1 \in DOMAIN file /\ file[Read + 1] = entry
  BY <1>0, LineIsRead DEF LinesInv
<1>2. entry.kind \in {"INPUT", "OUTPUT", "gate"}
  BY DEF IsDefinition
<1>3. ops \in Seq(NamesOf(entry)) /\ entry.name \in NamesOf(entry)
  BY <1>1, <1>2, LineNames
<1>4. \A name \in NamesOf(entry) : KeyExists(encoder', name)
  BY DEF Encodes
<1>5. /\ n \in Nat /\ DOMAIN encoder' = 1 .. n /\ IsEncoder(encoder')
      /\ Len(encoder) \in Nat /\ Len(encoder) <= n
      /\ gate_info_vector \in Seq(GateInfos(Len(encoder))) /\ Len(gate_info_vector) <= Len(encoder)
      /\ Len(gate_info_vector) \in Nat
  <2>1. encoder \in Seq(NamesIn(file)) /\ encoder' \in Seq(NamesIn(file))
        /\ Extends(encoder', encoder) /\ IsEncoder(encoder')
    BY <1>0 DEF EncoderInv, Encodes
  <2>2. gate_info_vector \in Seq(GateInfos(Len(encoder))) /\ Len(gate_info_vector) <= Len(encoder)
    BY <1>0 DEF GatesInv
  <2>. QED
    BY <2>1, <2>2 DEF Extends
<1>6. \A name \in NamesOf(entry) :
         IdOf(encoder', name) \in 1 .. n /\ encoder'[IdOf(encoder', name)] = name
  BY <1>4, <1>5, IdOfFacts
<1>7. info \in GateInfos(n)
  <2> DEFINE ids == [i \in DOMAIN ops |-> IdOf(encoder', ops[i])]
             m == Len(ops)
  <2>1. m \in Nat /\ DOMAIN ops = 1 .. m /\ \A i \in 1 .. m : ops[i] \in NamesOf(entry)
    BY <1>3
  <2>2. ids \in [1 .. m -> 1 .. n]
    <3> HIDE DEF ops, m, n
    <3>. QED
      BY <1>6, <2>1
  <2>3. ids \in Seq(1 .. n)
    <3> HIDE DEF ids, m, n
    <3>. QED
      BY <2>1, <2>2, FunctionIsSequence
  <2>4. LineType(entry) \in GateTypes
    BY <1>0, DefinedType
  <2> HIDE DEF ids, n, entry
  <2>5. GateInfo(LineType(entry), ids) \in GateInfos(n)
    BY <1>5, <2>3, <2>4, GateInfoTyped
  <2>. QED
    BY <2>5 DEF GateRead, ids
<1>8. gate_info_vector \in Seq(GateInfos(n)) /\ Len(gate_info_vector) <= n
  <2> HIDE DEF n
  <2>1. gate_info_vector \in Seq(GateInfos(n))
    BY <1>5, InfosGrow
  <2>. QED
    BY <1>5, <2>1
<1>9. id \in 1 .. n /\ encoder'[id] = entry.name
  BY <1>3, <1>6
<1> DEFINE after == addGate(gate_info_vector, id, info)
<1>10. gate_info_vector' = after
  OBVIOUS
<1> HIDE DEF id, info, n, entry
<1>11. /\ after \in Seq(GateInfos(n)) /\ Len(after) <= n
       /\ id \in DOMAIN after /\ after[id] = info
       /\ \A g \in DOMAIN gate_info_vector :
             g \in DOMAIN after /\ (g # id => after[g] = gate_info_vector[g])
       /\ \A g : g \notin DOMAIN gate_info_vector /\ g # id /\ g \in DOMAIN after => after[g] = NoGateInfo
  BY <1>5, <1>7, <1>8, <1>9, AddGateFacts
<1> HIDE DEF after
<1>12. \A g \in DOMAIN encoder' : entry.name = encoder'[g] <=> g = id
  BY <1>5, <1>9 DEF IsEncoder
<1>13. \A g \in DOMAIN encoder' :
          IF IsDefinition(entry) /\ entry.name = encoder'[g]
          THEN g \in DOMAIN gate_info_vector' /\ gate_info_vector'[g] = GateRead(encoder', entry)
          ELSE IF g \in DOMAIN gate_info_vector
          THEN g \in DOMAIN gate_info_vector' /\ gate_info_vector'[g] = gate_info_vector[g]
          ELSE g \in DOMAIN gate_info_vector' => gate_info_vector'[g] = NoGateInfo
  <2>1. IsDefinition(entry)
    BY DEF entry
  <2>. QED
    BY <1>10, <1>11, <1>12, <2>1 DEF info
<1>. QED
  BY <1>10, <1>11, <1>13, GatesStep DEF n, entry

(* A line that does not.                                                    *)
LEMMA NoDefinitionStep ==
    ASSUME Inv, ReadsLine, Encodes(NamesOf(Head(lines))), ~IsDefinition(Head(lines)),
           gate_info_vector' = gate_info_vector
    PROVE  GatesInv'
<1> DEFINE n == Len(encoder')
<1>1. /\ n \in Nat /\ Len(encoder) \in Nat /\ Len(encoder) <= n
      /\ gate_info_vector \in Seq(GateInfos(Len(encoder))) /\ Len(gate_info_vector) <= Len(encoder)
      /\ Len(gate_info_vector) \in Nat
  <2>1. encoder \in Seq(NamesIn(file)) /\ encoder' \in Seq(NamesIn(file)) /\ Extends(encoder', encoder)
    BY DEF Inv, EncoderInv, Encodes
  <2>2. gate_info_vector \in Seq(GateInfos(Len(encoder))) /\ Len(gate_info_vector) <= Len(encoder)
    BY DEF Inv, GatesInv
  <2>. QED
    BY <2>1, <2>2 DEF Extends
<1>2. gate_info_vector \in Seq(GateInfos(n)) /\ Len(gate_info_vector) <= n
  <2> HIDE DEF n
  <2>1. gate_info_vector \in Seq(GateInfos(n))
    BY <1>1, InfosGrow
  <2>. QED
    BY <1>1, <2>1
<1>. QED
  BY <1>2, GatesStep

(* A line that declares an output.                                          *)
LEMMA OutputsStep ==
    ASSUME LinesInv, EncoderInv, OutputsInv, ReadsLine, Encodes(NamesOf(Head(lines))),
           output_gate_ids' = IF Head(lines).kind = "OUTPUT"
                              THEN Append(output_gate_ids, IdOf(encoder', Head(lines).name))
                              ELSE output_gate_ids
    PROVE  OutputsInv'
<1> DEFINE entry == Head(lines)
           names == OutputsIn(file)[Read]
           after == OutputsIn(file)[Read + 1]
           S == NamesIn(file)
<1>1. /\ file' = file /\ file[Read + 1] = entry /\ Read \in Nat /\ Read' = Read + 1
      /\ Read + 1 \in DOMAIN file /\ IsFile(file)
  BY LineIsRead DEF LinesInv, ReadsLine
<1>2. after = IF entry.kind = "OUTPUT" THEN Append(names, entry.name) ELSE names
  <2>1. Len(file) \in Nat /\ Read + 1 \in 1 .. Len(file) /\ (Read + 1) - 1 = Read
    BY <1>1 DEF IsFile
  <2>2. OutputsIn(file)[Read + 1] =
           IF file[Read + 1].kind = "OUTPUT" THEN Append(OutputsIn(file)[(Read + 1) - 1], file[Read + 1].name)
                                             ELSE OutputsIn(file)[(Read + 1) - 1]
    BY <2>1, OutputsInFacts
  <2>. QED
    BY <1>1, <2>1, <2>2
<1>3. /\ names \in Seq(S) /\ \A k \in DOMAIN names : KeyExists(encoder, names[k])
      /\ output_gate_ids = [k \in DOMAIN names |-> IdOf(encoder, names[k])]
  BY DEF OutputsInv
<1>4. (OutputsIn(file)[Read])' = after
  BY <1>1
<1> HIDE DEF names
<1>5. \A k \in DOMAIN names : KeyExists(encoder', names[k]) /\ IdOf(encoder', names[k]) = IdOf(encoder, names[k])
  BY <1>3, IdsStay DEF EncoderInv, Encodes
<1>6. output_gate_ids = [k \in DOMAIN names |-> IdOf(encoder', names[k])]
  BY <1>3, <1>5
<1>7. CASE entry.kind # "OUTPUT"
  <2>1. after = names /\ output_gate_ids' = output_gate_ids
    BY <1>2, <1>7
  <2> HIDE DEF after
  <2>. QED
    BY <1>1, <1>3, <1>4, <1>5, <1>6, <2>1 DEF OutputsInv
<1>8. CASE entry.kind = "OUTPUT"
  <2> DEFINE x == entry.name
             m == Len(names)
             id(k) == IdOf(encoder', k)
  <2>1. x \in NamesOf(entry) /\ x \in S
    BY <1>1, <1>8, LineNames
  <2>2. KeyExists(encoder', x)
    BY <2>1 DEF Encodes
  <2>3. after = Append(names, x) /\ output_gate_ids' = Append(output_gate_ids, id(x))
    BY <1>2, <1>8
  <2>4. m \in Nat /\ DOMAIN names = 1 .. m
    BY <1>3
  <2> HIDE DEF after, x, S, m
  <2>5. /\ after \in Seq(S) /\ DOMAIN after = 1 .. m + 1 /\ after[m + 1] = x
        /\ \A k \in 1 .. m : after[k] = names[k]
    <3>1. names \in Seq(S) /\ x \in S
      BY <1>3, <2>1 DEF S
    <3>2. Append(names, x) \in Seq(S)
      BY <3>1
    <3>3. Append(names, x) = [k \in 1 .. m + 1 |-> IF k = m + 1 THEN x ELSE names[k]]
      BY <3>1, AppendFacts DEF m
    <3>. QED
      BY <2>3, <2>4, <3>2, <3>3
  <2>6. \A k \in 1 .. m + 1 : k = m + 1 \/ k \in 1 .. m
    BY <2>4
  <2>7. \A k \in 1 .. m + 1 : KeyExists(encoder', after[k])
    BY <1>5, <2>2, <2>4, <2>5, <2>6
  <2>8. output_gate_ids' = [k \in 1 .. m + 1 |-> id(after[k])]
    <3>1. output_gate_ids = [k \in 1 .. m |-> id(names[k])]
      BY <1>6, <2>4
    <3> DEFINE V == {id(names[k]) : k \in 1 .. m}
    <3>2. output_gate_ids \in [1 .. m -> V]
      BY <3>1
    <3>3. output_gate_ids \in Seq(V) /\ Len(output_gate_ids) = m
      <4> HIDE DEF V
      <4>. QED
        BY <2>4, <3>2, FunctionIsSequence
    <3> HIDE DEF V, id
    <3>4. Append(output_gate_ids, id(x)) =
             [k \in 1 .. m + 1 |-> IF k = m + 1 THEN id(x) ELSE output_gate_ids[k]]
      BY <3>3, AppendFacts
    <3>5. \A k \in 1 .. m : output_gate_ids[k] = id(after[k])
      BY <2>5, <3>1
    <3>6. \A k \in 1 .. m + 1 : (IF k = m + 1 THEN id(x) ELSE output_gate_ids[k]) = id(after[k])
      BY <2>5, <2>6, <3>5
    <3>. QED
      BY <2>3, <3>4, <3>6
  <2>. QED
    BY <1>1, <1>4, <2>5, <2>7, <2>8 DEF OutputsInv, S
<1>. QED
  BY <1>7, <1>8

(* SkipLine, ParseInput, ParseOutput, ParseSpecial and ParseGate: by what   *)
(* they do to the gates and to the outputs.                                 *)
LEMMA LineStep ==
    ASSUME Inv, SkipLine \/ ParseInput \/ ParseOutput \/ ParseSpecial \/ ParseGate
    PROVE  Inv'
<1> DEFINE entry == Head(lines)
<1>0. LinesInv /\ EncoderInv /\ GatesInv /\ OutputsInv /\ ResultInv
  BY DEF Inv
<1>1. ReadsLine /\ Encodes(NamesOf(entry))
  BY <1>0, LineEncodes
<1>2. LinesInv' /\ EncoderInv'
  BY <1>0, <1>1, LineIsRead, EncoderStep
<1>3. ResultInv'
  BY <1>0 DEF ResultInv, SkipLine, ParseInput, ParseOutput, ParseSpecial, ParseGate, AtLine, NextLine
<1>4. output_gate_ids' = IF entry.kind = "OUTPUT" THEN Append(output_gate_ids, IdOf(encoder', entry.name))
                                                  ELSE output_gate_ids
  <2>1. CASE ParseOutput
    <3>1. /\ entry.kind = "OUTPUT" /\ encoder' = EncodeGate(encoder, entry.name)
          /\ output_gate_ids' = Append(output_gate_ids, IdOf(encoder, entry.name))
      BY <2>1 DEF ParseOutput, AtLine, line
    <3>2. KeyExists(encoder', entry.name)
      BY <1>1, <3>1 DEF Encodes, NamesOf
    <3>3. IdOf(encoder', entry.name) = IdOf(encoder, entry.name)
      BY <3>1, <3>2 DEF IdOf, EncodeGate
    <3>. QED
      BY <3>1, <3>3
  <2>2. CASE SkipLine \/ ParseInput \/ ParseSpecial \/ ParseGate
    BY <2>2 DEF SkipLine, ParseInput, ParseSpecial, ParseGate, AtLine, collected
  <2>. QED
    BY <2>1, <2>2
<1>5. OutputsInv'
  BY <1>0, <1>1, <1>4, OutputsStep
<1>6. CASE SkipLine \/ ParseOutput
  <2>1. ~IsDefinition(entry) /\ gate_info_vector' = gate_info_vector
    BY <1>6 DEF SkipLine, ParseOutput, AtLine, collected, IsDefinition
  <2>2. GatesInv'
    BY <1>1, <2>1, NoDefinitionStep
  <2>. QED
    BY <1>2, <1>3, <1>5, <2>2 DEF Inv
<1>7. CASE ParseInput \/ ParseSpecial \/ ParseGate
  <2>1. IsDefinition(entry)
    BY <1>7 DEF ParseInput, ParseSpecial, ParseGate, AtLine, line, IsDefinition
  <2>2. entry.name \in NamesOf(entry)
    BY <2>1 DEF IsDefinition, NamesOf
  <2>3. KeyExists(encoder', entry.name)
    BY <1>1, <2>2 DEF Encodes
  <2>4. gate_info_vector' =
           addGate(gate_info_vector, IdOf(encoder', entry.name), GateRead(encoder', entry))
    <3>1. [i \in DOMAIN <<>> |-> IdOf(encoder', <<>>[i])] = <<>>
      OBVIOUS
    <3>2. CASE ParseInput
      <4>1. /\ entry.kind = "INPUT" /\ encoder' = EncodeGate(encoder, entry.name)
            /\ gate_info_vector' =
                  addGate(gate_info_vector, IdOf(encoder, entry.name), GateInfo("INPUT", <<>>))
        BY <3>2 DEF ParseInput, AtLine, line
      <4>2. IdOf(encoder', entry.name) = IdOf(encoder, entry.name)
        BY <2>3, <4>1 DEF IdOf, EncodeGate
      <4>3. OperandNames(entry) = <<>> /\ LineType(entry) = "INPUT"
        BY <4>1 DEF OperandNames, LineType
      <4>4. GateRead(encoder', entry) = GateInfo("INPUT", <<>>)
        BY <3>1, <4>3 DEF GateRead
      <4>. QED
        BY <4>1, <4>2, <4>4
    <3>3. CASE ParseSpecial
      <4>1. /\ entry.kind = "gate" /\ IsSpecial(entry) /\ encoder' = EncodeGate(encoder, entry.name)
            /\ gate_info_vector' =
                  addGate(gate_info_vector, IdOf(encoder, entry.name), GateInfo(SpecialType(entry), <<>>))
        BY <3>3 DEF ParseSpecial, AtLine, line
      <4>2. IdOf(encoder', entry.name) = IdOf(encoder, entry.name)
        BY <2>3, <4>1 DEF IdOf, EncodeGate
      <4>3. OperandNames(entry) = <<>> /\ LineType(entry) = SpecialType(entry)
        BY <4>1 DEF OperandNames, LineType
      <4>4. GateRead(encoder', entry) = GateInfo(SpecialType(entry), <<>>)
        BY <3>1, <4>3 DEF GateRead
      <4>. QED
        BY <4>1, <4>2, <4>4
    <3>4. CASE ParseGate
      <4> DEFINE first == EncodeGate(encoder, entry.name)
                 S == NamesIn(file)
                 ops == entry.operands
      <4>1. /\ entry.kind = "gate" /\ ~IsSpecial(entry) /\ encoder' = EncodeGates(first, ops)
            /\ gate_info_vector' =
                  addGate(gate_info_vector, IdOf(encoder, entry.name),
                          GateInfo(stringToGateType(entry.op), [i \in DOMAIN ops |-> IdOf(encoder', ops[i])]))
        BY <3>4 DEF ParseGate, AtLine, line
      <4>2. OperandNames(entry) = ops /\ LineType(entry) = stringToGateType(entry.op)
        BY <4>1 DEF OperandNames, LineType
      <4>3. Read + 1 \in DOMAIN file /\ file[Read + 1] = entry /\ IsFile(file)
        BY <1>0, <1>1, LineIsRead DEF LinesInv
      <4>4. entry.name \in S /\ ops \in Seq(NamesOf(entry)) /\ NamesOf(entry) \subseteq S
        BY <2>2, <4>1, <4>2, <4>3, LineNames
      <4> HIDE DEF ops, S, entry
      <4>5. ops \in Seq(S)
        BY <4>4
      <4>6. encoder \in Seq(S) /\ IsEncoder(encoder)
        BY <1>0 DEF EncoderInv, S
      <4>7. first \in Seq(S) /\ IsEncoder(first) /\ KeyExists(first, entry.name)
        BY <4>4, <4>6, EncodeGateFacts
      <4>8. IdOf(first, entry.name) = IdOf(encoder, entry.name)
        BY <4>7 DEF IdOf, EncodeGate
      <4>9. encoder' \in Seq(S) /\ Extends(encoder', first) /\ IsEncoder(encoder')
        <5> DEFINE e == EncodeGates(first, ops)
        <5> HIDE DEF first
        <5>1. /\ e \in Seq(S) /\ Extends(e, first)
              /\ IsEncoder(first) => IsEncoder(e)
          BY <4>5, <4>7, EncodeGatesFacts
        <5>. QED
          BY <4>1, <4>7, <5>1
      <4> HIDE DEF first
      <4>10. IdOf(encoder', entry.name) = IdOf(first, entry.name)
        BY <4>7, <4>9, IdsStay
      <4>11. GateRead(encoder', entry) =
                GateInfo(stringToGateType(entry.op), [i \in DOMAIN ops |-> IdOf(encoder', ops[i])])
        BY <4>2 DEF GateRead
      <4>. QED
        BY <4>1, <4>8, <4>10, <4>11
    <3>. QED
      BY <1>7, <3>2, <3>3, <3>4
  <2>5. GatesInv'
    BY <1>1, <2>1, <2>4, DefinitionStep
  <2>. QED
    BY <1>2, <1>3, <1>5, <2>5 DEF Inv
<1>. QED
  BY <1>6, <1>7

(* Nothing has been read of a file that is opened.                          *)
LEMMA NothingRead ==
    ASSUME NEW f, IsFile(f)
    PROVE  /\ f \in Seq(LinesOf(f)) /\ Len(f) \in Nat /\ OutputsIn(f)[0] = <<>>
           /\ Len(f) - Len(f) = 0 /\ 1 .. 0 = {} /\ \A i \in 1 .. Len(f) : f[0 + i] = f[i]
           /\ \A S : <<>> \in Seq(S)
           /\ Len(<<>>) = 0 /\ DOMAIN <<>> = {} /\ \A k : [i \in {} |-> k] = <<>>
           /\ \A k : ~KeyExists(<<>>, k)
           /\ IsEncoder(<<>>)
<1>1. f \in Seq(LinesOf(f)) /\ Len(f) \in Nat
  BY DEF IsFile
<1>2. OutputsIn(f)[0] = <<>>
  BY <1>1, OutputsInFacts
<1>3. IsEncoder(<<>>) /\ \A k : ~KeyExists(<<>>, k)
  BY DEF IsEncoder, KeyExists
<1>4. Len(f) - Len(f) = 0 /\ 1 .. 0 = {} /\ \A i \in 1 .. Len(f) : f[0 + i] = f[i]
  BY <1>1
<1>. QED
  BY <1>1, <1>2, <1>3, <1>4

(* Nothing has been read in the beginning.                                  *)
LEMMA InitHolds ==
    ASSUME Init PROVE Inv
<1>1. PICK f \in Files : Open(f)
  BY DEF Init
<1>2. IsFile(f) /\ Read = 0
  BY <1>1, NothingRead, FilesAssumption DEF Open, Read
<1>3. LinesInv
  BY <1>1, <1>2, NothingRead DEF LinesInv, Open
<1>4. EncoderInv
  BY <1>1, <1>2, NothingRead DEF EncoderInv, Open, NoEncoder
<1>5. GatesInv
  BY <1>1, <1>2, NothingRead DEF GatesInv, Open, NoEncoder
<1>6. OutputsInv
  BY <1>1, <1>2, NothingRead DEF OutputsInv, Open
<1>7. ResultInv
  BY <1>1 DEF ResultInv, Open
<1>. QED
  BY <1>3, <1>4, <1>5, <1>6, <1>7 DEF Inv

(* clear begins a file with nothing read of it.                             *)
LEMMA ClearStep ==
    ASSUME Clear PROVE Inv'
<1>1. PICK f \in NextFiles :
         /\ file' = f /\ lines' = f
         /\ encoder' = NoEncoder /\ gate_info_vector' = <<>> /\ output_gate_ids' = <<>>
         /\ circuit' = NoCircuit
         /\ pc' = "parse"
  BY DEF Clear
<1>2. IsFile(f) /\ Read' = 0
  BY <1>1, NothingRead, FilesAssumption DEF Read
<1>3. LinesInv'
  BY <1>1, <1>2, NothingRead DEF LinesInv
<1>4. EncoderInv'
  BY <1>1, <1>2, NothingRead DEF EncoderInv, NoEncoder
<1>5. GatesInv'
  BY <1>1, <1>2, NothingRead DEF GatesInv, NoEncoder
<1>6. OutputsInv'
  BY <1>1, <1>2, NothingRead DEF OutputsInv
<1>7. ResultInv'
  BY <1>1 DEF ResultInv
<1>. QED
  BY <1>3, <1>4, <1>5, <1>6, <1>7 DEF Inv

(* The steps that read nothing change pc and circuit only.                  *)
LEMMA StopStep ==
    ASSUME Inv, Abort \/ Instantiate \/ Throw \/ UNCHANGED vars PROVE Inv'
<1>1. UNCHANGED <<file, lines, encoder, gate_info_vector, output_gate_ids>>
  BY DEF Abort, Instantiate, Throw, vars, collected
<1>2. Read' = Read /\ OperandsInRange' = OperandsInRange
  BY <1>1 DEF Read, OperandsInRange
<1>3. LinesInv' /\ EncoderInv'
  BY <1>1, <1>2 DEF Inv, LinesInv, EncoderInv
<1>4. GatesInv'
  <2>1. \A g : LastIsRead(g)' = LastIsRead(g)
    BY <1>1, <1>2 DEF LastIsRead, DefinitionsRead
  <2>. QED
    BY <1>1, <2>1 DEF Inv, GatesInv
<1>5. OutputsInv'
  BY <1>1, <1>2 DEF Inv, OutputsInv
<1>6. ResultInv'
  BY <1>1, <1>2 DEF Inv, ResultInv, Abort, Instantiate, Throw, vars, collected, line
<1>. QED
  BY <1>3, <1>4, <1>5, <1>6 DEF Inv

(* The invariant holds for all files.                                       *)
THEOREM InvAlways == Spec => []Inv
<1>1. Init => Inv
  BY InitHolds
<1>2. Inv /\ [Next]_vars => Inv'
  BY LineStep, ClearStep, StopStep DEF Next, ParseLine
<1>. QED
  BY <1>1, <1>2, PTL DEF Spec

------------------------------------------------------------------------------
(* A set of some of the first numbers has a last one.                       *)
LEMMA LastExists ==
    ASSUME NEW n \in Nat, NEW T \in SUBSET (1 .. n), T # {}
    PROVE  \E i \in T : \A j \in T : j <= i
<1> DEFINE Rest == {n - i : i \in T}
<1>1. Rest \in SUBSET Nat /\ Rest # {}
  <2>1. \A i \in T : n - i \in Nat
    OBVIOUS
  <2>. QED
    BY <2>1
<1>2. PICK x \in Rest : \A y \in Rest : x <= y
  <2> HIDE DEF Rest
  <2>. QED
    BY <1>1, LeastNatural
<1>3. PICK i \in T : x = n - i
  BY <1>2
<1>4. ASSUME NEW j \in T PROVE j <= i
  <2>1. n - i <= n - j
    BY <1>2, <1>3
  <2>. QED
    BY <2>1
<1>. QED
  BY <1>4

(* When all lines have been read, the encoder has the names of the file.    *)
LEMMA AllRead ==
    ASSUME Inv, lines = <<>>
    PROVE  /\ IsFile(file) /\ Len(file) \in Nat /\ DOMAIN file = 1 .. Len(file) /\ Read = Len(file)
           /\ \A name : DefinitionsRead(name) = DefinitionsOf(file, name)
           /\ \A i \in DOMAIN file : IsReadable(file[i])
           /\ \A name : KeyExists(encoder, name) <=> name \in NamesIn(file)
<1>1. IsFile(file) /\ Len(file) \in Nat /\ DOMAIN file = 1 .. Len(file) /\ Read = Len(file)
  BY DEF Inv, LinesInv, IsFile, Read
<1>2. \A name : DefinitionsRead(name) = DefinitionsOf(file, name)
  BY <1>1 DEF DefinitionsRead, DefinitionsOf
<1>3. \A i \in DOMAIN file : IsReadable(file[i])
  BY <1>1 DEF Inv, LinesInv
<1>4. \A name : name \in NamesIn(file) <=> \E i \in DOMAIN file : name \in NamesOf(file[i])
  BY DEF NamesIn, LinesOf
<1>5. \A name : KeyExists(encoder, name) <=> name \in NamesIn(file)
  BY <1>1, <1>4 DEF Inv, EncoderInv
<1>. QED
  BY <1>1, <1>2, <1>3, <1>5

(* The last definition of a name is a line that defines it.                 *)
LEMMA LastDefinitionFacts ==
    ASSUME NEW f, Len(f) \in Nat, DOMAIN f = 1 .. Len(f), NEW name \in DefinedNames(f)
    PROVE  \E i \in DefinitionsOf(f, name) :
              /\ \A j \in DefinitionsOf(f, name) : j <= i
              /\ LastDefinition(f, name) = f[i]
<1> DEFINE T == DefinitionsOf(f, name)
           i == CHOOSE i \in T : \A j \in T : j <= i
<1>1. T \in SUBSET (1 .. Len(f)) /\ T # {}
  BY DEF DefinitionsOf, DefinedNames
<1> HIDE DEF T
<1>2. \E k \in T : \A j \in T : j <= k
  BY <1>1, LastExists
<1>3. i \in T /\ \A j \in T : j <= i
  BY <1>2
<1>4. LastDefinition(f, name) = f[i]
  BY DEF LastDefinition, T
<1>. QED
  BY <1>3, <1>4 DEF T

(* Then the gates are those that the last definitions define.               *)
LEMMA GateOfName ==
    ASSUME Inv, lines = <<>>, NEW g \in DOMAIN encoder
    PROVE  IF encoder[g] \in DefinedNames(file)
           THEN /\ g \in DOMAIN gate_info_vector
                /\ gate_info_vector[g] = GateRead(encoder, LastDefinition(file, encoder[g]))
                /\ \E i \in DOMAIN file : LastDefinition(file, encoder[g]) = file[i]
                /\ IsDefinition(LastDefinition(file, encoder[g]))
                /\ IsReadable(LastDefinition(file, encoder[g]))
           ELSE g \notin DOMAIN gate_info_vector \/ gate_info_vector[g] = NoGateInfo
<1> DEFINE name == encoder[g]
<1>1. LastIsRead(g)
  BY DEF Inv, GatesInv
<1>2. name \in NamesIn(file)
  BY AllRead DEF KeyExists
<1>3. CASE name \in DefinedNames(file)
  <2>1. PICK i \in DefinitionsOf(file, name) :
           /\ \A j \in DefinitionsOf(file, name) : j <= i
           /\ LastDefinition(file, name) = file[i]
    BY <1>3, AllRead, LastDefinitionFacts
  <2>2. i \in DefinitionsRead(name) /\ \A j \in DefinitionsRead(name) : j <= i
    BY <2>1, AllRead
  <2>3. g \in DOMAIN gate_info_vector /\ gate_info_vector[g] = GateRead(encoder, file[i])
    BY <1>1, <2>2 DEF LastIsRead
  <2>4. i \in DOMAIN file /\ IsDefinition(file[i]) /\ IsReadable(file[i])
    BY <2>1, AllRead DEF DefinitionsOf
  <2>. QED
    BY <1>3, <2>1, <2>3, <2>4
<1>4. CASE name \notin DefinedNames(file)
  <2>1. DefinitionsRead(name) = {}
    BY <1>2, <1>4, AllRead DEF DefinedNames
  <2>. QED
    BY <1>1, <1>4, <2>1 DEF LastIsRead
<1>. QED
  BY <1>3, <1>4

(* What the reader makes of names that are never defined.                   *)
LEMMA MissingIsMissing ==
    ASSUME Inv PROVE MissingStaysMissing
<1> SUFFICES ASSUME pc = "done"
             PROVE  /\ \A g \in DOMAIN encoder :
                          encoder[g] \in DefinedNames(file) <=>
                              g \in GateIds(circuit) /\ Type(circuit, g) # "UNDEFINED"
                    /\ \A g \in GateIds(circuit) : OperandSet(circuit, g) \subseteq GateIds(circuit)
  BY DEF MissingStaysMissing
<1>1. lines = <<>> /\ OperandsInRange /\ circuit.gates = gate_info_vector
  BY DEF Inv, ResultInv
<1>2. GateIds(circuit) = DOMAIN gate_info_vector
  BY <1>1 DEF GateIds, Inv, GatesInv
<1>3. ASSUME NEW g \in DOMAIN encoder
      PROVE  encoder[g] \in DefinedNames(file) <=>
                 g \in GateIds(circuit) /\ Type(circuit, g) # "UNDEFINED"
  <2>1. CASE encoder[g] \in DefinedNames(file)
    <3> DEFINE entry == LastDefinition(file, encoder[g])
               ids == [i \in DOMAIN OperandNames(entry) |-> IdOf(encoder, OperandNames(entry)[i])]
    <3>1. /\ g \in DOMAIN gate_info_vector /\ gate_info_vector[g] = GateRead(encoder, entry)
          /\ IsDefinition(entry) /\ IsReadable(entry)
      BY <1>1, <2>1, GateOfName
    <3>2. LineType(entry) # "UNDEFINED"
      BY <3>1, DefinedType
    <3>3. GateRead(encoder, entry).type = LineType(entry)
      BY DEF GateRead, GateInfo
    <3>. QED
      BY <1>1, <1>2, <2>1, <3>1, <3>2, <3>3 DEF Type
  <2>2. CASE encoder[g] \notin DefinedNames(file)
    <3>1. g \notin DOMAIN gate_info_vector \/ gate_info_vector[g] = NoGateInfo
      BY <1>1, <2>2, GateOfName
    <3>. QED
      BY <1>1, <1>2, <2>2, <3>1 DEF Type, NoGateInfo
  <2>. QED
    BY <2>1, <2>2
<1>4. \A g \in GateIds(circuit) : OperandSet(circuit, g) \subseteq GateIds(circuit)
  BY <1>1, <1>2 DEF OperandsInRange, OperandSet, Operands
<1>. QED
  BY <1>3, <1>4

(* Nothing takes the place of a gate that the file does not define.         *)
THEOREM MissingGates == Spec => []MissingStaysMissing
BY MissingIsMissing, InvAlways, PTL

------------------------------------------------------------------------------
(* The place of a name that is listed.                                      *)
LEMMA PlaceFacts ==
    ASSUME NEW names, IsEncoder(names), NEW name, KeyExists(names, name)
    PROVE  /\ PlaceOf(names, name) \in DOMAIN names /\ names[PlaceOf(names, name)] = name
           /\ \A g \in DOMAIN names : names[g] = name => PlaceOf(names, name) = g
BY DEF KeyExists, PlaceOf, IsEncoder

(* A set that a sequence runs through is finite.                            *)
LEMMA RunThrough ==
    ASSUME NEW S, NEW s \in Seq(S), \A x \in S : KeyExists(s, x)
    PROVE  IsFiniteSet(S)
<1> DEFINE n == Len(s)
<1>1. n \in Nat /\ s \in [1 .. n -> S] /\ DOMAIN s = 1 .. n
  OBVIOUS
<1>2. IsFiniteSet(1 .. n)
  BY <1>1, FS_Interval
<1>3. s \in Surjection(1 .. n, S)
  BY <1>1 DEF Surjection, KeyExists
<1>. QED
  BY <1>2, <1>3, FS_Surjection

(* The gates and outputs that a legal file means.                           *)
LEMMA MeaningFacts ==
    ASSUME NEW f, IsFiniteSet(NamesIn(f)), DefinedNames(f) = NamesIn(f)
    PROVE  LET names == MeaningNames(f)
           IN  /\ names \in Seq(NamesIn(f)) /\ IsEncoder(names)
               /\ \A x \in NamesIn(f) : KeyExists(names, x)
               /\ DOMAIN names = 1 .. Len(names) /\ Len(names) \in Nat
               /\ GateIds(Meaning(f)) = DOMAIN names /\ Len(Meaning(f).gates) = Len(names)
               /\ \A g \in DOMAIN names : Meaning(f).gates[g] = LineGate(LastDefinition(f, names[g]), names)
               /\ DOMAIN Meaning(f).gates = 1 .. Len(names)
               /\ Meaning(f).outputs = [k \in DOMAIN OutputNames(f) |-> PlaceOf(names, OutputNames(f)[k])]
<1> DEFINE names == MeaningNames(f)
           n == Len(names)
           G(g) == IF DefinitionsOf(f, names[g]) = {} THEN NoGateInfo
                   ELSE LineGate(LastDefinition(f, names[g]), names)
<1>1. /\ names \in Seq(NamesIn(f)) /\ IsEncoder(names)
      /\ \A x \in NamesIn(f) : KeyExists(names, x)
  BY ListingFacts DEF MeaningNames
<1> HIDE DEF names
<1>2. n \in Nat /\ DOMAIN names = 1 .. n /\ \A g \in 1 .. n : names[g] \in NamesIn(f)
  BY <1>1
<1>3. /\ Meaning(f).gates = [g \in 1 .. n |-> G(g)]
      /\ Meaning(f).outputs = [k \in DOMAIN OutputNames(f) |-> PlaceOf(names, OutputNames(f)[k])]
  BY <1>2 DEF Meaning, names
<1>4. \A g \in 1 .. n : G(g) = LineGate(LastDefinition(f, names[g]), names)
  BY <1>2 DEF DefinedNames
<1>5. Len(Meaning(f).gates) = n /\ DOMAIN Meaning(f).gates = 1 .. n
  <2> DEFINE V == {G(g) : g \in 1 .. n}
  <2>1. Meaning(f).gates \in [1 .. n -> V]
    BY <1>3
  <2> HIDE DEF V, G
  <2>. QED
    BY <1>2, <2>1, FunctionIsSequence
<1>6. GateIds(Meaning(f)) = 1 .. n
  BY <1>5 DEF GateIds
<1> HIDE DEF G
<1>7. \A g \in 1 .. n : Meaning(f).gates[g] = LineGate(LastDefinition(f, names[g]), names)
  BY <1>3, <1>4
<1>. QED
  BY <1>1, <1>2, <1>3, <1>5, <1>6, <1>7 DEF names

(* For a legal file: the encoder has the names of the file, the vector all  *)
(* gates, and operands are in range.                                        *)
LEMMA LegalRead ==
    ASSUME Inv, lines = <<>>, DefinedNames(file) = NamesIn(file)
    PROVE  /\ encoder \in Seq(NamesIn(file)) /\ IsEncoder(encoder) /\ IsFiniteSet(NamesIn(file))
           /\ \A name \in NamesIn(file) :
                 /\ KeyExists(encoder, name)
                 /\ IdOf(encoder, name) \in DOMAIN encoder /\ encoder[IdOf(encoder, name)] = name
           /\ \A g \in DOMAIN encoder : encoder[g] \in NamesIn(file) /\ IdOf(encoder, encoder[g]) = g
           /\ Len(gate_info_vector) = Len(encoder)
           /\ gate_info_vector \in Seq(GateInfos(Len(gate_info_vector)))
           /\ DOMAIN gate_info_vector = DOMAIN encoder /\ DOMAIN encoder = 1 .. Len(encoder)
           /\ OperandsInRange
<1>1. encoder \in Seq(NamesIn(file)) /\ IsEncoder(encoder)
  BY DEF Inv, EncoderInv
<1>2. \A name \in NamesIn(file) : KeyExists(encoder, name)
  BY AllRead
<1>3. IsFiniteSet(NamesIn(file))
  BY <1>1, <1>2, RunThrough
<1>4. \A name \in NamesIn(file) :
         IdOf(encoder, name) \in DOMAIN encoder /\ encoder[IdOf(encoder, name)] = name
  BY <1>2, IdOfFacts
<1>5. \A g \in DOMAIN encoder : encoder[g] \in NamesIn(file)
  BY <1>1
<1>6. \A g \in DOMAIN encoder : IdOf(encoder, encoder[g]) = g
  BY <1>1, <1>4, <1>5 DEF IsEncoder
<1>7. \A g \in DOMAIN encoder : g \in DOMAIN gate_info_vector
  BY <1>5, GateOfName
<1>8. /\ Len(encoder) \in Nat /\ DOMAIN encoder = 1 .. Len(encoder)
      /\ Len(gate_info_vector) \in Nat /\ DOMAIN gate_info_vector = 1 .. Len(gate_info_vector)
      /\ Len(gate_info_vector) <= Len(encoder)
      /\ gate_info_vector \in Seq(GateInfos(Len(encoder)))
  BY <1>1 DEF Inv, GatesInv
<1>9. Len(gate_info_vector) = Len(encoder)
  <2> DEFINE n == Len(encoder)
             k == Len(gate_info_vector)
  <2>1. n \in Nat /\ k \in Nat /\ k <= n /\ \A g \in 1 .. n : g \in 1 .. k
    BY <1>7, <1>8
  <2> HIDE DEF n, k
  <2>2. n = k
    BY <2>1
  <2>. QED
    BY <2>2 DEF n, k
<1>10. OperandsInRange
  <2> DEFINE n == Len(encoder)
  <2>1. \A g \in DOMAIN gate_info_vector : gate_info_vector[g] \in GateInfos(n)
    BY <1>8
  <2>2. \A g \in DOMAIN gate_info_vector : gate_info_vector[g].operands \in Seq(1 .. n)
    BY <2>1 DEF GateInfos
  <2>3. DOMAIN gate_info_vector = 1 .. n
    BY <1>8, <1>9
  <2>4. \A g \in DOMAIN gate_info_vector : \A i \in DOMAIN gate_info_vector[g].operands :
           gate_info_vector[g].operands[i] \in 1 .. n
    <3> SUFFICES ASSUME NEW g \in DOMAIN gate_info_vector,
                        NEW i \in DOMAIN gate_info_vector[g].operands
                 PROVE  gate_info_vector[g].operands[i] \in 1 .. n
      OBVIOUS
    <3> DEFINE ops == gate_info_vector[g].operands
               Ids == 1 .. n
    <3>1. ops \in Seq(Ids) /\ i \in DOMAIN ops
      BY <2>2
    <3> HIDE DEF ops, Ids
    <3>2. ops[i] \in Ids
      BY <3>1
    <3>. QED
      BY <3>2 DEF ops, Ids
  <2>. QED
    BY <2>3, <2>4 DEF OperandsInRange
<1>. QED
  BY <1>1, <1>2, <1>3, <1>4, <1>5, <1>6, <1>8, <1>9, <1>10

(* A gate of the vector is a copy of the gate that the same line means.     *)
LEMMA SameLine ==
    ASSUME Inv, lines = <<>>, DefinedNames(file) = NamesIn(file),
           NEW names, IsEncoder(names), DOMAIN names \subseteq Nat,
           \A x \in NamesIn(file) : KeyExists(names, x),
           NEW m, \A j \in DOMAIN names : m[j] = IdOf(encoder, names[j]),
           NEW i \in DOMAIN file, IsDefinition(file[i]), NEW n \in Nat, n = Len(OperandNames(file[i]))
    PROVE  /\ LineGate(file[i], names).type = LineType(file[i])
           /\ GateRead(encoder, file[i]).type = LineType(file[i])
           /\ DOMAIN LineGate(file[i], names).operands = 1 .. n
           /\ IsReordering(GateRead(encoder, file[i]).operands,
                           [k \in 1 .. n |-> m[LineGate(file[i], names).operands[k]]],
                           n, LineType(file[i]))
<1> DEFINE entry == file[i]
           ops == OperandNames(entry)
           a == [k \in DOMAIN ops |-> PlaceOf(names, ops[k])]
           b == [k \in DOMAIN ops |-> IdOf(encoder, ops[k])]
           t == LineType(entry)
<1>1. IsFile(file) /\ ops \in Seq(NamesOf(entry)) /\ NamesOf(entry) \subseteq NamesIn(file)
  <2>1. IsFile(file) /\ entry.kind \in {"INPUT", "OUTPUT", "gate"}
    BY AllRead DEF IsDefinition
  <2>. QED
    BY <2>1, LineNames
<1>2. LineGate(entry, names) = GateInfo(t, a) /\ GateRead(encoder, entry) = GateInfo(t, b)
  BY DEF LineGate, GateRead
<1>3. DOMAIN ops = 1 .. n /\ \A k \in 1 .. n : ops[k] \in NamesIn(file)
  BY <1>1
<1> HIDE DEF ops, t, entry
<1>4. \A k \in 1 .. n : /\ PlaceOf(names, ops[k]) \in DOMAIN names
                        /\ names[PlaceOf(names, ops[k])] = ops[k]
  BY <1>3, PlaceFacts
<1>5. \A k \in 1 .. n : IdOf(encoder, ops[k]) \in DOMAIN encoder
  BY <1>3, LegalRead
<1>6. DOMAIN encoder \subseteq Nat
  BY LegalRead
<1>7. a \in [1 .. n -> Nat] /\ b \in [1 .. n -> Nat]
  BY <1>3, <1>4, <1>5, <1>6
<1>8. \A k \in 1 .. n : b[k] = m[a[k]]
  BY <1>3, <1>4
<1> HIDE DEF a, b
<1>9. /\ GateInfo(t, a).type = t /\ IsReordering(GateInfo(t, a).operands, a, n, t)
      /\ GateInfo(t, b).type = t /\ IsReordering(GateInfo(t, b).operands, b, n, t)
  BY <1>7, InfoFacts
<1> DEFINE x == GateInfo(t, a).operands
           y == GateInfo(t, b).operands
<1>10. IsReordering(x, a, n, t) /\ IsReordering(y, b, n, t)
  BY <1>9
<1> HIDE DEF x, y
<1>11. IsReordering(y, [k \in 1 .. n |-> m[x[k]]], n, t)
  BY <1>8, <1>10, ReorderReplaced, SMTT(60)
<1>12. DOMAIN x = 1 .. n
  BY <1>10, ReorderedSet
<1>. QED
  BY <1>2, <1>9, <1>11, <1>12 DEF x, y, t, entry

(* What is read of a legal file is a copy of what the file means.           *)
LEMMA LegalIsRead ==
    ASSUME Inv, pc = "done", IsLegal(file)
    PROVE  /\ WellFormed(circuit) /\ NamesGates(circuit, encoder)
           /\ InputNames(circuit, encoder) = InputNames(Meaning(file), MeaningNames(file))
           /\ SameFunction(Meaning(file), MeaningNames(file), circuit, encoder)
<1> DEFINE M == Meaning(file)
           names == MeaningNames(file)
           T == GateIds(M)
           m == [j \in DOMAIN names |-> IdOf(encoder, names[j])]
           S == NamesIn(file)
<1>0. /\ lines = <<>> /\ circuit.gates = gate_info_vector /\ circuit.outputs = output_gate_ids
      /\ DefinedNames(file) = S /\ WellFormed(M)
  BY DEF Inv, ResultInv, IsLegal
<1>1. /\ encoder \in Seq(S) /\ IsEncoder(encoder) /\ IsFiniteSet(S)
      /\ \A name \in S : /\ KeyExists(encoder, name)
                         /\ IdOf(encoder, name) \in DOMAIN encoder /\ encoder[IdOf(encoder, name)] = name
      /\ \A g \in DOMAIN encoder : encoder[g] \in S /\ IdOf(encoder, encoder[g]) = g
      /\ Len(gate_info_vector) = Len(encoder)
      /\ gate_info_vector \in Seq(GateInfos(Len(gate_info_vector)))
      /\ DOMAIN gate_info_vector = DOMAIN encoder /\ DOMAIN encoder = 1 .. Len(encoder)
  BY <1>0, LegalRead
<1>2. /\ names \in Seq(S) /\ IsEncoder(names) /\ \A x \in S : KeyExists(names, x)
      /\ DOMAIN names = 1 .. Len(names) /\ Len(names) \in Nat
      /\ T = DOMAIN names
      /\ \A g \in DOMAIN names : M.gates[g] = LineGate(LastDefinition(file, names[g]), names)
      /\ M.outputs = [k \in DOMAIN OutputNames(file) |-> PlaceOf(names, OutputNames(file)[k])]
  BY <1>0, <1>1, MeaningFacts
<1>3. GateIds(circuit) = DOMAIN encoder
  BY <1>0, <1>1 DEF GateIds
<1> HIDE DEF M, names, T, S
<1>4. \A g \in T : /\ names[g] \in S /\ m[g] = IdOf(encoder, names[g])
                   /\ m[g] \in GateIds(circuit) /\ encoder[m[g]] = names[g]
  BY <1>1, <1>2, <1>3
<1>5. \A g, h \in T : m[g] = m[h] => g = h
  BY <1>2, <1>4 DEF IsEncoder
<1>6. \A k \in GateIds(circuit) : \E g \in T : m[g] = k
  <2> SUFFICES ASSUME NEW k \in DOMAIN encoder PROVE \E g \in T : m[g] = k
    BY <1>3
  <2>1. encoder[k] \in S /\ IdOf(encoder, encoder[k]) = k
    BY <1>1
  <2>2. PICK g \in DOMAIN names : names[g] = encoder[k]
    BY <1>2, <2>1 DEF KeyExists
  <2>. QED
    BY <1>2, <2>1, <2>2
<1>7. \A g \in T : Operands(M, g) \in Seq(T) /\ Type(M, g) \in GateTypes
  BY <1>0, WellFormedFacts DEF T
<1>8. IsCopy(M, T, circuit, m)
  <2>1. T \subseteq GateIds(M) /\ IsClosed(M, T)
    BY <1>7 DEF T, IsClosed, OperandSet
  <2>2. ASSUME NEW g \in T
        PROVE  /\ Type(circuit, m[g]) = Type(M, g)
               /\ IsReordering(Operands(circuit, m[g]),
                               [i \in 1 .. Len(Operands(M, g)) |-> m[Operands(M, g)[i]]],
                               Len(Operands(M, g)), Type(M, g))
    <3> DEFINE entry == LastDefinition(file, names[g])
               n == Len(OperandNames(entry))
    <3>1. m[g] \in DOMAIN encoder /\ encoder[m[g]] = names[g] /\ names[g] \in DefinedNames(file)
      BY <1>0, <1>3, <1>4
    <3> HIDE DEF m
    <3>2. /\ gate_info_vector[m[g]] = GateRead(encoder, entry)
          /\ IsDefinition(entry)
          /\ \E i \in DOMAIN file : entry = file[i]
      BY <1>0, <3>1, GateOfName
    <3>3. PICK i \in DOMAIN file : entry = file[i]
      BY <3>2
    <3>4. n \in Nat
      <4>1. IsFile(file) /\ entry.kind \in {"INPUT", "OUTPUT", "gate"}
        BY <1>0, <3>2, AllRead DEF IsDefinition
      <4>2. OperandNames(file[i]) \in Seq(NamesOf(file[i]))
        BY <3>3, <4>1, LineNames
      <4>. QED
        BY <3>3, <4>2
    <3>5. /\ M.gates[g] = LineGate(entry, names) /\ circuit.gates[m[g]] = GateRead(encoder, entry)
      BY <1>0, <1>2, <3>2
    <3>6. \A j \in DOMAIN names : m[j] = IdOf(encoder, names[j])
      BY DEF m
    <3>7. n = Len(OperandNames(file[i])) /\ IsDefinition(file[i])
      BY <3>2, <3>3
    <3>8. DOMAIN names \subseteq Nat
      BY <1>2
    <3>9. /\ lines = <<>> /\ DefinedNames(file) = NamesIn(file) /\ IsEncoder(names)
          /\ \A x \in NamesIn(file) : KeyExists(names, x)
      BY <1>0, <1>2 DEF S
    <3> HIDE DEF n
    <3>10. /\ LineGate(file[i], names).type = LineType(file[i])
           /\ GateRead(encoder, file[i]).type = LineType(file[i])
           /\ DOMAIN LineGate(file[i], names).operands = 1 .. n
           /\ IsReordering(GateRead(encoder, file[i]).operands,
                           [k \in 1 .. n |-> m[LineGate(file[i], names).operands[k]]],
                           n, LineType(file[i]))
      BY <3>4, <3>6, <3>7, <3>8, <3>9, SameLine
    <3>11. /\ Type(M, g) = LineType(file[i]) /\ Type(circuit, m[g]) = LineType(file[i])
           /\ Operands(M, g) = LineGate(file[i], names).operands
           /\ Operands(circuit, m[g]) = GateRead(encoder, file[i]).operands
      BY <3>3, <3>5, <3>10 DEF Type, Operands
    <3>12. Len(Operands(M, g)) = n
      <4>1. Operands(M, g) \in Seq(T) /\ DOMAIN Operands(M, g) = 1 .. n
        BY <1>7, <3>10, <3>11
      <4>. QED
        BY <3>4, <4>1
    <3>. QED
      BY <3>10, <3>11, <3>12
  <2> HIDE DEF m
  <2>. QED
    BY <1>4, <1>7, <2>1, <2>2 DEF IsCopy, T
<1>9. IsFile(file) /\ Read = Len(file)
  BY <1>0, AllRead
<1>10. /\ OutputNames(file) \in Seq(S)
       /\ circuit.outputs = [k \in DOMAIN OutputNames(file) |-> IdOf(encoder, OutputNames(file)[k])]
  BY <1>0, <1>9 DEF Inv, OutputsInv, OutputNames, S
<1>11. \A k \in DOMAIN OutputNames(file) : OutputNames(file)[k] \in S
  BY <1>10
<1>12. circuit.outputs = [k \in DOMAIN M.outputs |-> m[M.outputs[k]]]
  <2>1. \A k \in DOMAIN OutputNames(file) : m[PlaceOf(names, OutputNames(file)[k])] = IdOf(encoder, OutputNames(file)[k])
    <3> SUFFICES ASSUME NEW x \in S PROVE m[PlaceOf(names, x)] = IdOf(encoder, x)
      BY <1>11
    <3>1. PlaceOf(names, x) \in DOMAIN names /\ names[PlaceOf(names, x)] = x
      BY <1>2, PlaceFacts
    <3>. QED
      BY <3>1
  <2> HIDE DEF m
  <2>. QED
    BY <1>2, <1>10, <2>1
<1>13. IdsInRange(circuit)
  <2> DEFINE n == Len(circuit.gates)
             D == DOMAIN OutputNames(file)
             ids == [k \in D |-> IdOf(encoder, OutputNames(file)[k])]
  <2>1. circuit.gates \in Seq(GateInfos(n))
    BY <1>0, <1>1
  <2>2. \A k \in D : IdOf(encoder, OutputNames(file)[k]) \in GateIds(circuit)
    BY <1>1, <1>3, <1>11
  <2>3. Len(OutputNames(file)) \in Nat /\ D = 1 .. Len(OutputNames(file))
    BY <1>10
  <2> HIDE DEF D
  <2>4. ids \in [1 .. Len(OutputNames(file)) -> GateIds(circuit)]
    BY <2>2, <2>3
  <2> HIDE DEF ids
  <2>5. ids \in Seq(GateIds(circuit))
    BY <2>3, <2>4, FunctionIsSequence
  <2>. QED
    BY <1>10, <2>1, <2>5 DEF IdsInRange, ids, D
<1>14. OutputSet(M) \subseteq T
  BY <1>0, WellFormedFacts DEF T
<1>15. \A g \in T : Type(M, g) = "INPUT" => encoder[m[g]] = names[g]
  BY <1>4
<1> HIDE DEF m
<1>16. /\ WellFormed(circuit) /\ SameFunction(M, names, circuit, encoder)
       /\ InputNames(circuit, encoder) = {names[g] : g \in T \cap InputGates(M)}
  BY <1>0, <1>5, <1>6, <1>8, <1>12, <1>13, <1>14, <1>15, FullCopyIsCorrect
<1>17. InputNames(circuit, encoder) = InputNames(M, names)
  BY <1>16 DEF InputNames, InputGates, T
<1>18. NamesGates(circuit, encoder)
  BY <1>0, <1>1, <1>3 DEF NamesGates, IsEncoder
<1>. QED
  BY <1>16, <1>17, <1>18 DEF M, names

(* A legal file is not refused.                                             *)
LEMMA LegalIsAccepted ==
    ASSUME Inv, IsLegal(file) PROVE pc # "aborted"
<1> SUFFICES ASSUME pc = "aborted" PROVE FALSE
  OBVIOUS
<1>1. CASE lines = <<>>
  <2>1. ~OperandsInRange
    BY <1>1 DEF Inv, ResultInv
  <2>. QED
    BY <1>1, <2>1, LegalRead DEF IsLegal
<1>2. CASE lines # <<>>
  <2>1. ~IsReadable(Head(lines))
    BY <1>2 DEF Inv, ResultInv
  <2>2. Head(lines) \in LinesOf(file)
    BY <1>2 DEF Inv, LinesInv
  <2>. QED
    BY <2>1, <2>2 DEF IsLegal
<1>. QED
  BY <1>1, <1>2

(* Every legal file is read, as the circuit that it means.                  *)
THEOREM LegalFilesAreRead == Spec => []ReadsMeaning
<1>1. Inv => ReadsMeaning
  BY LegalIsRead, LegalIsAccepted DEF ReadsMeaning
<1>. QED
  BY <1>1, InvAlways, PTL

------------------------------------------------------------------------------
(* What is written for a circuit has a line for each gate ...               *)
LEMMA AscendingFacts ==
    ASSUME NEW n \in Nat, NEW S \in SUBSET (1 .. n)
    PROVE  Ascending(n, S) \in Seq(S) /\ \A g \in S : KeyExists(Ascending(n, S), g)
<1> DEFINE s == [g \in 1 .. n |-> g]
           gates == CHOOSE gates : gates = [g \in 0 .. n |->
                       IF g = 0 THEN <<>>
                       ELSE IF g \in S THEN Append(gates[g - 1], g) ELSE gates[g - 1]]
<1>1. PICK f : IsKeptLoop(f, s, n, S)
  <2> HIDE DEF s
  <2>. QED
    BY KeptLoopExists
<1>2. ASSUME NEW t
      PROVE  IsKeptLoop(t, s, n, S) <=>
                t = [g \in 0 .. n |->
                       IF g = 0 THEN <<>> ELSE IF g \in S THEN Append(t[g - 1], g) ELSE t[g - 1]]
  <2>1. \A g \in 0 .. n : g # 0 => s[g] = g
    OBVIOUS
  <2> HIDE DEF s
  <2>. QED
    BY <2>1 DEF IsKeptLoop
<1>3. gates = [g \in 0 .. n |->
                 IF g = 0 THEN <<>> ELSE IF g \in S THEN Append(gates[g - 1], g) ELSE gates[g - 1]]
  BY <1>1, <1>2
<1>4. Ascending(n, S) = gates[n]
  BY DEF Ascending
<1> HIDE DEF gates
<1>5. IsKeptLoop(gates, s, n, S)
  BY <1>2, <1>3
<1>6. \A k \in 1 .. n : s[k] = k
  OBVIOUS
<1> HIDE DEF s
<1>7. gates[n] \in Seq(S) /\ HoldsKept(gates[n], s, n, S)
  BY <1>5, <1>6, KeptLoopResult
<1>. QED
  BY <1>4, <1>6, <1>7 DEF HoldsKept, KeyExists

(* The three parts of the file.                                             *)
InputLines(c, names) ==
    [i \in DOMAIN Ascending(Len(c.gates), InputGates(c)) |->
        InputLine(names[Ascending(Len(c.gates), InputGates(c))[i]])]

OutputLines(c, names) == [k \in DOMAIN c.outputs |-> OutputLine(names[c.outputs[k]])]

OperatorLines(c, names) ==
    [i \in DOMAIN Ascending(Len(c.gates), GateIds(c) \ InputGates(c)) |->
        OperatorLine(c, names, Ascending(Len(c.gates), GateIds(c) \ InputGates(c))[i])]

(* The line of a gate.                                                      *)
LineOf(c, names, g) ==
    IF g \in InputGates(c) THEN InputLine(names[g]) ELSE OperatorLine(c, names, g)

(* Where the elements of two sequences are in the sequence they make.       *)
LEMMA TwoParts ==
    ASSUME NEW V, NEW r \in Seq(V), NEW t \in Seq(V)
    PROVE  LET all == r \o t
           IN  /\ all \in Seq(V) /\ Len(all) = Len(r) + Len(t)
               /\ Len(r) \in Nat /\ Len(t) \in Nat /\ DOMAIN all = 1 .. Len(r) + Len(t)
               /\ \A i \in 1 .. Len(r) : all[i] = r[i]
               /\ \A i \in 1 .. Len(t) : all[Len(r) + i] = t[i]
OBVIOUS

(* The same of three.                                                       *)
LEMMA ThreeParts ==
    ASSUME NEW V, NEW r \in Seq(V), NEW s \in Seq(V), NEW t \in Seq(V)
    PROVE  LET all == r \o s \o t
           IN  /\ all \in Seq(V) /\ Len(all) = Len(r) + Len(s) + Len(t)
               /\ DOMAIN all = 1 .. Len(r) + Len(s) + Len(t)
               /\ \A i \in 1 .. Len(r) : all[i] = r[i]
               /\ \A i \in 1 .. Len(s) : all[Len(r) + i] = s[i]
               /\ \A i \in 1 .. Len(t) : all[Len(r) + Len(s) + i] = t[i]
<1> DEFINE rs == r \o s
           all == rs \o t
<1>1. /\ Len(r) \in Nat /\ Len(s) \in Nat /\ Len(t) \in Nat
      /\ rs \in Seq(V) /\ Len(rs) = Len(r) + Len(s)
      /\ \A i \in 1 .. Len(r) : rs[i] = r[i]
      /\ \A i \in 1 .. Len(s) : rs[Len(r) + i] = s[i]
  BY TwoParts
<1> HIDE DEF rs
<1>2. /\ all \in Seq(V) /\ Len(all) = Len(rs) + Len(t) /\ DOMAIN all = 1 .. Len(rs) + Len(t)
      /\ \A i \in 1 .. Len(rs) : all[i] = rs[i]
      /\ \A i \in 1 .. Len(t) : all[Len(rs) + i] = t[i]
  <2>1. rs \in Seq(V) /\ t \in Seq(V)
    BY <1>1
  <2>. QED
    BY <2>1, TwoParts
<1> HIDE DEF all
<1>3. /\ \A i \in 1 .. Len(r) : i \in 1 .. Len(rs)
      /\ \A i \in 1 .. Len(s) : Len(r) + i \in 1 .. Len(rs)
  BY <1>1
<1>. QED
  BY <1>1, <1>2, <1>3 DEF all, rs

(* ... and nothing else but the outputs, in order.                          *)
LEMMA WrittenLines ==
    ASSUME NEW c, WellFormed(c), NEW names
    PROVE  LET w == writeBenchFile(c, names)
           IN  /\ w \in Seq(LinesOf(w))
               /\ \A g \in GateIds(c) : \E i \in DOMAIN w : w[i] = LineOf(c, names, g)
               /\ \A i \in DOMAIN w : \/ \E g \in GateIds(c) : w[i] = LineOf(c, names, g)
                                      \/ \E k \in DOMAIN c.outputs : w[i] = OutputLine(names[c.outputs[k]])
               /\ OutputNames(w) = [k \in DOMAIN c.outputs |-> names[c.outputs[k]]]
<1> DEFINE w == writeBenchFile(c, names)
           n == Len(c.gates)
           inputs == Ascending(n, InputGates(c))
           operators == Ascending(n, GateIds(c) \ InputGates(c))
           r == InputLines(c, names)
           s == OutputLines(c, names)
           t == OperatorLines(c, names)
           V == {InputLine(names[g]) : g \in GateIds(c)} \cup {OperatorLine(c, names, g) : g \in GateIds(c)}
                \cup {OutputLine(names[g]) : g \in GateIds(c)}
<1>1. w = r \o s \o t
  BY DEF writeBenchFile, InputLines, OutputLines, OperatorLines
<1>2. n \in Nat /\ GateIds(c) = 1 .. n /\ c.outputs \in Seq(GateIds(c))
  BY DEF WellFormed, IdsInRange, GateIds
<1>3. /\ inputs \in Seq(InputGates(c)) /\ \A g \in InputGates(c) : KeyExists(inputs, g)
      /\ InputGates(c) \subseteq GateIds(c)
  <2>1. InputGates(c) \in SUBSET (1 .. n) /\ InputGates(c) \subseteq GateIds(c)
    BY <1>2 DEF InputGates
  <2> HIDE DEF n
  <2>. QED
    BY <1>2, <2>1, AscendingFacts
<1>4. /\ operators \in Seq(GateIds(c) \ InputGates(c))
      /\ \A g \in GateIds(c) \ InputGates(c) : KeyExists(operators, g)
  <2>1. GateIds(c) \ InputGates(c) \in SUBSET (1 .. n)
    BY <1>2
  <2> HIDE DEF n
  <2>. QED
    BY <1>2, <2>1, AscendingFacts
<1>5. /\ r = [i \in DOMAIN inputs |-> InputLine(names[inputs[i]])]
      /\ s = [k \in DOMAIN c.outputs |-> OutputLine(names[c.outputs[k]])]
      /\ t = [i \in DOMAIN operators |-> OperatorLine(c, names, operators[i])]
  BY DEF InputLines, OutputLines, OperatorLines
<1> DEFINE x == Len(inputs)
           y == Len(c.outputs)
           z == Len(operators)
<1>6. /\ x \in Nat /\ y \in Nat /\ z \in Nat
      /\ DOMAIN inputs = 1 .. x /\ DOMAIN c.outputs = 1 .. y /\ DOMAIN operators = 1 .. z
      /\ \A i \in 1 .. x : inputs[i] \in InputGates(c)
      /\ \A i \in 1 .. y : c.outputs[i] \in GateIds(c)
      /\ \A i \in 1 .. z : operators[i] \in GateIds(c) \ InputGates(c)
  <2> HIDE DEF inputs, operators, n, r, s, t, w, V
  <2>1. /\ x \in Nat /\ DOMAIN inputs = 1 .. x
        /\ \A i \in 1 .. x : inputs[i] \in InputGates(c)
    BY <1>3
  <2>2. y \in Nat /\ DOMAIN c.outputs = 1 .. y /\ \A i \in 1 .. y : c.outputs[i] \in GateIds(c)
    BY <1>2
  <2>3. /\ z \in Nat /\ DOMAIN operators = 1 .. z
        /\ \A i \in 1 .. z : operators[i] \in GateIds(c) \ InputGates(c)
    BY <1>4
  <2>. QED
    BY <2>1, <2>2, <2>3
<1> HIDE DEF inputs, operators, n, r, s, t, w
<1>7. /\ \A i \in 1 .. x : InputLine(names[inputs[i]]) \in V
      /\ \A i \in 1 .. y : OutputLine(names[c.outputs[i]]) \in V
      /\ \A i \in 1 .. z : OperatorLine(c, names, operators[i]) \in V
  BY <1>3, <1>6
<1> HIDE DEF V, x, y, z
<1>8. r \in [1 .. x -> V] /\ s \in [1 .. y -> V] /\ t \in [1 .. z -> V]
  BY <1>5, <1>6, <1>7
<1>9. /\ r \in Seq(V) /\ Len(r) = x /\ s \in Seq(V) /\ Len(s) = y /\ t \in Seq(V) /\ Len(t) = z
  BY <1>6, <1>8, FunctionIsSequence
<1>10. /\ w \in Seq(V) /\ Len(w) = x + y + z /\ DOMAIN w = 1 .. x + y + z
       /\ \A i \in 1 .. x : w[i] = r[i]
       /\ \A i \in 1 .. y : w[x + i] = s[i]
       /\ \A i \in 1 .. z : w[x + y + i] = t[i]
  <2>1. r \in Seq(V) /\ s \in Seq(V) /\ t \in Seq(V)
    BY <1>9
  <2>2. /\ w \in Seq(V) /\ Len(w) = Len(r) + Len(s) + Len(t)
        /\ DOMAIN w = 1 .. Len(r) + Len(s) + Len(t)
        /\ \A i \in 1 .. Len(r) : w[i] = r[i]
        /\ \A i \in 1 .. Len(s) : w[Len(r) + i] = s[i]
        /\ \A i \in 1 .. Len(t) : w[Len(r) + Len(s) + i] = t[i]
    BY <1>1, <2>1, ThreeParts
  <2>. QED
    BY <1>9, <2>2
<1>11. /\ \A i \in 1 .. x : w[i] = InputLine(names[inputs[i]]) /\ i \in DOMAIN w
       /\ \A i \in 1 .. y : w[x + i] = OutputLine(names[c.outputs[i]]) /\ x + i \in DOMAIN w
       /\ \A i \in 1 .. z : w[x + y + i] = OperatorLine(c, names, operators[i]) /\ x + y + i \in DOMAIN w
  BY <1>5, <1>6, <1>10
<1>12. \A i \in DOMAIN w : \/ i \in 1 .. x
                           \/ \E k \in 1 .. y : i = x + k
                           \/ \E k \in 1 .. z : i = x + y + k
  <2> SUFFICES ASSUME NEW i \in 1 .. x + y + z
               PROVE  i \in 1 .. x \/ (\E k \in 1 .. y : i = x + k) \/ \E k \in 1 .. z : i = x + y + k
    BY <1>10
  <2>1. CASE i <= x
    BY <1>6, <2>1
  <2>2. CASE i > x /\ i <= x + y
    <3>1. i - x \in 1 .. y /\ i = x + (i - x)
      BY <1>6, <2>2
    <3>. QED
      BY <3>1
  <2>3. CASE i > x + y
    <3>1. i - (x + y) \in 1 .. z /\ i = x + y + (i - (x + y))
      BY <1>6, <2>3
    <3>. QED
      BY <3>1
  <2>. QED
    BY <1>6, <2>1, <2>2, <2>3
<1>13. w \in Seq(LinesOf(w))
  <2>1. \A i \in DOMAIN w : w[i] \in LinesOf(w)
    BY DEF LinesOf
  <2> DEFINE m == Len(w)
             L == LinesOf(w)
  <2>2. m \in Nat /\ w \in [1 .. m -> V] /\ DOMAIN w = 1 .. m
    BY <1>10
  <2> HIDE DEF L, m
  <2>3. w \in [1 .. m -> L]
    BY <2>1, <2>2 DEF L
  <2>. QED
    BY <2>2, <2>3, FunctionIsSequence DEF L
<1>14. ASSUME NEW g \in GateIds(c) PROVE \E i \in DOMAIN w : w[i] = LineOf(c, names, g)
  <2>1. CASE g \in InputGates(c)
    <3>1. PICK i \in 1 .. x : inputs[i] = g
      BY <1>3, <1>6, <2>1 DEF KeyExists
    <3>. QED
      BY <1>11, <2>1, <3>1 DEF LineOf
  <2>2. CASE g \notin InputGates(c)
    <3>1. PICK i \in 1 .. z : operators[i] = g
      BY <1>4, <1>6, <2>2 DEF KeyExists
    <3>2. w[x + y + i] = OperatorLine(c, names, g) /\ x + y + i \in DOMAIN w
      BY <1>11, <3>1
    <3>. QED
      BY <2>2, <3>2 DEF LineOf
  <2>. QED
    BY <2>1, <2>2
<1>15. ASSUME NEW i \in DOMAIN w
       PROVE  \/ \E g \in GateIds(c) : w[i] = LineOf(c, names, g)
              \/ \E k \in DOMAIN c.outputs : w[i] = OutputLine(names[c.outputs[k]])
  <2>1. CASE i \in 1 .. x
    <3>1. w[i] = LineOf(c, names, inputs[i]) /\ inputs[i] \in GateIds(c)
      BY <1>3, <1>6, <1>11, <2>1 DEF LineOf
    <3>. QED
      BY <3>1
  <2>2. CASE \E k \in 1 .. y : i = x + k
    BY <1>6, <1>11, <2>2
  <2>3. CASE \E k \in 1 .. z : i = x + y + k
    <3>1. PICK k \in 1 .. z : i = x + y + k
      BY <2>3
    <3>2. w[i] = LineOf(c, names, operators[k]) /\ operators[k] \in GateIds(c)
      BY <1>6, <1>11, <3>1 DEF LineOf
    <3>. QED
      BY <3>2
  <2>. QED
    BY <1>12, <2>1, <2>2, <2>3
<1> DEFINE out(k) == names[c.outputs[k]]
           Clip(k) == IF k <= x THEN 0 ELSE IF k <= x + y THEN k - x ELSE y
           Collected == {k \in Nat : k <= x + y + z => OutputsIn(w)[k] = [i \in 1 .. Clip(k) |-> out(i)]}
<1>16. /\ \A i \in 1 .. x : w[i].kind # "OUTPUT"
       /\ \A i \in 1 .. y : w[x + i].kind = "OUTPUT" /\ w[x + i].name = out(i)
       /\ \A i \in 1 .. z : w[x + y + i].kind # "OUTPUT"
  <2> HIDE DEF Clip, Collected
  <2>1. \A name : /\ InputLine(name).kind # "OUTPUT"
                  /\ OutputLine(name).kind = "OUTPUT" /\ OutputLine(name).name = name
    BY DEF InputLine, OutputLine
  <2>2. \A g : OperatorLine(c, names, g).kind # "OUTPUT"
    BY DEF OperatorLine, GateLine
  <2>. QED
    BY <1>11, <2>1, <2>2
<1>17. 0 \in Collected
  <2>1. OutputsIn(w)[0] = <<>>
    BY <1>6, <1>10, OutputsInFacts
  <2>2. Clip(0) = 0
    BY <1>6
  <2>3. [i \in 1 .. 0 |-> out(i)] = <<>>
    OBVIOUS
  <2> HIDE DEF out, Clip
  <2>. QED
    BY <2>1, <2>2, <2>3
<1>18. ASSUME NEW k \in Nat, k \in Collected PROVE k + 1 \in Collected
  <2> SUFFICES ASSUME k + 1 <= x + y + z
               PROVE  OutputsIn(w)[k + 1] = [i \in 1 .. Clip(k + 1) |-> out(i)]
    OBVIOUS
  <2>1. OutputsIn(w)[k] = [i \in 1 .. Clip(k) |-> out(i)] /\ k + 1 \in 1 .. x + y + z
    BY <1>6, <1>18
  <2>2. OutputsIn(w)[k + 1] = IF w[k + 1].kind = "OUTPUT" THEN Append(OutputsIn(w)[k], w[k + 1].name)
                                                          ELSE OutputsIn(w)[k]
    <3>1. Len(w) \in Nat /\ k + 1 \in 1 .. Len(w) /\ (k + 1) - 1 = k
      BY <1>6, <1>10, <2>1
    <3>2. OutputsIn(w)[k + 1] =
             IF w[k + 1].kind = "OUTPUT" THEN Append(OutputsIn(w)[(k + 1) - 1], w[k + 1].name)
                                         ELSE OutputsIn(w)[(k + 1) - 1]
      BY <3>1, OutputsInFacts
    <3>. QED
      BY <3>1, <3>2
  <2>3. CASE k + 1 <= x
    <3>1. Clip(k + 1) = Clip(k) /\ k + 1 \in 1 .. x
      BY <1>6, <2>3
    <3> HIDE DEF Clip, out
    <3>. QED
      BY <1>16, <2>1, <2>2, <3>1
  <2>4. CASE k + 1 > x + y
    <3>1. Clip(k + 1) = Clip(k)
      BY <1>6, <2>4
    <3>2. k + 1 - (x + y) \in 1 .. z /\ x + y + (k + 1 - (x + y)) = k + 1
      BY <1>6, <2>1, <2>4
    <3>3. w[k + 1].kind # "OUTPUT"
      BY <1>16, <3>2
    <3> HIDE DEF Clip, out
    <3>. QED
      BY <2>1, <2>2, <3>1, <3>3
  <2>5. CASE k + 1 > x /\ k + 1 <= x + y
    <3> DEFINE m == k - x
    <3>1. m \in Nat /\ m + 1 \in 1 .. y /\ x + (m + 1) = k + 1 /\ Clip(k) = m /\ Clip(k + 1) = m + 1
      BY <1>6, <2>5
    <3> HIDE DEF Clip, m
    <3>2. w[k + 1].kind = "OUTPUT" /\ w[k + 1].name = out(m + 1)
      BY <1>16, <3>1
    <3>3. OutputsIn(w)[k + 1] = Append([i \in 1 .. m |-> out(i)], out(m + 1))
      BY <2>1, <2>2, <3>1, <3>2
    <3> DEFINE f == [i \in 1 .. m |-> out(i)]
               W == {out(i) : i \in 1 .. m}
    <3>4. f \in [1 .. m -> W]
      OBVIOUS
    <3>5. f \in Seq(W) /\ Len(f) = m
      <4> HIDE DEF f, W
      <4>. QED
        BY <3>1, <3>4, FunctionIsSequence
    <3>6. \A i \in 1 .. m : f[i] = out(i)
      OBVIOUS
    <3> HIDE DEF f, W, out
    <3>7. Append(f, out(m + 1)) = [i \in 1 .. m + 1 |-> IF i = m + 1 THEN out(m + 1) ELSE f[i]]
      BY <3>5, AppendFacts
    <3>8. \A i \in 1 .. m + 1 : (IF i = m + 1 THEN out(m + 1) ELSE f[i]) = out(i)
      BY <3>1, <3>6
    <3>9. Append(f, out(m + 1)) = [i \in 1 .. m + 1 |-> out(i)]
      BY <3>7, <3>8
    <3>. QED
      BY <3>1, <3>3, <3>9 DEF f
  <2>. QED
    BY <1>6, <2>3, <2>4, <2>5
<1>19. OutputNames(w) = [k \in DOMAIN c.outputs |-> names[c.outputs[k]]]
  <2>1. Nat \subseteq Collected
    <3> HIDE DEF Collected
    <3>. QED
      BY <1>17, <1>18, NatSetInduction
  <2>2. x + y + z \in Nat /\ Clip(x + y + z) = y
    BY <1>6
  <2>3. OutputsIn(w)[x + y + z] = [i \in 1 .. Clip(x + y + z) |-> out(i)]
    <3> HIDE DEF Clip, out
    <3>. QED
      BY <2>1, <2>2
  <2>4. OutputsIn(w)[x + y + z] = [i \in 1 .. y |-> out(i)]
    <3> HIDE DEF Clip, out
    <3>. QED
      BY <2>2, <2>3
  <2>. QED
    BY <1>6, <1>10, <2>4 DEF OutputNames
<1>. QED
  BY <1>13, <1>14, <1>15, <1>19 DEF w

(* Gates that the writer puts into a form that is read as the same gate.    *)
IsWritable(c, g) ==
    \/ Type(c, g) = "INPUT"
    \/ Type(c, g) \in OperatorTypes \ {"CONST_TRUE", "CONST_FALSE"} /\ Operands(c, g) # <<>>

(* The line of such a gate defines it.                                      *)
LEMMA LineOfFacts ==
    ASSUME NEW c, WellFormed(c), NEW names, NEW g \in GateIds(c), IsWritable(c, g)
    PROVE  LET ln == LineOf(c, names, g)
           IN  /\ IsDefinition(ln) /\ ln.name = names[g] /\ IsReadable(ln)
               /\ ln.kind = "gate" => ln.operands # <<>> /\ ln.operands \in Seq({ln.operands[i] : i \in DOMAIN ln.operands})
               /\ LineType(ln) = Type(c, g)
               /\ OperandNames(ln) = OperandsWritten(c, names, g)
<1> DEFINE ops == Operands(c, g)
           written == OperandsWritten(c, names, g)
<1>1. ops \in Seq(GateIds(c))
  BY WellFormedFacts
<1>2. CASE Type(c, g) = "INPUT"
  <2>1. LineOf(c, names, g) = [kind |-> "INPUT", name |-> names[g]]
    BY <1>2 DEF LineOf, InputGates, InputLine
  <2>2. ops = <<>>
    BY <1>2 DEF WellFormed, InputGates
  <2>3. written = <<>>
    BY <2>2 DEF OperandsWritten
  <2>. QED
    BY <1>2, <2>1, <2>3 DEF IsDefinition, IsReadable, LineType, OperandNames
<1>3. CASE Type(c, g) # "INPUT"
  <2> DEFINE ln == LineOf(c, names, g)
             n == Len(ops)
             W == {written[i] : i \in DOMAIN written}
  <2>1. Type(c, g) \in OperatorTypes \ {"CONST_TRUE", "CONST_FALSE"} /\ ops # <<>>
    BY <1>3 DEF IsWritable
  <2>2. n \in Nat /\ DOMAIN ops = 1 .. n /\ n # 0
    BY <1>1, <2>1
  <2>3. DOMAIN written = 1 .. n /\ written # <<>>
    <3>1. DOMAIN written = 1 .. n
      BY <2>2 DEF OperandsWritten
    <3>2. 1 \in 1 .. n
      BY <2>2
    <3> HIDE DEF written, n
    <3>3. ASSUME written = <<>> PROVE FALSE
      <4>1. 1 \notin DOMAIN <<>>
        OBVIOUS
      <4>. QED
        BY <3>1, <3>2, <3>3, <4>1
    <3>. QED
      BY <3>1, <3>3
  <2>4. written \in Seq(W)
    <3>1. written = [i \in 1 .. n |-> written[i]]
      BY <2>2 DEF OperandsWritten
    <3> HIDE DEF written, n
    <3>2. written \in [1 .. n -> W]
      BY <2>3, <3>1
    <3> HIDE DEF W
    <3>. QED
      BY <2>2, <3>2, FunctionIsSequence
  <2>5. ln = [kind |-> "gate", name |-> names[g], op |-> Type(c, g), operands |-> written]
    <3> HIDE DEF written
    <3>. QED
      BY <1>3, <2>3 DEF LineOf, InputGates, OperatorLine, GateLine, gateTypeToString, written
  <2> HIDE DEF written, ln, W, n, ops
  <2>6. /\ Type(c, g) \notin {"CONST", "vdd", "BUFF"}
        /\ Type(c, g) \in GateTypeNames
    BY <2>1 DEF OperatorTypes, FoldTypes, GateTypeNames
  <2>7. /\ ln.kind = "gate" /\ ln.name = names[g] /\ ln.op = Type(c, g) /\ ln.operands = written
    BY <2>5
  <2>8. ~IsSpecial(ln) /\ IsDefinition(ln) /\ IsReadable(ln)
    BY <2>6, <2>7 DEF IsSpecial, IsDefinition, IsReadable
  <2>9. stringToGateType(Type(c, g)) = Type(c, g)
    BY <2>6, ZenonT(60) DEF stringToGateType
  <2>10. LineType(ln) = Type(c, g)
    BY <2>7, <2>8, <2>9 DEF LineType
  <2>11. OperandNames(ln) = written
    BY <2>7, <2>8 DEF OperandNames
  <2>. QED
    BY <2>3, <2>4, <2>7, <2>8, <2>10, <2>11 DEF ln, written, W
<1>. QED
  BY <1>2, <1>3

(* What is written names the gates of the circuit, and defines each once.   *)
LEMMA WrittenNames ==
    ASSUME NEW c, WellFormed(c), NEW names, NamesGates(c, names),
           \A g \in GateIds(c) : IsWritable(c, g)
    PROVE  LET w == writeBenchFile(c, names)
           IN  /\ NamesIn(w) = {names[g] : g \in GateIds(c)}
               /\ DefinedNames(w) = NamesIn(w) /\ IsFiniteSet(NamesIn(w))
               /\ \A ln \in LinesOf(w) : IsReadable(ln)
               /\ \A g \in GateIds(c) : LastDefinition(w, names[g]) = LineOf(c, names, g)
<1> DEFINE w == writeBenchFile(c, names)
           S == {names[g] : g \in GateIds(c)}
           n == Len(c.gates)
<1>1. /\ Len(w) \in Nat /\ DOMAIN w = 1 .. Len(w)
      /\ \A g \in GateIds(c) : \E i \in DOMAIN w : w[i] = LineOf(c, names, g)
      /\ \A i \in DOMAIN w : \/ \E g \in GateIds(c) : w[i] = LineOf(c, names, g)
                             \/ \E k \in DOMAIN c.outputs : w[i] = OutputLine(names[c.outputs[k]])
  <2> HIDE DEF w
  <2>1. /\ w \in Seq(LinesOf(w))
        /\ \A g \in GateIds(c) : \E i \in DOMAIN w : w[i] = LineOf(c, names, g)
        /\ \A i \in DOMAIN w : \/ \E g \in GateIds(c) : w[i] = LineOf(c, names, g)
                               \/ \E k \in DOMAIN c.outputs : w[i] = OutputLine(names[c.outputs[k]])
    BY WrittenLines DEF w
  <2>. QED
    BY <2>1
<1> HIDE DEF w
<1>2. /\ n \in Nat /\ GateIds(c) = 1 .. n
      /\ \A g \in GateIds(c) : Operands(c, g) \in Seq(GateIds(c))
      /\ \A k \in DOMAIN c.outputs : c.outputs[k] \in GateIds(c)
  BY WellFormedFacts DEF WellFormed, IdsInRange, GateIds
<1>3. ASSUME NEW g \in GateIds(c)
      PROVE  LET ln == LineOf(c, names, g)
             IN  /\ IsDefinition(ln) /\ ln.name = names[g] /\ IsReadable(ln)
                 /\ OperandNames(ln) = OperandsWritten(c, names, g)
  BY LineOfFacts, ZenonT(60)
<1>4. ASSUME NEW g \in GateIds(c) PROVE NamesOf(LineOf(c, names, g)) \subseteq S /\ names[g] \in NamesOf(LineOf(c, names, g))
  <2>1. \A i \in DOMAIN OperandsWritten(c, names, g) : OperandsWritten(c, names, g)[i] \in S
    <3> SUFFICES ASSUME NEW i \in DOMAIN Operands(c, g) PROVE names[Operands(c, g)[i]] \in S
      BY DEF OperandsWritten
    <3>1. Operands(c, g)[i] \in GateIds(c)
      BY <1>2
    <3>. QED
      BY <3>1
  <2>2. LineOf(c, names, g).kind \in {"INPUT", "OUTPUT", "gate"}
    BY <1>3 DEF IsDefinition
  <2>3. names[g] \in S
    OBVIOUS
  <2> HIDE DEF S
  <2>. QED
    BY <1>3, <2>1, <2>2, <2>3 DEF NamesOf
<1>5. ASSUME NEW k \in DOMAIN c.outputs
      PROVE  LET ln == OutputLine(names[c.outputs[k]])
             IN  NamesOf(ln) \subseteq S /\ ~IsDefinition(ln) /\ IsReadable(ln)
  <2>1. names[c.outputs[k]] \in S
    BY <1>2
  <2> HIDE DEF S
  <2>. QED
    BY <2>1 DEF NamesOf, OutputLine, OperandNames, IsDefinition, IsReadable
<1>6. NamesIn(w) = S
  <2>1. ASSUME NEW i \in DOMAIN w PROVE NamesOf(w[i]) \subseteq S
    BY <1>1, <1>4, <1>5
  <2>2. ASSUME NEW g \in GateIds(c) PROVE \E i \in DOMAIN w : names[g] \in NamesOf(w[i])
    BY <1>1, <1>4
  <2> HIDE DEF S
  <2>3. NamesIn(w) \subseteq S
    BY <2>1 DEF NamesIn, LinesOf
  <2>4. S \subseteq NamesIn(w)
    BY <2>2 DEF NamesIn, LinesOf, S
  <2>. QED
    BY <2>3, <2>4
<1>7. ASSUME NEW g \in GateIds(c)
      PROVE  /\ DefinitionsOf(w, names[g]) # {}
             /\ \A i \in DefinitionsOf(w, names[g]) : w[i] = LineOf(c, names, g)
  <2>1. PICK i \in DOMAIN w : w[i] = LineOf(c, names, g)
    BY <1>1
  <2>2. i \in DefinitionsOf(w, names[g])
    BY <1>3, <2>1 DEF DefinitionsOf
  <2>3. ASSUME NEW j \in DefinitionsOf(w, names[g]) PROVE w[j] = LineOf(c, names, g)
    <3>1. j \in DOMAIN w /\ IsDefinition(w[j]) /\ w[j].name = names[g]
      BY DEF DefinitionsOf
    <3>2. PICK h \in GateIds(c) : w[j] = LineOf(c, names, h)
      BY <1>1, <1>5, <3>1
    <3>3. names[h] = names[g]
      BY <1>3, <3>1, <3>2
    <3>. QED
      BY <3>2, <3>3 DEF NamesGates
  <2>. QED
    BY <2>2, <2>3
<1>8. DefinedNames(w) = NamesIn(w)
  <2>1. \A x \in S : DefinitionsOf(w, x) # {}
    BY <1>7
  <2>. QED
    BY <1>6, <2>1 DEF DefinedNames
<1>9. ASSUME NEW g \in GateIds(c) PROVE LastDefinition(w, names[g]) = LineOf(c, names, g)
  <2>1. names[g] \in DefinedNames(w)
    BY <1>6, <1>8
  <2>2. \E i \in DefinitionsOf(w, names[g]) :
           /\ \A j \in DefinitionsOf(w, names[g]) : j <= i
           /\ LastDefinition(w, names[g]) = w[i]
    BY <1>1, <2>1, LastDefinitionFacts
  <2>. QED
    BY <1>7, <2>2
<1>10. IsFiniteSet(S)
  <2> DEFINE f == [g \in 1 .. n |-> names[g]]
  <2>1. IsFiniteSet(1 .. n)
    BY <1>2, FS_Interval
  <2>2. f \in Surjection(1 .. n, S)
    BY <1>2 DEF Surjection
  <2> HIDE DEF f, S
  <2>. QED
    BY <2>1, <2>2, FS_Surjection
<1>11. \A ln \in LinesOf(w) : IsReadable(ln)
  BY <1>1, <1>3, <1>5 DEF LinesOf
<1>. QED
  BY <1>6, <1>8, <1>9, <1>10, <1>11 DEF w

(* ... and means the circuit's function.                                    *)
LEMMA WrittenMeans ==
    ASSUME NEW c, WellFormed(c), NEW names, NamesGates(c, names),
           \A g \in GateIds(c) : IsWritable(c, g)
    PROVE  LET w == writeBenchFile(c, names)
           IN  /\ IsLegal(w)
               /\ SameFunction(c, names, Meaning(w), MeaningNames(w))
<1> DEFINE w == writeBenchFile(c, names)
           S == {names[g] : g \in GateIds(c)}
           N == MeaningNames(w)
           d == Meaning(w)
           n == Len(N)
           Place(g) == PlaceOf(N, names[g])
           m == [g \in GateIds(c) |-> Place(g)]
<1>1. /\ NamesIn(w) = S
      /\ DefinedNames(w) = S /\ IsFiniteSet(S)
      /\ \A ln \in LinesOf(w) : IsReadable(ln)
      /\ \A g \in GateIds(c) : LastDefinition(w, names[g]) = LineOf(c, names, g)
  BY WrittenNames, ZenonT(60)
<1>2. OutputNames(w) = [k \in DOMAIN c.outputs |-> names[c.outputs[k]]]
  BY WrittenLines
<1> HIDE DEF w, S
<1>3. /\ N \in Seq(S) /\ IsEncoder(N)
      /\ \A x \in S : KeyExists(N, x)
      /\ DOMAIN N = 1 .. n /\ n \in Nat
      /\ GateIds(d) = DOMAIN N /\ Len(d.gates) = n
      /\ \A g \in DOMAIN N : d.gates[g] = LineGate(LastDefinition(w, N[g]), N)
      /\ DOMAIN d.gates = 1 .. n
      /\ d.outputs = [k \in DOMAIN OutputNames(w) |-> PlaceOf(N, OutputNames(w)[k])]
  BY <1>1, MeaningFacts
<1> HIDE DEF N, d
<1>4. ASSUME NEW g \in GateIds(c)
      PROVE  /\ names[g] \in S /\ m[g] = Place(g)
             /\ Place(g) \in 1 .. n /\ N[Place(g)] = names[g]
  <2>1. names[g] \in S
    BY DEF S
  <2>2. KeyExists(N, names[g])
    BY <1>3, <2>1
  <2>. QED
    BY <1>3, <2>1, <2>2, PlaceFacts
<1>5. ASSUME NEW g \in GateIds(c)
      PROVE  /\ Operands(c, g) \in Seq(GateIds(c))
             /\ d.gates[m[g]] = GateInfo(Type(c, g), [i \in DOMAIN Operands(c, g) |-> m[Operands(c, g)[i]]])
  <2> DEFINE ops == Operands(c, g)
             ln == LineOf(c, names, g)
  <2>1. ops \in Seq(GateIds(c))
    BY WellFormedFacts
  <2>2. /\ LineType(ln) = Type(c, g)
        /\ OperandNames(ln) = OperandsWritten(c, names, g)
    BY LineOfFacts
  <2>3. d.gates[m[g]] = LineGate(ln, N)
    BY <1>1, <1>3, <1>4
  <2>4. LineGate(ln, N) = GateInfo(Type(c, g), [i \in DOMAIN OperandNames(ln) |-> PlaceOf(N, OperandNames(ln)[i])])
    BY <2>2 DEF LineGate
  <2>5. /\ DOMAIN OperandNames(ln) = DOMAIN ops
        /\ \A i \in DOMAIN ops : OperandNames(ln)[i] = names[ops[i]]
    BY <2>2 DEF OperandsWritten
  <2>6. ASSUME NEW i \in DOMAIN ops PROVE PlaceOf(N, OperandNames(ln)[i]) = m[ops[i]]
    <3>1. ops[i] \in GateIds(c)
      BY <2>1
    <3>2. m[ops[i]] = Place(ops[i])
      BY <1>4, <3>1
    <3>. QED
      BY <2>5, <3>2
  <2> HIDE DEF ln, m, ops
  <2>7. [i \in DOMAIN OperandNames(ln) |-> PlaceOf(N, OperandNames(ln)[i])] = [i \in DOMAIN ops |-> m[ops[i]]]
    BY <2>5, <2>6
  <2>. QED
    BY <2>1, <2>3, <2>4, <2>7 DEF ops
<1>6. /\ \A g \in GateIds(c) : m[g] \in GateIds(d) /\ N[m[g]] = names[g]
      /\ \A g, h \in GateIds(c) : m[g] = m[h] => g = h
  <2>1. \A g \in GateIds(c) : m[g] \in GateIds(d) /\ N[m[g]] = names[g]
    BY <1>3, <1>4
  <2>. QED
    BY <2>1 DEF NamesGates
<1>7. \A k \in GateIds(d) : \E g \in GateIds(c) : m[g] = k
  <2> SUFFICES ASSUME NEW k \in 1 .. n PROVE \E g \in GateIds(c) : m[g] = k
    BY <1>3
  <2>1. N[k] \in S
    BY <1>3
  <2>2. PICK g \in GateIds(c) : names[g] = N[k]
    BY <2>1 DEF S
  <2>3. N[m[g]] = N[k] /\ m[g] \in DOMAIN N /\ k \in DOMAIN N
    BY <1>3, <1>6, <2>2
  <2>4. m[g] = k
    BY <1>3, <2>3 DEF IsEncoder
  <2>. QED
    BY <2>4
<1> HIDE DEF m, Place
<1>8. IsCopy(c, GateIds(c), d, m)
  <2>1. GateIds(c) \subseteq GateIds(c) /\ IsClosed(c, GateIds(c))
    BY WellFormedFacts DEF OperandsInside, IsClosed
  <2>. QED
    BY <1>5, <1>6, <2>1, RebuiltIsCopy
<1>9. /\ c.outputs \in Seq(GateIds(c)) /\ OutputSet(c) \subseteq GateIds(c)
      /\ d.outputs = [k \in DOMAIN c.outputs |-> m[c.outputs[k]]]
  <2>1. c.outputs \in Seq(GateIds(c)) /\ OutputSet(c) \subseteq GateIds(c)
    BY WellFormedFacts
  <2>2. ASSUME NEW k \in DOMAIN c.outputs PROVE PlaceOf(N, names[c.outputs[k]]) = m[c.outputs[k]]
    BY <1>4, <2>1 DEF Place
  <2>3. /\ DOMAIN OutputNames(w) = DOMAIN c.outputs
        /\ \A k \in DOMAIN c.outputs : OutputNames(w)[k] = names[c.outputs[k]]
    BY <1>2
  <2>. QED
    BY <1>3, <2>1, <2>2, <2>3
<1>10. IdsInRange(d)
  <2> DEFINE I == GateInfos(n)
  <2>1. ASSUME NEW k \in 1 .. n PROVE d.gates[k] \in I
    <3>1. PICK g \in GateIds(c) : m[g] = k
      BY <1>3, <1>7
    <3> DEFINE ops == Operands(c, g)
               new == [i \in DOMAIN ops |-> m[ops[i]]]
    <3>2. Len(ops) \in Nat /\ DOMAIN ops = 1 .. Len(ops) /\ \A i \in DOMAIN ops : ops[i] \in GateIds(c)
      <4>1. ops \in Seq(GateIds(c))
        BY <1>5
      <4> HIDE DEF ops
      <4>. QED
        BY <4>1
    <3>3. \A i \in DOMAIN ops : m[ops[i]] \in 1 .. n
      BY <1>3, <1>6, <3>2
    <3>4. new \in [1 .. Len(ops) -> 1 .. n]
      BY <3>2, <3>3
    <3> HIDE DEF ops
    <3>5. new \in Seq(1 .. n)
      <4> HIDE DEF new
      <4>. QED
        BY <3>2, <3>4, FunctionIsSequence
    <3>6. d.gates[k] = GateInfo(Type(c, g), new)
      BY <1>5, <3>1 DEF ops
    <3>7. Type(c, g) \in GateTypes
      BY WellFormedFacts
    <3> HIDE DEF new
    <3>. QED
      BY <1>3, <3>5, <3>6, <3>7, GateInfoTyped
  <2> DEFINE gates == d.gates
  <2>2. \E f : gates = f /\ f \in Seq(I)
    <3>1. DOMAIN gates = 1 .. n /\ gates = [k \in DOMAIN gates |-> gates[k]]
      BY <1>3 DEF d, Meaning
    <3> HIDE DEF gates, I
    <3>2. gates \in [1 .. n -> I]
      BY <2>1, <3>1 DEF gates
    <3>3. gates \in Seq(I)
      BY <1>3, <3>2, FunctionIsSequence
    <3>. QED
      BY <3>3
  <2>3. d.outputs \in Seq(GateIds(d))
    <3> DEFINE y == Len(c.outputs)
    <3>1. y \in Nat /\ DOMAIN c.outputs = 1 .. y /\ \A k \in 1 .. y : c.outputs[k] \in GateIds(c)
      BY <1>9
    <3> HIDE DEF y
    <3>2. d.outputs \in [1 .. y -> GateIds(d)]
      BY <1>6, <1>9, <3>1
    <3>. QED
      BY <3>1, <3>2, FunctionIsSequence
  <2>. QED
    BY <1>3, <2>2, <2>3 DEF IdsInRange
<1>11. WellFormed(d) /\ SameFunction(c, names, d, N)
  <2>1. \A g \in GateIds(c) : Type(c, g) = "INPUT" => N[m[g]] = names[g]
    BY <1>6
  <2>. QED
    BY <1>6, <1>7, <1>8, <1>9, <1>10, <2>1, FullCopyIsCorrect
<1>12. IsLegal(w)
  BY <1>1, <1>11 DEF IsLegal, d
<1>. QED
  BY <1>11, <1>12 DEF w, d, N

------------------------------------------------------------------------------
(* A legal file without constants is read as gates that can be written.     *)
LEMMA ReadIsWritable ==
    ASSUME Inv, pc = "done", IsLegal(file),
           NEW g \in GateIds(circuit), Type(circuit, g) \notin {"CONST_TRUE", "CONST_FALSE"}
    PROVE  IsWritable(circuit, g)
<1> DEFINE entry == LastDefinition(file, encoder[g])
           ops == OperandNames(entry)
           n == Len(ops)
           ids == [i \in DOMAIN ops |-> IdOf(encoder, ops[i])]
<1>1. /\ lines = <<>> /\ circuit.gates = gate_info_vector
      /\ DefinedNames(file) = NamesIn(file)
  BY DEF Inv, ResultInv, IsLegal
<1>2. /\ \A name \in NamesIn(file) : IdOf(encoder, name) \in DOMAIN encoder
      /\ g \in DOMAIN encoder /\ encoder[g] \in NamesIn(file) /\ DOMAIN encoder = 1 .. Len(encoder)
  <2>1. /\ \A name \in NamesIn(file) : IdOf(encoder, name) \in DOMAIN encoder
        /\ \A h \in DOMAIN encoder : encoder[h] \in NamesIn(file)
        /\ Len(gate_info_vector) = Len(encoder)
        /\ DOMAIN encoder = 1 .. Len(encoder)
    BY <1>1, LegalRead
  <2>. QED
    BY <1>1, <2>1 DEF GateIds
<1>3. /\ gate_info_vector[g] = GateRead(encoder, entry)
      /\ \E i \in DOMAIN file : entry = file[i]
      /\ IsDefinition(entry) /\ IsReadable(entry)
  BY <1>1, <1>2, GateOfName
<1>4. Type(circuit, g) = LineType(entry) /\ Operands(circuit, g) = GateInfo(LineType(entry), ids).operands
  BY <1>1, <1>3 DEF Type, Operands, GateRead, GateInfo
<1>5. IsFile(file) /\ entry \in LinesOf(file)
  BY <1>1, <1>3, AllRead DEF LinesOf
<1> HIDE DEF entry
<1>6. CASE Type(circuit, g) # "INPUT"
  <2>1. entry.kind = "gate"
    BY <1>3, <1>4, <1>6 DEF IsDefinition, LineType
  <2>2. LineType(entry) \in OperatorTypes
    BY <1>3, <1>4, <1>6, DefinedType DEF GateTypes
  <2>3. ~IsSpecial(entry)
    <3> SUFFICES ASSUME IsSpecial(entry) PROVE FALSE
      OBVIOUS
    <3>1. LineType(entry) = SpecialType(entry)
      BY <2>1 DEF LineType
    <3>2. entry.op = "vdd" \/ entry.operands = <<One>> \/ entry.operands = <<Zero>>
      BY <1>3, <2>1 DEF IsSpecial, IsReadable, IsDefinition
    <3>3. SpecialType(entry) \in {"CONST_TRUE", "CONST_FALSE"}
      BY <3>2, ZenonT(60) DEF SpecialType
    <3>. QED
      BY <1>4, <3>1, <3>3
  <2>4. ops = entry.operands
    BY <2>1, <2>3 DEF OperandNames
  <2>5. ops # <<>> /\ ops \in Seq({ops[i] : i \in DOMAIN ops})
    <3>1. /\ entry.operands # <<>>
          /\ entry.operands \in Seq({entry.operands[i] : i \in DOMAIN entry.operands})
      BY <1>5, <2>1 DEF IsFile
    <3>. QED
      BY <2>4, <3>1
  <2>6. \A i \in DOMAIN ops : ops[i] \in NamesIn(file)
    BY <1>5, <2>1 DEF NamesIn, NamesOf
  <2> HIDE DEF ops
  <2>7. n \in Nat /\ DOMAIN ops = 1 .. n /\ n # 0
    BY <2>5
  <2>8. ids \in [1 .. n -> Nat]
    <3>1. \A i \in DOMAIN ops : IdOf(encoder, ops[i]) \in Nat
      BY <1>2, <2>6
    <3> HIDE DEF n
    <3>. QED
      BY <2>7, <3>1
  <2> HIDE DEF ids, n
  <2>9. DOMAIN Operands(circuit, g) = 1 .. n
    <3> DEFINE made == GateInfo(LineType(entry), ids).operands
    <3>1. IsReordering(made, ids, n, LineType(entry))
      BY <2>7, <2>8, InfoFacts
    <3> HIDE DEF made
    <3>2. DOMAIN made = 1 .. n
      BY <2>7, <3>1, ReorderedSet
    <3>. QED
      BY <1>4, <3>2 DEF made
  <2>10. ASSUME Operands(circuit, g) = <<>> PROVE FALSE
    <3>1. 1 \notin DOMAIN <<>> /\ 1 \in 1 .. n
      BY <2>7
    <3>. QED
      BY <2>9, <2>10, <3>1
  <2>. QED
    BY <1>4, <2>2, <2>10 DEF IsWritable
<1>. QED
  BY <1>6 DEF IsWritable

(* A legal file without constants survives being read and written.          *)
THEOREM RoundTripKeepsMeaning == Spec => []RoundTrip
<1>1. Inv => RoundTrip
  <2> SUFFICES ASSUME Inv, pc = "done", IsLegal(file),
                      {Type(circuit, g) : g \in GateIds(circuit)} \cap {"CONST_TRUE", "CONST_FALSE"} = {}
               PROVE  /\ IsLegal(writeBenchFile(circuit, encoder))
                      /\ SameMeaning(file, writeBenchFile(circuit, encoder))
    BY DEF RoundTrip
  <2> DEFINE w == writeBenchFile(circuit, encoder)
  <2>1. /\ WellFormed(circuit) /\ NamesGates(circuit, encoder)
        /\ SameFunction(Meaning(file), MeaningNames(file), circuit, encoder)
    BY LegalIsRead
  <2>2. \A g \in GateIds(circuit) : IsWritable(circuit, g)
    BY ReadIsWritable
  <2>3. IsLegal(w) /\ SameFunction(circuit, encoder, Meaning(w), MeaningNames(w))
    BY <2>1, <2>2, WrittenMeans
  <2> HIDE DEF w
  <2>4. SameFunction(Meaning(file), MeaningNames(file), Meaning(w), MeaningNames(w))
    BY <2>1, <2>3, SameFunctionTransitive
  <2>. QED
    BY <2>3, <2>4 DEF SameMeaning, w
<1>. QED
  BY <1>1, InvAlways, PTL
==============================================================================
