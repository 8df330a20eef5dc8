----------------------------- MODULE BenchFormat -----------------------------
(****************************************************************************)
(* .bench files, as far as their lines are told apart by the parser         *)
(* (src/src/parser/ibench_parser.hpp), what such a file means, and the      *)
(* file that is written for a circuit (src/src/utility/write_utils.hpp).    *)
(* A file is a sequence of lines; a name is a pair, as in GateEncoder.      *)
(****************************************************************************)
EXTENDS Circuits
LOCAL INSTANCE Integers
LOCAL INSTANCE Sequences

\* What may be written where a name is expected: nothing, a truth value.
EmptyText == <<"", 0>>
Zero      == <<"0", 0>>
One       == <<"1", 0>>

Comment    == [kind |-> "comment"]      \* or an empty line
Unreadable == [kind |-> "other"]        \* without '=', '(' and ')' in this order

InputLine(name)  == [kind |-> "INPUT", name |-> name]
OutputLine(name) == [kind |-> "OUTPUT", name |-> name]

(* name = op(operands); what is between the brackets is split at commas, so *)
(* that there is always an operand, the empty text if nothing else.         *)
GateLine(name, op, operands) ==
    [kind |-> "gate", name |-> name, op |-> op,
     operands |-> IF operands = <<>> THEN <<EmptyText>> ELSE operands]

VddLine(name) == GateLine(name, "vdd", <<>>)        \* name = vdd

(* stringToGateType, in a build with BUFF_IS_IFF; it throws for others.     *)
GateTypeNames == OperatorTypes \cup {"BUFF", "vdd"}

stringToGateType(op) ==
    CASE op = "BUFF" -> "IFF"
      [] op = "vdd"  -> "CONST_TRUE"
      [] OTHER       -> op

gateTypeToString(type) == type

(* The operators with a value instead of operands.                          *)
IsSpecial(line) == line.op \in {"CONST", "vdd"}

SpecialType(line) ==
    CASE line.op = "vdd" \/ line.operands = <<One>> -> "CONST_TRUE"
      [] line.operands = <<Zero>>                   -> "CONST_FALSE"

------------------------------------------------------------------------------
(* What a file means, whatever the order of its lines: the circuit that has *)
(* a gate for each name, by the last line that defines it.                  *)
LinesOf(file) == {file[i] : i \in DOMAIN file}

(* Lines as the constructors above make them.                               *)
IsFile(file) ==
    /\ file \in Seq(LinesOf(file))
    /\ \A line \in LinesOf(file) :
          line.kind = "gate" =>
              /\ line.operands # <<>>
              /\ line.operands \in Seq({line.operands[i] : i \in DOMAIN line.operands})

IsDefinition(line) == line.kind \in {"INPUT", "gate"}

OperandNames(line) ==
    IF line.kind = "gate" /\ ~IsSpecial(line) THEN line.operands ELSE <<>>

NamesOf(line) ==
    IF line.kind \in {"INPUT", "OUTPUT", "gate"}
    THEN {line.name} \cup {OperandNames(line)[i] : i \in DOMAIN OperandNames(line)}
    ELSE {}

NamesIn(file) == UNION {NamesOf(line) : line \in LinesOf(file)}

DefinitionsOf(file, name) ==
    {i \in DOMAIN file : IsDefinition(file[i]) /\ file[i].name = name}

DefinedNames(file) == {name \in NamesIn(file) : DefinitionsOf(file, name) # {}}

LastDefinition(file, name) ==
    file[CHOOSE i \in DefinitionsOf(file, name) :
            \A j \in DefinitionsOf(file, name) : j <= i]

(* The names of the outputs in the first lines, in order.                   *)
OutputsIn(file) ==
    LET names[k \in 0 .. Len(file)] ==
            IF k = 0 THEN <<>>
            ELSE IF file[k].kind = "OUTPUT" THEN Append(names[k - 1], file[k].name)
                                            ELSE names[k - 1]
    IN  names

OutputNames(file) == OutputsIn(file)[Len(file)]

(* All names, in some order.                                                *)
Listing(S) ==
    LET listed[T \in SUBSET S] ==
            IF T = {} THEN <<>>
            ELSE LET x == CHOOSE x \in T : TRUE
                 IN  Append(listed[T \ {x}], x)
    IN  listed[S]

MeaningNames(file) == Listing(NamesIn(file))

PlaceOf(names, name) == CHOOSE g \in DOMAIN names : names[g] = name

LineType(line) ==
    IF line.kind = "INPUT" THEN "INPUT"
    ELSE IF IsSpecial(line) THEN SpecialType(line)
    ELSE stringToGateType(line.op)

LineGate(line, names) ==
    GateInfo(LineType(line),
             [i \in DOMAIN OperandNames(line) |-> PlaceOf(names, OperandNames(line)[i])])

Meaning(file) ==
    LET names == MeaningNames(file)
    IN  [gates   |-> [g \in DOMAIN names |->
                         IF DefinitionsOf(file, names[g]) = {} THEN NoGateInfo
                         ELSE LineGate(LastDefinition(file, names[g]), names)],
         outputs |-> [k \in DOMAIN OutputNames(file) |-> PlaceOf(names, OutputNames(file)[k])]]

(* A file that means a circuit: every line can be read, every name is       *)
(* defined, no gate is computed from itself, and operators have the         *)
(* operands they need.                                                      *)
IsReadable(line) ==
    /\ line.kind # "other"
    /\ line.kind = "gate" =>
          IF line.op = "CONST" THEN line.operands \in {<<Zero>>, <<One>>}
                               ELSE line.op \in GateTypeNames

IsLegal(file) ==
    /\ \A line \in LinesOf(file) : IsReadable(line)
    /\ DefinedNames(file) = NamesIn(file)
    /\ WellFormed(Meaning(file))

(* The second file means the function of the first.                         *)
SameMeaning(file1, file2) ==
    SameFunction(Meaning(file1), MeaningNames(file1), Meaning(file2), MeaningNames(file2))

------------------------------------------------------------------------------
\* Mutant of OperandsWritten: the last operand is written where it was read.
OperandsShifted(c, names, g) ==
    LET ops == Operands(c, g)
    IN  [i \in DOMAIN ops |-> names[ops[IF i = 1 THEN Len(ops) ELSE i - 1]]]

OperandsWritten(c, names, g) == [i \in DOMAIN Operands(c, g) |-> names[Operands(c, g)[i]]]

(* The gates of a set among the first n, by ascending id.                   *)
Ascending(n, S) ==
    LET gates[g \in 0 .. n] ==
            IF g = 0 THEN <<>>
            ELSE IF g \in S THEN Append(gates[g - 1], g) ELSE gates[g - 1]
    IN  gates[n]

OperatorLine(c, names, g) ==
    GateLine(names[g], gateTypeToString(Type(c, g)), OperandsWritten(c, names, g))

(* writeBenchFile: inputs, outputs, and all other gates by their ids.       *)
writeBenchFile(c, names) ==
    LET inputs    == Ascending(Len(c.gates), InputGates(c))
        operators == Ascending(Len(c.gates), GateIds(c) \ InputGates(c))
    IN  [i \in DOMAIN inputs |-> InputLine(names[inputs[i]])] \o
        [k \in DOMAIN c.outputs |-> OutputLine(names[c.outputs[k]])] \o
        [i \in DOMAIN operators |-> OperatorLine(c, names, operators[i])]
==============================================================================
