------------------------------ MODULE CircuitDB ------------------------------
(****************************************************************************)
(* Truth tables over three inputs and the database of small circuits that   *)
(* compute them (src/src/simplification/utils/circuits_db.hpp).             *)
(*                                                                          *)
(* The code keeps a table as a number of 8 bits, the inputs being 240, 204  *)
(* and 170; here a table is the set of the bits that are 1, the rows where  *)
(* it is true.  An entry is found by the sorted vector of the tables of its *)
(* outputs; since they are all different, a set of tables is the key here.  *)
(****************************************************************************)
LOCAL INSTANCE Integers
LOCAL INSTANCE Sequences
LOCAL INSTANCE FiniteSets
LOCAL INSTANCE FiniteSetsExt
LOCAL INSTANCE SequencesExt

Rows     == 0 .. 7
Input(k) == CASE k = 1 -> {4, 5, 6, 7} [] k = 2 -> {2, 3, 6, 7} [] k = 3 -> {1, 3, 5, 7}
Negated(table) == Rows \ table

(* The operations that the code applies to tables.                          *)
TableOperators == {"NOT", "AND", "OR", "XOR", "NAND", "NOR", "NXOR"}

Table(type, a, b) ==
    LET xor == (a \ b) \cup (b \ a)
    IN  CASE type = "NOT"  -> Negated(a)
          [] type = "AND"  -> a \cap b
          [] type = "OR"   -> a \cup b
          [] type = "XOR"  -> xor
          [] type = "NAND" -> Negated(a \cap b)
          [] type = "NOR"  -> Negated(a \cup b)
          [] type = "NXOR" -> Negated(xor)

(* all_patterns holds the tables for each assignment of the three inputs to *)
(* the parents of a color: the k-th parent is input p[k].  The tables for   *)
(* one assignment are those for the first with the inputs renamed.          *)
Permutations3 ==
    <<<<1, 2, 3>>, <<1, 3, 2>>, <<2, 1, 3>>, <<2, 3, 1>>, <<3, 1, 2>>, <<3, 2, 1>>>>

Renamed(table, p) ==
    {CHOOSE s \in Rows : \A k \in 1 .. 3 : s \in Input(p[k]) <=> r \in Input(k) : r \in table}

------------------------------------------------------------------------------
(* An entry of the database,                                                *)
(*     [outputs |-> function from tables to indices, gates |-> GateInfos]:  *)
(* gates over the inputs 1..3 and other gates, where gate i has index i + 3,*)
(* and for each table of its key the index of the output with this table.   *)
(* The database is a set of entries, read from a file.                      *)

Key(entry)    == DOMAIN entry.outputs
Keys(db)      == {Key(entry) : entry \in db}
Find(db, key) == CHOOSE entry \in db : Key(entry) = key

(* OPER_number.                                                             *)
OperNumber(entry) == Cardinality({i \in DOMAIN entry.gates : entry.gates[i].type # "NOT"})

(* The tables that the gates of an entry compute, in whatever order they    *)
(* are: in database_aig.txt an operand may be behind its user.              *)
EntryTables(gates) ==
    LET table[i \in 1 .. Len(gates) + 3] ==
            IF i <= 3 THEN Input(i)
            ELSE LET g == gates[i - 3]
                 IN  Table(g.type, table[g.operands[1]], table[g.operands[Len(g.operands)]])
    IN  table

(* What the code takes on trust: an entry computes the tables it is found   *)
(* by.                                                                      *)
IsCorrect(entry) ==
    \A table \in Key(entry) : EntryTables(entry.gates)[entry.outputs[table]] = table

------------------------------------------------------------------------------
(* read_db, one line, given as the sequence of its words and numbers:       *)
(* the number of inputs, the number of outputs, their tables, their         *)
(* indices, and gates as long as one more is known to be needed, as an      *)
(* output or as an operand of a gate read before.                           *)
TableOf(pattern) == {r \in Rows : (pattern \div 2 ^ r) % 2 = 1}

ReadEntry(words) ==
    LET inputs_number  == words[1]
        outputs_number == words[2]
        patterns == SubSeq(words, 3, outputs_number + 2)
        indices  == SubSeq(words, outputs_number + 3, 2 * outputs_number + 2)
        gates[at \in Nat, i \in Nat, max_index \in Nat] ==
            IF i > max_index THEN <<>>
            ELSE LET operation == words[at]
                     operands  == SubSeq(words, at + 1, IF operation = "NOT" THEN at + 1 ELSE at + 2)
                 IN  <<[type     |-> operation,
                        operands |-> [k \in DOMAIN operands |-> operands[k] + 1]]>>
                     \o gates[at + Len(operands) + 1, i + 1, Max(ToSet(operands) \cup {max_index})]
    IN  [outputs |-> [table \in {TableOf(patterns[k]) : k \in DOMAIN patterns} |->
                         indices[CHOOSE k \in DOMAIN patterns : TableOf(patterns[k]) = table] + 1],
         gates   |-> gates[2 * outputs_number + 3, inputs_number, Max(ToSet(indices))]]
==============================================================================
