--------------------------- MODULE SmallDatabases ----------------------------
(****************************************************************************)
(* Databases of few entries for the model-checking modules: the smallest    *)
(* circuits of few gates, and lines of the files under src/databases.       *)
(****************************************************************************)
EXTENDS CircuitDB, CircuitSets
LOCAL INSTANCE Integers
LOCAL INSTANCE Sequences
LOCAL INSTANCE FiniteSets
LOCAL INSTANCE SequencesExt
LOCAL INSTANCE Functions

\* A small database: for the tables of one or two outputs an entry of the
\* fewest gates, all of use, among those of n gates over the given shapes, in
\* one order of the inputs, since the code tries all of them.
Behind(shapes, i) == {g \in OperatorGates(shapes, 1 .. i + 2) : IsInjective(g.operands)}

GateLists(shapes, n) ==
    FoldLeft(LAMBDA lists, i : {Append(l, g) : l \in lists, g \in Behind(shapes, i)},
             {<<>>}, [i \in 1 .. n |-> i])

Entries(gates) ==
    LET table   == EntryTables(gates)
        indices == 4 .. Len(gates) + 3
        used(out) == out \cup UNION {ToSet(gates[i].operands) : i \in DOMAIN gates}
        at(out, t) == CHOOSE i \in out : table[i] = t
    IN  {[outputs |-> [t \in {table[i] : i \in out} |-> at(out, t)], gates |-> gates] :
            out \in {o \in SUBSET indices :
                /\ Cardinality({table[i] : i \in o}) = Cardinality(o)
                /\ Cardinality(o) \in {1, 2} /\ indices \subseteq used(o)}}

\* The tables of a key, with the inputs in another order.
Reordered(key) == {{Renamed(table, p) : table \in key} : p \in ToSet(Permutations3)}

Weight(e) == 10 * OperNumber(e) + Len(e.gates)

Fewest(shapes, n) ==
    LET all == UNION {Entries(gates) : gates \in UNION {GateLists(shapes, i) : i \in 1 .. n}}
        of(key) == {e \in all : Key(e) = key}
        best(set) == CHOOSE e \in set : \A other \in set : Weight(e) <= Weight(other)
    IN  {best(of(key)) : key \in {CHOOSE k \in Reordered(key) : TRUE : key \in Keys(all)}}


------------------------------------------------------------------------------
FromFile(lines) == {ReadEntry(words) : words \in lines}

\* Lines 1064 and 138427 of database_bench.txt,
CycleDB  == FromFile({<<3, 2, 10, 14, 5, 4, "NOR", 1, 2, "NOR", 0, 3, "AND", 2, 4>>})
GrowthDB == FromFile({<<3, 3, 45, 150, 165, 5, 6, 4,
                        "AND", 1, 2, "NXOR", 0, 2, "XOR", 3, 4, "NXOR", 1, 4>>})

\* short lines of the same file, with and without a gate beside the output,
BenchLines ==
    FromFile({<<3, 1, 1, 4, "OR", 1, 2, "NOR", 0, 3>>,
              <<3, 1, 3, 3, "NOR", 0, 1>>,
              <<3, 1, 127, 4, "AND", 1, 2, "NAND", 0, 3>>,
              <<3, 1, 168, 4, "OR", 0, 1, "AND", 2, 3>>})

\* lines of database_aig.txt, whose gates are in no order,
AigLines ==
    FromFile({<<3, 1, 7, 3, "AND", 4, 6, "NOT", 0, "AND", 1, 2, "NOT", 5>>,
              <<3, 1, 8, 3, "AND", 4, 5, "NOT", 0, "AND", 1, 2>>,
              <<3, 2, 10, 12, 3, 4, "AND", 5, 2, "AND", 5, 1, "NOT", 0>>})

\* and an entry that could be smaller.
LargeDB ==
    FromFile({<<3, 1, 1, 8, "NOT", 0, "NOT", 1, "NOT", 2, "AND", 3, 4, "AND", 4, 5, "AND", 6, 7>>})

Extended(db, more) == db \cup {e \in more : Key(e) \notin Keys(db)}

SmallBenchDB == Extended(GrowthDB \cup LargeDB, Fewest({<<"AND", 2>>, <<"OR", 2>>, <<"XOR", 2>>}, 2))
SmallAigDB   == Extended(AigLines \cup LargeDB, Fewest({<<"AND", 2>>, <<"NOT", 1>>}, 3))
SmallDB(b)   == IF b = "AIG" THEN SmallAigDB ELSE SmallBenchDB
==============================================================================
