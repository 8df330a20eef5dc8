------------------------------ MODULE Operators ------------------------------
(****************************************************************************)
(* Gate types, the three gate states and the operators that evaluate a gate *)
(* (src/src/common/csat_types.hpp, src/src/common/operators.hpp and the     *)
(* type predicates of src/src/utility/converters.hpp).                      *)
(*                                                                          *)
(* A gate state is its enumerator's number, because the truth tables of the *)
(* code are arrays indexed with it; the arrays are kept as tuples.          *)
(****************************************************************************)
LOCAL INSTANCE Integers
LOCAL INSTANCE Sequences

StFalse == 0
StTrue  == 1
StUndef == 2
GateStates == {StFalse, StTrue, StUndef}

FoldTypes == {"AND", "NAND", "OR", "NOR", "XOR", "NXOR"}
OperatorTypes == FoldTypes \cup {"NOT", "IFF", "MUX", "CONST_FALSE", "CONST_TRUE"}
\* BUFF is only produced by the parser of a build without BUFF_IS_IFF;
\* UNDEFINED is the type of a default-constructed GateInfo.
GateTypes == OperatorTypes \cup {"INPUT", "BUFF", "UNDEFINED"}

(* Operands of such a gate can be swapped without changing the result.      *)
SymmetricOperatorQ(type) == type # "MUX"

(* The operand counts the evaluators assert.                                *)
ArityOk(type, n) ==
    CASE type \in FoldTypes                          -> n >= 2
      [] type \in {"NOT", "IFF"}                     -> n = 1
      [] type = "MUX"                                -> n = 3
      [] type \in {"INPUT", "CONST_FALSE", "CONST_TRUE"} -> n = 0
      [] OTHER                                       -> FALSE

------------------------------------------------------------------------------
(* The table-driven operators on one, two and three states.                 *)

Lookup1(table, a)       == table[a + 1]
Lookup2(table, a, b)    == table[3 * a + b + 1]
Lookup3(table, a, b, c) == table[9 * a + 3 * b + c + 1]

\* Mutants: NOT by arithmetic, XOR that compares states without regard to
\* StUndef, AND and NAND that a FALSE operand does not decide.
NotByArithmetic(a) == 1 - a
XorOfStates(a, b)  == IF a = b THEN StFalse ELSE StTrue
StrictAnd(a, b)    == Lookup2(<<0, 0, 2,  0, 1, 2,  2, 2, 2>>, a, b)
StrictNand(a, b)   == Lookup2(<<1, 1, 2,  1, 0, 2,  2, 2, 2>>, a, b)

NOT(a)     == Lookup1(<<1, 0, 2>>, a)
IFF(a)     == Lookup1(<<0, 1, 2>>, a)
AND(a, b)  == Lookup2(<<0, 0, 0,  0, 1, 2,  0, 2, 2>>, a, b)
OR(a, b)   == Lookup2(<<0, 1, 2,  1, 1, 1,  2, 1, 2>>, a, b)
XOR(a, b)  == Lookup2(<<0, 1, 2,  1, 0, 2,  2, 2, 2>>, a, b)
NAND(a, b) == Lookup2(<<1, 1, 1,  1, 0, 2,  1, 2, 2>>, a, b)
NOR(a, b)  == Lookup2(<<1, 0, 2,  0, 0, 0,  2, 0, 2>>, a, b)
NXOR(a, b) == Lookup2(<<1, 0, 2,  0, 1, 2,  2, 2, 2>>, a, b)

(* MUX(x, y, z) is y when x is FALSE and z when x is TRUE.                  *)
MUX(x, y, z) ==
    Lookup3(<<0, 0, 0,  1, 1, 1,  2, 2, 2,
              0, 1, 2,  0, 1, 2,  0, 1, 2,
              2, 2, 2,  2, 2, 2,  2, 2, 2>>, x, y, z)

------------------------------------------------------------------------------
(* A binary operator as a function of its first and second operand.         *)
FunctionOf(op(_, _)) == [a \in GateStates |-> [b \in GateStates |-> op(a, b)]]

(* FoldMapOperator_: fold a binary operator, a function, over two or more   *)
(* states, stopping before the next one once `terminal` is reached          *)
(* (StUndef stands for "no terminal state", as in the template parameter).  *)
FoldMap(op, terminal, args) ==
    LET state[i \in 2 .. Len(args)] ==
            IF i = 2 THEN op[args[1]][args[2]]
            ELSE LET before == state[i - 1]
                 IN  IF terminal # StUndef /\ before = terminal
                     THEN before
                     ELSE op[before][args[i]]
    IN  state[Len(args)]

(* getOperatorNT(type) applied to the states of the operands.               *)
Operator(type, args) ==
    CASE type = "NOT"         -> NOT(args[1])
      [] type = "AND"         -> FoldMap(FunctionOf(AND), StFalse, args)
      [] type = "NAND"        -> NOT(FoldMap(FunctionOf(AND), StFalse, args))
      [] type = "OR"          -> FoldMap(FunctionOf(OR), StTrue, args)
      [] type = "NOR"         -> NOT(FoldMap(FunctionOf(OR), StTrue, args))
      [] type = "XOR"         -> FoldMap(FunctionOf(XOR), StUndef, args)
      [] type = "NXOR"        -> NOT(FoldMap(FunctionOf(XOR), StUndef, args))
      [] type = "IFF"         -> IFF(args[1])
      [] type = "MUX"         -> MUX(args[1], args[2], args[3])
      [] type = "CONST_FALSE" -> StFalse
      [] type = "CONST_TRUE"  -> StTrue

(* getOperator(type) applied to three states, the unused ones ignored.      *)
SimpleOperator(type, a, b, c) ==
    CASE type = "NOT"         -> NOT(a)
      [] type = "AND"         -> AND(a, b)
      [] type = "NAND"        -> NAND(a, b)
      [] type = "OR"          -> OR(a, b)
      [] type = "NOR"         -> NOR(a, b)
      [] type = "XOR"         -> XOR(a, b)
      [] type = "NXOR"        -> NXOR(a, b)
      [] type = "IFF"         -> IFF(a)
      [] type = "MUX"         -> MUX(a, b, c)
      [] type = "CONST_FALSE" -> StFalse
      [] type = "CONST_TRUE"  -> StTrue
==============================================================================
