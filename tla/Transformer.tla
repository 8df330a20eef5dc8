----------------------------- MODULE Transformer -----------------------------
(****************************************************************************)
(* What every transformer promises (src/src/simplification/                 *)
(* transformer_base.hpp): given a circuit and its encoder it returns, once, *)
(* a circuit that computes the same function of the same named inputs, and  *)
(* an encoder that names every gate of that circuit.                        *)
(****************************************************************************)
EXTENDS Circuits
LOCAL INSTANCE Integers
LOCAL INSTANCE Sequences

VARIABLES
    source, source_names,   \* the circuit and encoder given
    result, result_names,   \* the circuit and encoder returned
    done                    \* whether transform has returned

vars == <<source, source_names, result, result_names, done>>

NoCircuit == [gates |-> <<>>, outputs |-> <<>>]

Init == ~done /\ result = NoCircuit /\ NamesGates(source, source_names)

Correct(c, names) ==
    /\ WellFormed(c)
    /\ NamesGates(c, names)
    /\ SameFunction(source, source_names, c, names)

Transform ==
    /\ ~done /\ done'
    /\ UNCHANGED <<source, source_names>>
    /\ \E c \in {result'}, names \in {result_names'} : Correct(c, names)

Safety == Init /\ [][Transform]_vars

Spec == Safety /\ <>done
==============================================================================
