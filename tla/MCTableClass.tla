---------------------------- MODULE MCTableClass ----------------------------
(* Instances of TableClass for TLC: two files, tables of up to two rows    *)
(* and two fields.                                                         *)
EXTENDS TableClass, TLC

CONSTANTS zero, one, a, b

MCName == {a, b}
MCValue == {zero, one}
MCSymmetry == Permutations(MCName)
MCFirstTable == {[cols |-> 1, rows |-> <<<<Empty>>, <<one>>>>]}
=============================================================================
