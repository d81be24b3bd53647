---------------------------- MODULE MCRetention ----------------------------
\* Every kind of row is kept for one tick; a second has two.
EXTENDS Retention, TLC
KeepOne == [k \in RowKinds |-> 1]
TwoTicks == [t \in 0..MaxTime |-> t \div 2]
Symmetry == Permutations(Callers) \cup Permutations(Docs)
=============================================================================
