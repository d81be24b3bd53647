---------------------------- MODULE MCRecordCache ----------------------------
\* Two spellings of one donor's address.
EXTENDS RecordCache, TLC

CONSTANTS typed, lower
OneKey == (typed :> lower) @@ (lower :> lower)
Symmetry == Permutations(Callers)
=============================================================================
