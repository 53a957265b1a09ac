------------------------------ MODULE MCFiles ------------------------------
EXTENDS FileRefinement, TLC

\* With sectors of two bytes and clusters of one sector, A has four clusters
\* and ends with a sector, B is half a sector.
MCBytes == [A |-> 8, B |-> 1]
MCReadOnlyFile == [A |-> FALSE, B |-> FALSE]
\* Nothing tells one SimpleFile from another.
Handles == Permutations(Handle)
=============================================================================
