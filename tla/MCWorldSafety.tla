--------------------------- MODULE MCWorldSafety ---------------------------
\* WorldSafety with the residents interchangeable.
EXTENDS WorldSafety, TLC

Symmetry == Permutations(Resident)
=============================================================================
