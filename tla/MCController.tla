---------------------------- MODULE MCController ----------------------------
\* Small instances of the controller for TLC.
EXTENDS Controller, TLC

CONSTANTS i1, i2, a, b

Symmetry == Permutations({i1, i2}) \cup Permutations({a, b})
=============================================================================
