-------------------------- MODULE MCAdministration --------------------------
EXTENDS Administration, TLC

CONSTANTS a, b, c, g1, g2

Two == {a, b}
GestureSymmetry == Permutations({g1, g2})
=============================================================================
