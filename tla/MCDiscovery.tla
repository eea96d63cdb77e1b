----------------------------- MODULE MCDiscovery -----------------------------
\* Model-checking instance of Discovery.
EXTENDS Discovery, TLC

CONSTANTS d1, d2

Symmetry == Permutations(Device)
===============================================================================
