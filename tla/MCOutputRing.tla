----------------------------- MODULE MCOutputRing -----------------------------
\* OutputRing on a small instance.
EXTENDS OutputRing, TLC

PumpSymmetry == Permutations(Pumps)
===============================================================================
