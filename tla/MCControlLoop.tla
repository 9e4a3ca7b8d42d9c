----------------------------- MODULE MCControlLoop -----------------------------
EXTENDS ControlLoopProperties, TLC
Identical == Permutations(Server)
================================================================================
