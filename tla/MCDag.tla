-------------------------------- MODULE MCDag ---------------------------------
EXTENDS Dag, TLC

NameSymmetry == Permutations(Names)
===============================================================================
