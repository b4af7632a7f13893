------------------------------ MODULE MCReplica ------------------------------
\* The mirrors model-checked: the positions of the tract are interchangeable.
EXTENDS Replica, TLC

Symmetry == Permutations(Pos)
=============================================================================
