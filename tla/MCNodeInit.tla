----------------------------- MODULE MCNodeInit -----------------------------
(* Model values for TLC.  What init generates is new each time, so nodes   *)
(* are interchangeable.                                                    *)
EXTENDS NodeInit, TLC

Symmetry == Permutations(Nodes)

=============================================================================
