---------------------------- MODULE MCApplyPath ----------------------------
(* Model-checking instances of ApplyPath. *)
EXTENDS ApplyPath, TLC

Symmetry == Permutations(Sessions)

\* A bound: a read meets changes of the leadership, writes meet those, changes
\* of membership and an installed snapshot, in behaviours of their own.
\* (MCReplicas has the reads that meet a change of membership.)
WritesOrReads ==
    used'.reads > 0
    => used'.proposals = 0 /\ used'.confs = 0 /\ used'.installs = 0
=============================================================================
