---------------------------- MODULE MCSessionSync ----------------------------
EXTENDS SessionSync, TLC

CONSTANTS k1, k2

\* Two properties of the tree.
MCKeys == {k1, k2}

Scalar(keys) == [keys |-> keys, scalar |-> TRUE, priority |-> 0]

\* Scalar updates of either key and a structural change.
MCKinds == {Scalar({k1}), Scalar({k2}), [keys |-> {k1}, scalar |-> FALSE, priority |-> 0]}
=============================================================================
