------------------------------ MODULE MCCapture ------------------------------
\* One output of up to two rows, on a screen that may be laid out anew.
EXTENDS Capture

CONSTANT o1, w1

MCLayouts == {[height |-> 2, place |-> (o1 :> 0)], [height |-> 3, place |-> (o1 :> 1)]}
=============================================================================
