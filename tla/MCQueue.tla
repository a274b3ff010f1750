------------------------------ MODULE MCQueue ------------------------------
(* Queue with two producers, two consumers and one thread that invalidates. *)
EXTENDS Queue
CONSTANTS p1, p2, c1, c2, k1, i1, i2

MCProducers == {p1, p2}
MCConsumers == {c1, c2}
MCClosers == {k1}
MCItems == {i1, i2}
=============================================================================
