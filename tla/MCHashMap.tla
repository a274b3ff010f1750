----------------------------- MODULE MCHashMap -----------------------------
(* A map of two slots, three keys of which two share a home, two writers and *)
(* two readers.                                                              *)
EXTENDS HashMap
CONSTANTS w1, w2, g1, g2, k1, k2, k3, a1, b1, c1

MCWriters == {w1, w2}
MCGetters == {g1, g2}
MCKeys == {k1, k2, k3}
MCValuesOf == [k \in MCKeys |-> CASE k = k1 -> {a1}
                                  [] k = k2 -> {b1}
                                  [] k = k3 -> {c1}]
MCHome == [k \in MCKeys |-> IF k = k3 THEN 1 ELSE 0]
MCHomeOne == [k \in MCKeys |-> 0]
=============================================================================
