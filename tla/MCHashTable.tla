---------------------------- MODULE MCHashTable ----------------------------
(* A table of three slots, four keys (two share a home, two are next to each *)
(* other) and a counter that wraps at 5.                                     *)
EXTENDS HashTable
CONSTANTS t1, k1, k2, k3, k4, a1, b1, b2, c1, d1

MCThreads == {t1}
MCKeys == {k1, k2, k3, k4}
MCValuesOf == [k \in MCKeys |-> CASE k = k1 -> {a1}
                                  [] k = k2 -> {b1, b2}
                                  [] k = k3 -> {c1}
                                  [] k = k4 -> {d1}]
MCHome == [k \in MCKeys |-> CASE k = k1 -> 0
                              [] k = k2 -> 0
                              [] k = k3 -> 1
                              [] k = k4 -> 2]
=============================================================================
