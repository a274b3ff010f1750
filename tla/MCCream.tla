------------------------------ MODULE MCCream ------------------------------
(* Two workers, three connections, two descriptors, a map of one slot.       *)
EXTENDS Cream
CONSTANTS w1, w2, m, k1, k2

MCWorkers == {w1, w2}
MCFDs == {4, 5}
MCKeys == {k1, k2}
MCHome == [k \in MCKeys |-> 0]
MCRequests == [code : {"PUT"}, fit : {"fits"}, key : MCKeys]
              \cup [code : {"GET", "EVICT", "CLEAR"}, fit : {"fits"}, key : {k1}]
              \cup [code : {"PUT"}, fit : {"small"}, key : {k1}]
              \cup [code : {"other"}, fit : {"fits", "big"}, key : {k1}]

Whole(r) == [req |-> r, sent |-> "all", end |-> "eof"]
Cut(r, s, e) == [req |-> r, sent |-> s, end |-> e]
PutK1 == [code |-> "PUT", fit |-> "fits", key |-> k1]
MCArrivals == {Whole(r) : r \in MCRequests}
              \cup {Cut(PutK1, "header", e) : e \in {"eof", "reset"}}
              \cup {Cut(PutK1, "nothing", e) : e \in {"eof", "reset", "silent"}}
=============================================================================
