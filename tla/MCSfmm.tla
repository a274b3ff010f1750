------------------------------- MODULE MCSfmm -------------------------------
(* Three pages of ten words.                                                 *)
EXTENDS Sfmm

MCListMax == <<6, 8, 9, 64>>
MCSizes == {0, 2, 3, 8, 12}
MCFills == {Data, Zero}
=============================================================================
