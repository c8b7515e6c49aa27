------------------------------- MODULE MCLive -------------------------------
(* Values for TLC: two listeners of one device and one of another.         *)
EXTENDS Live, TLC

CONSTANTS d1, d2, s1, s2, s3

MCListens == (s1 :> d1) @@ (s2 :> d1) @@ (s3 :> d2)
=============================================================================
