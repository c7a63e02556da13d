----------------------------- MODULE MCHistory -----------------------------
(* The clock of device b is two changes ahead of that of device a.         *)
EXTENDS History, TLC

CONSTANTS a, b

MCSkew == (a :> 0) @@ (b :> 2)
=============================================================================
