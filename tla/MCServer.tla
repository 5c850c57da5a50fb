------------------------------ MODULE MCServer ------------------------------
(***************************************************************************)
(* Server for TLC.  Requests are interchangeable, configurations too.      *)
(***************************************************************************)
EXTENDS Server, TLC

Interchangeable == Permutations(Requests) \cup Permutations(Configs)

=============================================================================
