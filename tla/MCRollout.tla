----------------------------- MODULE MCRollout -----------------------------
(***************************************************************************)
(* ConfigRollout for TLC: with two pods, an old and a new one, or two of   *)
(* one generation, overlap; with two pages, one overtakes the other.       *)
(***************************************************************************)
EXTENDS ConfigRollout

CONSTANTS p1, p2, a1, a2

=============================================================================
