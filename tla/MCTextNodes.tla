---------------------------- MODULE MCTextNodes ----------------------------
(***************************************************************************)
(* Two open files, of one process or two.                                  *)
(***************************************************************************)
EXTENDS TextNodes, TLC
CONSTANTS c1, c2
Files == Permutations({c1, c2})
=============================================================================
