------------------------------ MODULE MCDubfl ------------------------------
(***************************************************************************)
(* Dubfl for TLC: two files of different sizes and one shorter than a      *)
(* sector, a name that is not found.                                       *)
(***************************************************************************)
EXTENDS Dubfl, TLC

MCFile  == {"one", "two", "short"}
MCNames == MCFile \cup {"missing", ""}
MCSize  == "one" :> 1 @@ "two" :> 2 @@ "short" :> 0
=============================================================================
