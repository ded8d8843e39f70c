---------------------------- MODULE MCCallTable ----------------------------
(***************************************************************************)
(* CallTable for TLC: one text of each kind that the call tells apart.     *)
(***************************************************************************)
EXTENDS CallTable, TLC

MCEmpty == [base |-> "dec", digit |-> 0, negative |-> FALSE]
MCText == {[base |-> "oct", digit |-> 7, negative |-> FALSE],     \* "017"
           [base |-> "hex", digit |-> 15, negative |-> TRUE],     \* "0xFFFFFFFF"
           [base |-> "none", digit |-> 7, negative |-> FALSE]}    \* "z77"

CallerSymmetry == Permutations(Caller)
=============================================================================
