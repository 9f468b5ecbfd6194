---------------------------- MODULE MCTsHashTable ----------------------------
(***************************************************************************)
(* Model-checking instance of TsHashTable.  All keys share a chain of the  *)
(* table of two, k1 leaves it when the table grows to four, and k2 and k3  *)
(* have the same hash and never part.                                      *)
(***************************************************************************)
EXTENDS TsHashTable, TLC

CONSTANTS k1, k2, k3

MCKeys == {k1, k2, k3}
MCHash == k1 :> 4 @@ k2 :> 6 @@ k3 :> 6

=============================================================================
