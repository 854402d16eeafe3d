-------------------------- MODULE MCIsSortedUntil --------------------------
(***************************************************************************)
(* The tests on vectors of 7 values (10007 in the code): 7 \div 2, 7 \div 3 *)
(* and 2 * 7 \div 3 are distinct inner positions, as they are for 10007,   *)
(* and up to three partitions, so that two tasks can cancel the token in   *)
(* either order.                                                           *)
(***************************************************************************)
EXTENDS IsSortedUntil

MCN == 7
MCMaxChunks == 3

=============================================================================
