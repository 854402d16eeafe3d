----------------------------- MODULE MCRowRange -----------------------------
(***************************************************************************)
(* Three threads sharing row_ranges over at most two value_holders.        *)
(***************************************************************************)
EXTENDS RowRange

CONSTANTS t1, t2, t3, h1, h2, h3

MCThreads == {t1, t2, t3}
MCHolders == {h1, h2}

MCMaxSize == 2

=============================================================================
