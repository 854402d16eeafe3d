------------------------------ MODULE MCCoarray ------------------------------
(***************************************************************************)
(* Instances of the co-array model.  Names are model values; a shape is a  *)
(* cosizes list whose last entry is _ (coarray_sizes' static_assert).      *)
(***************************************************************************)
EXTENDS Coarray

CONSTANTS a, b     \* co-array names

\* Rank 1, rank 2 with a fixed extent below and above num_images, rank 2
\* with two automatic sizes, and an empty extent.
MCShapes == {<<AUTO>>, <<2, AUTO>>, <<AUTO, AUTO>>, <<0, AUTO>>}

\* The shapes with no empty extent, in which every subscript the caller
\* writes can be in range.
NonEmptyShapes == {<<AUTO>>, <<2, AUTO>>, <<AUTO, AUTO>>}

\* Each round uses its own name.
DistinctNames == [r \in 1 .. Rounds |-> IF r = 1 THEN a ELSE b]

\* Every round reuses the same name.
SameName == [r \in 1 .. Rounds |-> a]

=============================================================================
