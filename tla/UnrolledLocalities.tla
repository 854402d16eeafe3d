------------------------ MODULE UnrolledLocalities ------------------------
(***************************************************************************)
(* coarray<T, N>::get_unrolled_localities (coarray.hpp): the locality of   *)
(* each of the num_segments partitions of the partitioned_vector a         *)
(* co-array is built on.  The loop fills out in blocks of unroll entries,  *)
(* each block with the locality the cursor i points at, and the cursor     *)
(* wraps to the first locality after the last.  Localities are named by    *)
(* their position 0 .. numLocalities - 1 in find_all_localities().         *)
(***************************************************************************)
EXTENDS Integers

\* A default-constructed hpx::id_type, the initial content of out.
NoLocality == -1

\* The result of a call whose loop does not terminate: a function no layout
\* equals, as its domain is not an interval 0 .. n - 1.
Diverged == [k \in {-1} |-> NoLocality]

\* A terminating loop runs at most numSegments iterations (unroll >= 1);
\* one more iteration than that means o never reaches o_end.
LoopBound(numSegments) == numSegments + 1

MinOf(a, b) == IF a < b THEN a ELSE b

\* Mutant: the cursor test is (++i != i_end - 1), so it wraps one early and
\* the last locality never receives a block.
RECURSIVE FillWrapEarly(_, _, _, _, _, _, _)
FillWrapEarly(out, numSegments, numLocalities, o, i, unroll, fuel) ==
    IF o >= numSegments THEN out
    ELSE IF fuel = 0 THEN Diverged
    ELSE FillWrapEarly(
           [k \in DOMAIN out |->
              IF o <= k /\ k < MinOf(o + unroll, numSegments) THEN i ELSE out[k]],
           numSegments, numLocalities, o + unroll,
           IF i + 1 # numLocalities - 1 THEN i + 1 ELSE 0, unroll, fuel - 1)

\* The for loop: while o < o_end, std::fill [o, min(o + unroll, o_end)) with
\* *i, advance o by unroll and i by one, wrapping to i_begin at i_end.
RECURSIVE Fill(_, _, _, _, _, _, _)
Fill(out, numSegments, numLocalities, o, i, unroll, fuel) ==
    IF o >= numSegments THEN out
    ELSE IF fuel = 0 THEN Diverged
    ELSE Fill(
           [k \in DOMAIN out |->
              IF o <= k /\ k < MinOf(o + unroll, numSegments) THEN i ELSE out[k]],
           numSegments, numLocalities, o + unroll,
           IF i + 1 # numLocalities THEN i + 1 ELSE 0, unroll, fuel - 1)

\* get_unrolled_localities(in, num_segments, unroll) with |in| = numLocalities.
GetUnrolledLocalities(numLocalities, numSegments, unroll) ==
    Fill([k \in 0 .. numSegments - 1 |-> NoLocality],
         numSegments, numLocalities, 0, 0, unroll, LoopBound(numSegments))

\* Reference: block-cyclic distribution, block k \div unroll on locality
\* (k \div unroll) mod numLocalities.
BlockCyclic(numLocalities, numSegments, unroll) ==
    [k \in 0 .. numSegments - 1 |-> (k \div unroll) % numLocalities]

=============================================================================
