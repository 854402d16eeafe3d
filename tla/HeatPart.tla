------------------------------ MODULE HeatPart ------------------------------
(***************************************************************************)
(* The index arithmetic of stepper::heat_part (dataflow_replay.cpp): which *)
(* element of which vector every statement of heat_part reads or writes.   *)
(* The values computed are left out; the question is whether every access  *)
(* stays inside its vector.                                                *)
(*                                                                         *)
(* The three inputs are partitions of one width w: partition_data(w, ...)  *)
(* holds w + 1 values, and heat_part's results are resized to size + 1     *)
(* with size = center_input.size() - 1 = w.  The workspace holds 3 size + 1 *)
(* values.  Every index is a std::size_t: a difference below zero wraps to *)
(* a value near 2^64, which the model keeps as a negative number (out of   *)
(* every vector).  A loop for (i = 0; i != n; ++i) whose n wrapped runs    *)
(* past the end of every vector; the model takes its first Unbounded(size) *)
(* iterations, enough to leave every vector.                               *)
(***************************************************************************)
EXTENDS Integers

\* More iterations than any vector of a heat_part call has elements.
Unbounded(size) == 3 * size + 3

\* The i of for (std::size_t i = 0; i != n; ++i).
LoopRange(size, n) == IF n >= 0 THEN 0 .. n - 1 ELSE 0 .. Unbounded(size)

\* The length of every vector: the inputs and the workspace.
Length(size) == [left |-> size + 1, center |-> size + 1, right |-> size + 1,
                 workspace |-> 3 * size + 1]

\* The accesses of one stencil(a[x], a[x + 1], a[x + 2]) into workspace[j].
Stencil3(v, x, j) == {<<v, x>>, <<v, x + 1>>, <<v, x + 2>>, <<"workspace", j>>}

\* for (i = 0; i != size - 2; ++i, ++j) over left_input, j from 0.
LeftLoop(size) == UNION {Stencil3("left", i, i) : i \in LoopRange(size, size - 2)}

\* The two stencils across the left seam, at j = size - 2 and j + 1.
LeftSeam(size) ==
    {<<"left", size - 2>>, <<"left", size - 1>>, <<"center", 0>>, <<"center", 1>>,
     <<"workspace", size - 2>>, <<"workspace", size - 1>>}

\* The same loop over center_input, j from size.
CenterLoop(size) ==
    UNION {Stencil3("center", i, size + i) : i \in LoopRange(size, size - 2)}

\* The two stencils across the right seam, at j = 2 size - 2 and j + 1.
RightSeam(size) ==
    {<<"center", size - 2>>, <<"center", size - 1>>, <<"right", 0>>, <<"right", 1>>,
     <<"workspace", 2 * size - 2>>, <<"workspace", 2 * size - 1>>}

\* Mutant: the right loop runs to size, like the other two loops' pattern
\* would suggest for a full partition.
RightLoopLong(size) ==
    UNION {Stencil3("right", i, 2 * size + i) : i \in LoopRange(size, size)}

\* for (i = 0; i != size - 1; ++i, ++j) over right_input, j from 2 size.
RightLoop(size) ==
    UNION {Stencil3("right", i, 2 * size + i) : i \in LoopRange(size, size - 1)}

\* The two flux terms before the time loop.
Fluxes(size) ==
    {<<"workspace", 0>>, <<"workspace", 1>>,
     <<"workspace", 3 * size - 1>>, <<"workspace", 3 * size>>}

\* for (t = 1; t != size; ++t): the two fluxes and the in-place sweep
\* for (k = 0; k != 3 size - 1 - 2 t; ++k) over the workspace.
TimeLoop(size) ==
    LET ts == IF size >= 1 THEN 1 .. size - 1 ELSE 1 .. Unbounded(size)
    IN  UNION {{<<"workspace", 0>>, <<"workspace", 1>>,
                <<"workspace", 3 * size - 1 - 2 * t>>, <<"workspace", 3 * size - 2 * t>>}
               \cup UNION {Stencil3("workspace", k, k) :
                              k \in LoopRange(size, 3 * size - 1 - 2 * t)}
               : t \in ts}

\* Every access of heat_part with inputs of width w, in program order; the
\* statements after the first loop run only if that loop ends.
HeatPartAccesses(w) ==
    LET size == w
    IN  LeftLoop(size)
        \cup IF size - 2 >= 0
             THEN LeftSeam(size) \cup CenterLoop(size) \cup RightSeam(size)
                  \cup RightLoop(size) \cup Fluxes(size) \cup TimeLoop(size)
             ELSE {}

InBounds(w) ==
    \A a \in HeatPartAccesses(w) : 0 <= a[2] /\ a[2] < Length(w)[a[1]]

=============================================================================
