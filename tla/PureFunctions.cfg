\* get_unrolled_localities on every call with at most 3 localities, 9
\* segments and an unroll of 4 (partial last blocks, more blocks than
\* localities, unroll = 0); hash on keys of 0 .. 25 bytes under two seeds;
\* up to three base counters reporting 0 .. 2 with scalings 0, 1 and 2,
\* direct and inverse, the add and multiply counters compared;
\* heat_part on partitions of width 0 .. 5.
CONSTANT OpsChecked = {"add", "multiply"}
SPECIFICATION Spec
INVARIANTS
    UnrolledLayoutIsBlockCyclic
    MatchesReference
    AggregateMeaning
    HeatPartInBoundsExactlyWhenWide
