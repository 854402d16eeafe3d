\* The four vectors of tests 1 to 3, every split of the six comparisons
\* into at most three partitions, and every interleaving of their tasks.
\* The call ends once the partitions are joined; a schedule on which it
\* does not is a Termination violation, so deadlock is not checked.
CONSTANTS
    N <- MCN
    MaxChunks <- MCMaxChunks
SPECIFICATION FairSpec
INVARIANTS
    TypeOK
    ReturnsTestIndex
PROPERTY Termination
CHECK_DEADLOCK FALSE
