\* Every option combination up to 3 futures, 4 chunks and 2 samples; the
\* HPX scheduler's fairness.  The program stops after finalize, so a wait
\* that never returns is a violation of Termination, and deadlock is not
\* checked separately.
CONSTANTS
    MaxTasks <- MCMaxTasks
    MaxChunks <- MCMaxChunks
    MaxSamples <- MCMaxSamples
SPECIFICATION FairSpec
INVARIANTS
    TypeOK
    ChunksOutliveTasks
PROPERTY
    Termination
CHECK_DEADLOCK FALSE
