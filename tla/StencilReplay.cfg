\* Four partitions (inputs up to two partitions away stay pending after a
\* signal), six time steps, a window of nd = 2 (a continuation only every
\* other step) and two attempts per task, so that retries, exhausted replays
\* and failure propagation all occur; the fairness of the HPX scheduler.
\* The program really stops (hpx_main returns), so a stuck sem->wait is
\* caught by Termination rather than by the deadlock check.
CONSTANTS
    Subdomains = 4
    Iterations = 6
    ND = 2
    NValue = 2
SPECIFICATION FairSpec
INVARIANTS
    TypeOK
    TreeDepthBounded
    NoLostWakeup
    FailureCone
PROPERTY Termination
CHECK_DEADLOCK FALSE
