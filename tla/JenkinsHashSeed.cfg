\* Two objects constructed, reset, set and swapped with sizes 1, 3, 2^31 and
\* 2^31 + 1.
CONSTANTS
    o1 = o1  o2 = o2
    NoBound = NoBound
    Objects <- MCObjects
    Sizes <- MCSizes
    Seedvals <- MCSeedvals
    Samples <- MCSamples
SPECIFICATION Spec
INVARIANT SeedWithinSize
