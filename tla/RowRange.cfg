\* Three threads, two holders, vectors of at most two values: three threads
\* can release one holder concurrently, load() can replace a shared holder,
\* and slices can start past 0 and end before the end of v_.  The release
\* step is weakly fair (the two steps of intrusive_ptr_release are one
\* noexcept call).  No symmetry: the liveness and refinement checks need
\* the full state graph.
CONSTANTS
    t1 = t1  t2 = t2  t3 = t3
    h1 = h1  h2 = h2  h3 = h3
    NoHolder = NoHolder
    Threads <- MCThreads
    Holders <- MCHolders
    MaxSize <- MCMaxSize
SPECIFICATION FairSpec
INVARIANTS
    TypeOK
    DeletedOnce
    NoUseAfterFree
    SliceInBounds
PROPERTIES
    RefinesSharedOwnership
    NoLeak
