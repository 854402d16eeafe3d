\* Three localities of one image, two co-arrays in turn under distinct names,
\* every image step weakly fair.  The program ends once every image has
\* returned; a schedule on which some image waits forever (in connect_to or
\* sync_all) is a violation of Termination, so deadlock is not checked
\* separately.
CONSTANTS
    NumLocalities = 3
    ImagesPerLocality = 1
    Rounds = 2
    AUTO = AUTO
    a = a
    b = b
    Shapes <- MCShapes
    NameOf <- DistinctNames
SPECIFICATION FairSpec
PROPERTY Termination
CHECK_DEADLOCK FALSE
