\* Two localities of two images, two co-arrays in turn under the same name.
\* An image 0 that fails with NameConflict stops, and the images waiting in
\* sync_all for it then wait forever: the model may stop there, so deadlock
\* is not checked here (ConnectedToOwnVector is the run about that schedule).
CONSTANTS
    NumLocalities = 2
    ImagesPerLocality = 2
    Rounds = 2
    AUTO = AUTO
    a = a
    b = b
    Shapes <- MCShapes
    NameOf <- SameName
SPECIFICATION Spec
INVARIANTS
    TypeOK
    AutoAccessIsLocal
CHECK_DEADLOCK FALSE
