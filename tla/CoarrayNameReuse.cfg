\* Two co-arrays in turn under the same name, one image per locality.
CONSTANTS
    NumLocalities = 2
    ImagesPerLocality = 1
    Rounds = 2
    AUTO = AUTO
    a = a
    b = b
    Shapes <- MCShapes
    NameOf <- SameName
SPECIFICATION Spec
INVARIANT ConnectedToOwnVector
CHECK_DEADLOCK FALSE
