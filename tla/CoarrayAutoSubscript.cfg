\* One co-array of every shape with no empty extent on two localities of
\* two images.
CONSTANTS
    NumLocalities = 2
    ImagesPerLocality = 2
    Rounds = 1
    AUTO = AUTO
    a = a
    b = b
    Shapes <- NonEmptyShapes
    NameOf <- SameName
SPECIFICATION Spec
INVARIANT AutoSubscriptInRange
