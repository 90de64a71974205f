SPECIFICATION Spec
CONSTANTS
    Width = 2
    Height = 2
    MaskBit = 1
    FillAlign = 2
    Words <- SomeWords
    PaintColor = 0
    Corners <- SomeCorners
    Sizes <- SomeSizes
    Opaque <- SomeOpaque
    DrawArea <- WholeVram
    MaxDelta <- ThreeByThree
    MaxPolyline = 3
    MaxUnread = 1
INVARIANTS
    PacketsAreRead
    UploadIsExact
    ShapesAreWhole
PROPERTIES
    RoundTrip
