SPECIFICATION ProcessSpec
CONSTANTS
    MaxEdge = 4
    MaxPixels = 40
    MaxSide = 13
    MaxDecodeBytes = 700
    ScalerCellBytes = 32
    Sides = {0, 1, 3, 5, 13, 14}
    Lengths <- ShortLengths
    Offsets <- SmallOffsets
    Words <- ShortWords
    Models = {"rgba64", "ycbcr", "unknown"}
    NoImage = NoImage
CHECK_DEADLOCK FALSE
INVARIANTS InBounds Upright Scaled
