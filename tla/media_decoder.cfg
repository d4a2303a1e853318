SPECIFICATION FairSpec
CONSTANTS
    PlanarFormats = {"s16p", "fltp"}
    PackedFormats = {"s16", "flt", "u8"}
    PictureFormats = {"rgb24", "yuv420p", "gray8", "nv12"}
    RefusedFormats = {"u8", "nv12"}
    Align = 2
    Files <- SomeFiles
    FormatLists <- SomeFormatLists
INVARIANTS
    WholeFile
    TotalIsDelivered
    DetectorHearsFrame
PROPERTIES
    SourceSpec
CHECK_DEADLOCK FALSE
