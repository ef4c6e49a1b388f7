SPECIFICATION CameraSpec
CONSTANTS
    Sizes = {1, 2}
    Pictures = {"p1"}
INVARIANT PictureHeapKept
CHECK_DEADLOCK FALSE
