SPECIFICATION Desktop
CONSTANTS
    MAX_WIDTH = 2
    MAX_HEIGHT = 2
    MAX_FRAME_BYTES = 8
    MAX_FACES = 2
    MAX_TIMEOUT_MS = 2
    YUNET_MINIMUM_RUNTIME_DIMENSION = 2
    YUNET_TOP_K = 3
    Word = 16
    Requests <- HeadersAndGeometries
    Byte = {0, 90}
    Detections <- FewRows
    None = None
    c1 = c1
    c2 = c2
INVARIANT
    CommittedReadable
CHECK_DEADLOCK FALSE
