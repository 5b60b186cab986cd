\* Two pages of two bytes: shrink_ringbuffer cannot leave a gap in a
\* buffer this small, so a departure from the byte queue comes from
\* read_ringbuffer.
CONSTANTS
    PageSize = 2
    MaxPages = 2
    MaxChunk = 3
    MaxToken = 6
SPECIFICATION Spec
\* shrink_ringbuffer's abort() stops the process
CHECK_DEADLOCK FALSE
PROPERTY FifoRefinement
