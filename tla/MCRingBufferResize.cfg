\* Four pages of two bytes, enough for whole free pages between tail and
\* head while the data wraps.
CONSTANTS
    PageSize = 2
    MaxPages = 4
    MaxChunk = 4
    MaxToken = 9
SPECIFICATION Spec
\* shrink_ringbuffer's abort() stops the process
CHECK_DEADLOCK FALSE
PROPERTY ResizeKeepsContents
