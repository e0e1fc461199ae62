\* One call, a daemon that goes down and up, every fault of a connection.
CONSTANTS
    Timeout = 3
    MaxChunks = 1
    MaxFlips = 2
    Replies = {"good", "garbled", "misshapen"}
SPECIFICATION Spec
\* The call ends.
CHECK_DEADLOCK FALSE
INVARIANTS
    TwiceTheTimeout
    OneMissIsHidden
PROPERTY
    SettlesOnce
