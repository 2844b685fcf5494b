\* Capture loss, retransmission and rejection: stale entries survive.
CONSTANTS
    Subscribers = {a, b}
    Teids = {1, 2}
    MapSize = 2
    Timeout = 1
    MaxTime = 3
    MaxLoss = 1
    MaxRetrans = 1
    Rejects = TRUE
SPECIFICATION Spec
INVARIANT NoWrongImsi
