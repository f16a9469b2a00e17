CONSTANTS
    up = up
    down = down
    v1 = v1
    v2 = v2
    Keys = {up, down}
    Loading = Loading
    NoView = NoView
    NoEvent = NoEvent
    Held = {up}
    QueueLen = 1
    MaxPresses = 2
    Views = {v1, v2}
    Rotated = {v2}
    Turn <- MCTurn
    Flipped = TRUE
    LeftHand <- MCTurn
    Hands = {FALSE}
    AppQueueLen = 1
    MaxChanges = 2
SPECIFICATION FairSpec
CHECK_DEADLOCK FALSE
INVARIANTS
    KeysOwnRelease
    ViewsGetRelease
PROPERTIES
    ExitEnds
