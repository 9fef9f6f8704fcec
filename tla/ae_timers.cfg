SPECIFICATION Spec
CONSTANTS
    Tps = 2
    Nap = 2
    Intervals = {0, 3}
    Start = 8
    Jumps <- BackAndForth
    MaxJumps = 1
    MaxTimers = 3
    MaxReal = 5
INVARIANTS
    TimersTypeOK
    NoTimerLost
    OncePerRound
    DelayBounded
PROPERTIES
    DeletedNeverRuns
    WalkGoesDown
    NeverEarly
