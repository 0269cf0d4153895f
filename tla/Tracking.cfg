SPECIFICATION Spec
CONSTANTS
    Pids = {p1}
    Names = {main, other}
    Game = main
    Texts = {t1}
    Regions = {r1}
    Owners = {o1}
    Trusted = {}
    Weight = 35
    Cooldown = 2
    MaxHandles = 2
    MaxGames = 2
    MaxChanges = 2
    MaxMishaps = 1
    DiskFaults = FALSE
    None = none
    Unread = unread
    Garbled = garbled
CHECK_DEADLOCK FALSE
INVARIANT NeverForgiven
PROPERTY LifetimeSinceLastLook
PROPERTY AlertedAgain
