CONSTANTS
    p1 = p1
    p2 = p2
    r1 = r1
    r2 = r2
    x = x
    y = y
    Posters = {p1, p2}
    Readers = {r1, r2}
    Sessions = {x, y}
    MaxPosts = 2
    Limit = 2
    MaxFailures = 1
    MaxRestarts = 1
SPECIFICATION DashSpec
PROPERTIES
    ShownStepsForward
    ViewCatchesUp
CHECK_DEADLOCK FALSE
