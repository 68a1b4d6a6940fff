SPECIFICATION ConfSpec
CONSTANTS
    s1 = s1
    p1 = p1
    c1 = c1
    c2 = c2
    None = None
    Slots = {s1}
    Physical = {}
    Calls = {c1, c2}
    UseMps = {FALSE}
    OneAtATime = {"release", "enable", "disable"}
    Failures = {}
INVARIANT
    EnabledMpsRuns
