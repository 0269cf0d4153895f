\* A module and the core's image in a cache for one of them: two files replaced, two calls failed.
SPECIFICATION Spec
CONSTANTS
    Modules = {m1}
    Core = core
    Good = good
    Bad = bad
    Signed = {good}
    Prefix = prefix
    None = none
    MaxAge = 1
    Capacity = 1
    MaxWrites = 2
    MaxFaults = 2
INVARIANTS TypeOK CachedIsCurrent
PROPERTIES AlertMeansChange VerdictsCatchUp
