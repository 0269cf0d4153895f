\* Every two of some fifty facts, under seven documents; no scan lists more than one.
SPECIFICATION Spec
CONSTANTS
    Facts <- MCFacts
    Documents <- MCDocuments
    Cycles = {89, 363, 376, 530, 787}
    MaxFacts = 2
    MaxIntegrityChecks = 1
    MaxRegions = 1
    MaxThreads = 1
    MaxMaps = 1
    Digests = {"good", "bad"}
    None = none
INVARIANT InForceIsTheFile
INVARIANT KnownBadIsReported
INVARIANT CodeChangesKick
PROPERTY WorseIsNotMilder
