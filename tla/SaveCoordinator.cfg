SPECIFICATION Spec
CONSTANTS
    Threads = {t1, t2, t3, t4}
    NoThread = NoThread
    MaxMutations = 2
INVARIANTS SaveExcludesMutations LegacyWorkExcludesNative
PROPERTY SaveEventuallyStarts
