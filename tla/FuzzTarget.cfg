CONSTANTS
    f1 = f1
    f2 = f2
    target = target
    Corpus <- MCCorpus
    Target <- target
    SegSizes <- MCSegSizes
    Contents <- MCContents
    Byte = {0, 1, 2}
    Rands = {0, 1}
    MaxMutations = 3
    Runs = 2
SPECIFICATION Spec
CHECK_DEADLOCK FALSE
INVARIANT TargetIsKept
