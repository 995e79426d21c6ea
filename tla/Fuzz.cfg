CONSTANTS
    f1 = f1
    f2 = f2
    target = target
    Corpus <- MCCorpus
    Target <- target
    SegSizes <- MCSegSizes
    Contents <- MCContents
    Byte = {0, 2}
    Rands = {0}
    MaxMutations = 3
    Runs = 3
SPECIFICATION LiveSpec
CHECK_DEADLOCK FALSE
INVARIANTS HistoryUndoes OneRunPerFile
PROPERTIES DispatchEnds
