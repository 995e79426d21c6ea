CONSTANTS
    AddrSpace = 42
    RamSize = 18
    BlockSize = 8
    Granule = 1
    AllocBase = 1
    ByteBase = 16
    RegBytes = 1
    Images <- MCImages
    Addresses <- MCAddresses
    AllocSizes <- MCAllocSizes
    AccessSizes <- MCAccessSizes
    BulkSizes <- MCBulkSizes
    StoreValues <- MCStoreValues
    ArgLists <- MCArgLists
    ProgName <- MCProgName
    StackSize = 7
    ArgBytes = 2
    StrayBytes = {9}
    HostFiles <- MCHostFiles
    MaxHostFd = 5
    IntSpace = 10
    Fds <- MCFds
    Breaks <- MCBreaks
    Offsets <- MCOffsets
    Counts <- MCCounts
    StatBytes = 1
    MaxSeeks = 1
SPECIFICATION Spec
CHECK_DEADLOCK FALSE
INVARIANTS TypeOK FdsDistinct IndexInFile ReadDelivers
PROPERTIES BrkReturnsBreak ArgvWellFormed FilesAreTable
