CONSTANTS
    AddrSpace = 24
    RamSize = 8
    BlockSize = 2
    Granule = 2
    AllocBase = 2
    ByteBase = 2
    RegBytes = 2
    Images <- MCImages
    Addresses <- MCAddresses
    AllocSizes <- MCAllocSizes
    AccessSizes <- MCAccessSizes
    BulkSizes <- MCBulkSizes
    StoreValues <- MCStoreValues
SPECIFICATION Spec
CHECK_DEADLOCK FALSE
INVARIANT AccessInsideRam
