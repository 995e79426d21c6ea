CONSTANTS
    Stdin <- MCStdin
    StoreValues <- MCStoreValues
    MaxLsrStores = 1
    Addresses <- MCAddresses
    Data = {1}
    MaxCellStores = 1
SPECIFICATION BusLiveSpec
INVARIANTS TypeOK TransmitterReady RegistersReadBack
PROPERTIES AckedBeforeOverwrite EveryByteArrives PortIsMailbox
