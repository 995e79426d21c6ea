CONSTANTS
    Stdin <- MCStdin
    StoreValues <- MCStoreValues
    MaxLsrStores = 2
SPECIFICATION Spec
INVARIANT RxMeansUnread
