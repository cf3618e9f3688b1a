SPECIFICATION Spec
CONSTANTS
    Requests <- MCRequests
    Purses <- MCPurses
    LaterPurses <- MCLaterPurses
    Holdings <- MCHoldings
    Offers <- MCOffers
    Reserve = 7000
    MundoFee = 10
    BridgeFee = 100
    MaxBridge = 5000
    MaxRefreshes = 1
INVARIANT TypeOK
INVARIANT FeeFits
 
INVARIANT RetriesSettle
INVARIANT Completable
CHECK_DEADLOCK FALSE
