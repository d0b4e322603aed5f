CONSTANTS
    Banks = {0, 1}
    Rows = {0, 1}
    Cols = {0, 1}
    Addresses <- MCAddresses
    NoRequest = NoRequest
    Closed = Closed
    PowerUpClocks = 12
    RefreshClocks = 24
SPECIFICATION FairSpec
INVARIANTS
    BanksClosedFirst
    CommandsSpaced
    NoRefreshSkipped
    OneDriver
PROPERTIES
    ImplementsPort
    Served
