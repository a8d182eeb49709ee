SPECIFICATION FairSpec
CONSTANTS
    MaxConns = 5
    ThidSize = 5
INVARIANTS
    TypeOK
    OwnConnection
    NoLostWakeup
PROPERTIES
    ScNotOverwritten
    EveryConnectionServed
    MainReturnsToAccept
