SPECIFICATION FairSpec
CONSTANTS
    c1 = c1
    c2 = c2
    u1 = u1
    u2 = u2
    f1 = f1
    n1 = n1
    d1 = d1
    p1 = p1
    p2 = p2
    Clientes <- MCClientes
    Users <- MCUsers
    Files <- MCFiles
    Descrs <- MCDescrs
    Addrs <- MCAddrs
    NoAddr = NoAddr
    NoUser = NoUser
    NoName = NoName
    End = End
    Raros <- MCRaros
    NoOrden = NoOrden
    NoPar = NoPar
    Ordenes <- MCOrdenes
    Guardados <- MCGuardados
    MaxSucesos = 4
    MaxFallos = 2
INVARIANTS
    TypeOK
    SessionAgrees
    OneSession
    NoOrphanListener
    RightPeer
    WaitersAreServed
PROPERTIES
    CommandEnds
