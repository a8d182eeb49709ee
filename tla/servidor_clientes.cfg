SPECIFICATION FairSpec
CONSTANTS
    u1 = u1
    u2 = u2
    f1 = f1
    f2 = f2
    d1 = d1
    a1 = a1
    a2 = a2
    t1 = t1
    t2 = t2
    Users <- MCUsers
    Files <- MCFiles
    Descrs <- MCDescrs
    Addrs <- MCAddrs
    NoAddr = NoAddr
    Threads <- Hilos2
    Nobody = Nobody
    Peticiones <- Algunas
    Basura <- BasuraMC
    Finales <- Finalizan
    RpcFalla = TRUE
    NoArgs = NoArgs
    NoPeticion = NoPeticion
    Guardados <- UnDos
    MaxInicial = 1
INVARIANTS
    MutexOwner
PROPERTIES
    ClientAnswered
    ImplementsDirectorio
