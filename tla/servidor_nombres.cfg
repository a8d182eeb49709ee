SPECIFICATION Spec
CONSTANTS
    u1 = u1
    u2 = u2
    f1 = f1
    f2 = f2
    d1 = d1
    a1 = a1
    a2 = a2
    t1 = t1
    t2 = t2
    Users <- MCUsers
    Files <- MCFiles
    Descrs <- MCDescrs
    Addrs <- MCAddrs
    NoAddr = NoAddr
    Threads <- Hilos2
    Nobody = Nobody
    Peticiones <- Todas
    Basura <- BasuraMC
    Finales <- SoloQuedan
    RpcFalla = FALSE
    NoArgs = NoArgs
    NoPeticion = NoPeticion
    Guardados <- StoresUnicos
    MaxInicial = 1
INVARIANT UniqueNames
