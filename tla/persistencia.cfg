SPECIFICATION Spec
CONSTANTS
    u1 = u1
    u2 = u2
    f1 = f1
    f2 = f2
    d1 = d1
    a1 = a1
    main = main
    t1 = t1
    Users <- MCUsers
    Files <- MCFiles
    Descrs <- MCDescrs
    Addrs <- MCAddrs
    NoAddr = NoAddr
    Hilos <- MCHilos
    Principal = main
    Nadie = Nadie
    Cero = Cero
    MaxInicial = 1
    Guardados <- Ficheros
    MaxCambios = 2
    MaxVidas = 2
INVARIANTS
    TypeOK
    BlockFits
    MemoryRight
    SomewhereWhole
    OthersSurviveInterruption
PROPERTIES
    ImplementsPerdurable
    StoreStaysSound
