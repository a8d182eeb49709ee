SPECIFICATION FairSpec
CONSTANTS
    a = a
    b = b
    c = c
    Nul = Nul
    Nl = Nl
    Nada = Nada
    Bytes <- MCBytes
    Altos <- MCAltos
    Textos <- MCTextos
    Protocolos <- MCProtocolos
    N = 3
    Hueco = 3
INVARIANTS
    TypeOK
PROPERTIES
    ImplementsLineas
    EverythingArrives
