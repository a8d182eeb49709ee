--------------------------- MODULE Comunicaciones ---------------------------
(***************************************************************************)
(* One direction of a connection, byte by byte: the end that sends texts   *)
(* with sendMessage (communications.c) or sendall (client.py), TCP, and    *)
(* the end that reads each with readLine (communications.c), readString or *)
(* readString_binary (client.py).                                          *)
(*                                                                         *)
(* A read that a signal interrupts is made again by readLine: no step.     *)
(***************************************************************************)
EXTENDS Integers, Sequences

CONSTANTS
    Bytes,      \* what texts are made of
    Nul, Nl,    \* the bytes '\0' and '\n'
    Altos,      \* the bytes above 127
    Textos,     \* the texts to send
    Protocolos, \* sequences of the functions that read a text each
    Nada,       \* the buffer of readLine keeps what it held
    N,          \* the size of the buffer readLine is given
    Hueco       \* bound: the bytes the two sockets can hold

ASSUME ComunicacionesAssumption ==
    /\ N \in Nat \ {0}
    /\ Hueco \in Nat \ {0}
    /\ {Nul, Nl} \subseteq Bytes
    /\ Altos \subseteq Bytes \ {Nul, Nl}
    /\ Textos \subseteq Seq(Bytes)
    /\ Protocolos \subseteq Seq({"readLine", "readString", "readString_binary"})
    /\ Nada \notin Seq(Bytes)
    \* readString_binary reads to the end of the connection.
    /\ \A l \in Protocolos : \A k \in 1 .. Len(l) - 1 : l[k] # "readString_binary"

VARIABLES
    lectores,  \* the functions that read the texts, in their order
    enviados,  \* the texts whose sending has begun
    resta,     \* the bytes of the last one still to be written: buffer and l
    emisor,    \* the sending end
    red,       \* the bytes under way
    fin,       \* how the sending end has closed the connection
    buf,       \* what the current call has stored
    lector,    \* the reading end
    recibidos  \* what the calls have returned

emite == <<enviados, resta, emisor>>
lee == <<buf, lector, recibidos>>
vars == <<lectores, enviados, resta, emisor, red, fin, buf, lector, recibidos>>

Init ==
    /\ lectores \in Protocolos
    /\ enviados = <<>> /\ resta = <<>> /\ emisor = "activo"
    /\ red = <<>> /\ fin = "no"
    /\ buf = <<>> /\ lector = "lee" /\ recibidos = <<>>

-----------------------------------------------------------------------------
(* The end that sends.                                                     *)

\* A text that is read with readString_binary has no terminator: the end of
\* the connection is its end.  readLine takes '\n' for one too.
Terminadores(f) ==
    CASE f = "readLine" -> {<<Nul>>, <<Nl>>}
      [] f = "readString" -> {<<Nul>>}
      [] OTHER -> {<<>>}

\* Texts that hold no byte their reader stops at.
Envios(f) ==
    IF f = "readString_binary" THEN Textos
    ELSE {x \in Textos : \A i \in 1 .. Len(x) : x[i] \notin {Nul, Nl}}

Empieza ==
    /\ emisor = "activo"
    /\ resta = <<>>
    /\ Len(enviados) < Len(lectores)
    /\ LET f == lectores[Len(enviados) + 1] IN
       \E x \in Envios(f), t \in Terminadores(f) :
          /\ enviados' = Append(enviados, x)
          /\ resta' = x \o t
    /\ UNCHANGED <<lectores, emisor, red, fin, lee>>

\* Defective variants: buffer is not moved; a short write is not continued.
QuedaElPrincipio(s, r) == SubSeq(s, 1, Len(s) - r)
NoQuedaNada(s, r) == <<>>

\* What is left to write after write has taken r bytes.
Queda(s, r) == SubSeq(s, r + 1, Len(s))

\* write takes as many bytes as there is room for, or fewer; it may do so for
\* some time after the other end has left.
Escribe ==
    /\ emisor = "activo"
    /\ \E r \in 1 .. Len(resta) :
          /\ Len(red) + r <= Hueco
          /\ red' = red \o SubSeq(resta, 1, r)
          /\ resta' = Queda(resta, r)
    /\ UNCHANGED <<lectores, enviados, emisor, fin, lee>>

\* The other end has left: write fails, and sendMessage with it.
EscribeFalla ==
    /\ emisor = "activo"
    /\ resta # <<>>
    /\ lector = "fuera"
    /\ emisor' = "error"
    /\ UNCHANGED <<lectores, enviados, resta, red, fin, lee>>

Cierra ==
    /\ emisor \in {"activo", "error"}
    /\ emisor = "activo" => resta = <<>> /\ Len(enviados) = Len(lectores)
    /\ emisor' = "cerrado"
    /\ fin' = "fin"
    /\ UNCHANGED <<lectores, enviados, resta, red, lee>>

\* The process ends.  What it has written still arrives, or the connection is
\* reset and it does not.
Muere ==
    /\ emisor = "activo"
    /\ emisor' = "muerto"
    /\ fin' \in {"fin", "rst"}
    /\ red' = IF fin' = "rst" THEN <<>> ELSE red
    /\ UNCHANGED <<lectores, enviados, resta, lee>>

-----------------------------------------------------------------------------
(* The end that reads.                                                     *)

Turno == Len(recibidos) + 1

\* The function that is called now, until the texts are all there.
Llamada(f) ==
    /\ lector = "lee"
    /\ Turno <= Len(lectores)
    /\ lectores[Turno] = f

Retorna(x) ==
    /\ recibidos' = Append(recibidos, x)
    /\ buf' = <<>>

\* Defective variant: the limit leaves no place for the last '\0'.
CabeUnoMas(f) == f # "readLine" \/ Len(buf) < N

\* totRead counts what has been stored, and no other byte.
Cabe(f) == f # "readLine" \/ Len(buf) < N - 1

AcabaLinea(b) == b \in {Nul, Nl}
AcabaCadena(b) == b = Nul

Acaba(f, b) ==
    \/ f = "readLine" /\ AcabaLinea(b)
    \/ f = "readString" /\ AcabaCadena(b)

\* readString decodes each byte by itself, and only ASCII can be.
Descifra(f, b) == f = "readString" => b \notin Altos

\* One byte is read: it ends the text, it is stored, or there is no room for it.
LeeByte(f) ==
    /\ Llamada(f)
    /\ red # <<>>
    /\ Descifra(f, Head(red))
    /\ red' = Tail(red)
    /\ \/ Acaba(f, Head(red)) /\ Retorna(buf)
       \/ /\ ~Acaba(f, Head(red))
          /\ buf' = IF Cabe(f) THEN Append(buf, Head(red)) ELSE buf
          /\ UNCHANGED recibidos
    /\ UNCHANGED <<lectores, emite, fin, lector>>

\* readLine returns 0 at the end of the connection when it has no byte, and
\* otherwise what it has, as if it were a line.
Final(f) == f = "readLine" /\ buf = <<>>

LeeFinal(f) ==
    /\ Llamada(f)
    /\ red = <<>> /\ fin = "fin"
    /\ IF f = "readString"
       THEN lector' = "gira" /\ UNCHANGED <<buf, recibidos>>
       ELSE Retorna(IF Final(f) THEN Nada ELSE buf) /\ UNCHANGED lector
    /\ UNCHANGED <<lectores, emite, red, fin>>

\* decode raises, and readString with it.
NoDescifra(f) ==
    /\ Llamada(f)
    /\ red # <<>>
    /\ ~Descifra(f, Head(red))
    /\ red' = Tail(red)
    /\ lector' = "error"
    /\ UNCHANGED <<lectores, emite, fin, buf, recibidos>>

\* read returns -1, recv raises.
LeeError(f) ==
    /\ Llamada(f)
    /\ fin = "rst"
    /\ lector' = "error"
    /\ UNCHANGED <<lectores, emite, red, fin, buf, recibidos>>

\* The process ends, or closes the connection after an error.
Deja ==
    /\ lector \in {"lee", "error"}
    /\ lector' = "fuera"
    /\ UNCHANGED <<lectores, emite, red, fin, buf, recibidos>>

-----------------------------------------------------------------------------
Emisor == Empieza \/ Escribe \/ EscribeFalla \/ Cierra

Lector ==
    \E f \in {"readLine", "readString", "readString_binary"} :
        LeeByte(f) \/ NoDescifra(f) \/ LeeFinal(f) \/ LeeError(f)

\* Both ends are done, or the reader goes round at the end of the connection.
Quieto ==
    /\ emisor \in {"cerrado", "muerto"}
    /\ lector # "lee" \/ Turno > Len(lectores)
    /\ UNCHANGED vars

Next == Emisor \/ Lector \/ Muere \/ Deja \/ Quieto

Spec == Init /\ [][Next]_vars

FairSpec == Spec /\ WF_vars(Emisor) /\ WF_vars(Lector)

-----------------------------------------------------------------------------
(* Properties                                                              *)

\* Type correctness of the locals of sendMessage and readLine (communications.c
\* 102-119, 145-195), and the bounds of the buffers: readLine stores at most
\* N - 1 bytes before its '\0', however long the line.
TypeOK ==
    /\ lectores \in Protocolos
    /\ enviados \in Seq(Textos) /\ Len(enviados) <= Len(lectores)
    /\ resta \in Seq(Bytes) /\ red \in Seq(Bytes) /\ Len(red) <= Hueco
    /\ emisor \in {"activo", "error", "cerrado", "muerto"}
    /\ fin \in {"no", "fin", "rst"}
    /\ lector \in {"lee", "gira", "error", "fuera"}
    /\ buf \in Seq(Bytes)
    /\ Turno <= Len(lectores) /\ lectores[Turno] = "readLine" => Len(buf) < N
    /\ recibidos \in Seq(Seq(Bytes) \cup {Nada}) /\ Len(recibidos) <= Len(lectores)

Texto == INSTANCE Lineas WITH
    lineas <- {k \in DOMAIN lectores : lectores[k] = "readLine"},
    vivo <- emisor # "muerto"

\* The number, the order and the contents of the texts survive short writes,
\* full sockets and lines longer than the buffer; a sender that is killed
\* cuts the text it is sending and no other, and the reader, to whom a text
\* that is cut looks whole, finds nothing after it (communications.c 107-116,
\* 161-194; client.py 695-717).
ImplementsLineas == Texto!Spec

\* A text that readString cannot read.
Indescifrable(k) ==
    lectores[k] = "readString" /\ \E i \in 1 .. Len(enviados[k]) : enviados[k][i] \in Altos

\* When neither end is killed every text is read to its end, through sockets of
\* any size (communications.c 107-116, 161-191): nobody waits for ever, and no
\* reader gives up, unless readString is sent a text that is not ASCII, at which
\* it raises (client.py 701).
EverythingArrives ==
    <>(\/ emisor = "muerto" \/ lector = "fuera" \/ Len(recibidos) = Len(lectores)
       \/ \E k \in 1 .. Len(enviados) : Indescifrable(k))
=============================================================================
