--------------------------- MODULE ClienteProofs ---------------------------
(***************************************************************************)
(* The clients, for any number of them and any commands.  While no name is *)
(* registered twice the server answers them as the directory of module     *)
(* Respuestas, and then no two terminals are connected as one user; while  *)
(* nothing fails either, each shell agrees with the server and get_file    *)
(* reads from the user it asked for.  Whatever fails, no listening thread  *)
(* outlives the connection of its user, nobody waits for somebody who      *)
(* waits for him, and no connection is lost.                               *)
(***************************************************************************)
EXTENDS Cliente, AlmacenProofs

\* A step of client c, of its threads, or of the server for it.
Avanza(c) ==
    \/ Ordena(c) \/ Sale(c) \/ Shell(c) \/ Oyente(c) \/ Sirve(c)
    \/ Calla(c) \/ Muere(c)

\* The places where a command is in progress.
EnCurso == {"espera", "servida", "llama", "dice", "oye", "une"}

\* What is used of a request.
EsOrden(o) ==
    /\ o.op \in Operaciones /\ o.user \in Users /\ o.addr \in Addrs
    /\ o.file \in Files /\ o.descr \in Descrs

\* What is known of a command in progress.
OrdenInv ==
    /\ sh \in [Clientes -> {"libre", "espera", "servida", "muda", "gira", "llama", "dice",
                            "oye", "une", "sale", "fuera", "huerfana"}]
    /\ usuario \in [Clientes -> Users \cup {NoUser}]
    /\ oyente \in [Clientes -> {"no", "arranca", "acepta", "lee", "gira", "muerto", "fin"}]
    /\ DOMAIN orden = Clientes /\ DOMAIN codigo = Clientes
    /\ \A c \in Clientes : sh[c] \in EnCurso \cup {"huerfana"} => EsOrden(orden[c])
    /\ \A c \in Clientes : sh[c] \in EnCurso =>
          /\ orden[c].op = "disconnect" => orden[c].user = usuario[c]
          /\ orden[c].op = "connect" => usuario[c] = NoUser
    /\ \A c \in Clientes : sh[c] \in {"llama", "dice"} =>
          orden[c].op \in {"disconnect", "get_file"}

\* The store is sound, and the directory it makes up has one entry for each
\* user as long as no name has been registered twice.
AlmacenInv ==
    /\ Solido(almacen)
    /\ "repetida" \notin averias => NombresUnicos(almacen)

dir == DirectorioDe(almacen)

\* A client without a user has no thread, wherever its shell is.
OyenteInv == \A c \in Clientes : usuario[c] = NoUser => ~Activo(c)

\* Client c has sent a disconnect that the server has served.
DeBaja(c) ==
    /\ orden[c].op = "disconnect"
    /\ sh[c] \in {"llama", "dice", "une"} \/ (sh[c] = "servida" /\ codigo[c].code = 0)

\* The server has user u connected for client c.
Tiene(c, u) ==
    \/ usuario[c] = u /\ ~DeBaja(c)
    \/ /\ sh[c] = "servida" /\ codigo[c].code = 0
       /\ orden[c].op = "connect" /\ orden[c].user = u

Conectado(u) == u \in DOMAIN dir /\ dir[u].addr # NoAddr

ListaDir(u, a) == u \in DOMAIN dir /\ dir[u].addr = a

\* None of the failures after which the server and a client may disagree.
SinAverias == averias \cap {"caida", "repetida", "despedida", "muerta"} = {}

SesionInv ==
    /\ "caida" \notin averias => roto = {}
    /\ \A c \in Clientes : sh[c] = "huerfana" => "muerta" \in averias
    /\ SinAverias =>
          \A c \in Clientes, u \in Users :
              Tiene(c, u) => Conectado(u) /\ \A d \in Clientes \ {c} : ~Tiene(d, u)

\* Nothing has gone wrong but threads of the server that do not answer.
SinFallos == averias \subseteq {"muda"}

\* A socket, its thread and its queue.
HiloInv ==
    /\ \A c \in Clientes : oyente[c] = "arranca" => zocalo[c] = "ligado"
    /\ \A c \in Clientes : oyente[c] \in {"acepta", "lee", "gira"} => zocalo[c] = "escucha"
    /\ \A c \in Clientes :
          zocalo[c] = "escucha" => oyente[c] \in {"acepta", "lee", "gira", "muerto"}
    /\ \A c \in Clientes : oyente[c] = "muerto" => "oyente" \in averias
    /\ \A c \in Clientes : zocalo[c] # "escucha" => cola[c] = <<>>

\* No two open sockets are on one port.
PuertoInv ==
    \A c \in Clientes : Abierto(c) =>
        puerto[c] \in Addrs /\ \A e \in Clientes \ {c} : Abierto(e) => puerto[e] # puerto[c]

\* What a command has done so far, and which command it can be.
PasoInv ==
    /\ \A c \in Clientes : sh[c] \in {"espera", "servida"} /\ orden[c].op = "connect" =>
          zocalo[c] = "ligado" /\ oyente[c] = "no" /\ puerto[c] = orden[c].addr
    /\ \A c \in Clientes : sh[c] = "une" => orden[c].op = "disconnect"
    /\ \A c \in Clientes : sh[c] = "oye" => orden[c].op = "get_file"

TomaInv == HiloInv /\ PuertoInv /\ PasoInv

\* The places of a shell that has a connection to another client.
Conversando == {"dice", "oye", "une"}

\* The thread of e has the connection of x still to serve.
Cita(e, x) == InCola(e, x) \/ (oyente[e] = "lee" /\ atiende[e] = x)

\* A connection is waiting or served at the client it was made to, once, until
\* something can be read from it, and that client is still on the port it was
\* called at; a thread ends by the disconnect of its own client only.
CitaInv ==
    /\ \A e, x \in Clientes :
          Cita(e, x) <=> sh[x] \in Conversando /\ par[x] = e /\ eco[x] = "nada"
    /\ \A e \in Clientes : \A j, k \in 1 .. Len(cola[e]) : cola[e][j] = cola[e][k] => j = k
    /\ \A e \in Clientes : oyente[e] = "lee" => ~InCola(e, atiende[e])
    /\ \A c \in Clientes : sh[c] \in Conversando => par[c] \in Clientes
    /\ \A c \in Clientes : sh[c] \in Conversando /\ eco[c] = "nada" =>
          puerto[par[c]] = Destino(c)
    /\ \A c \in Clientes : sh[c] \notin Conversando \cup {"gira"} => eco[c] = "nada"
    /\ \A c \in Clientes : sh[c] \notin {"oye", "une", "gira"} => dicho[c] = NoName
    /\ \A c \in Clientes :
          sh[c] \in {"dice", "une"} /\ orden[c].op = "disconnect" => par[c] = c
    /\ \A c \in Clientes : usuario[c] # NoUser =>
          Activo(c) \/ (sh[c] = "une" /\ oyente[c] = "fin")

\* Whoever the server has connected for a client is listed at its port, and
\* nobody else is.
AcuerdoInv ==
    /\ \A c \in Clientes, u \in Users : Tiene(c, u) => ListaDir(u, puerto[c])
    /\ \A u \in DOMAIN dir : dir[u].addr # NoAddr => \E c \in Clientes : Tiene(c, u)

IInv ==
    /\ TypeOK /\ AlmacenInv /\ OrdenInv /\ OyenteInv /\ SesionInv /\ TomaInv
    /\ SinFallos => CitaInv /\ AcuerdoInv

-----------------------------------------------------------------------------
(* The places of a shell and the state of its thread.                      *)

\* The command of one client ends, and the orders of the others stay.
LEMMA DejaOrden ==
    ASSUME OrdenInv, NEW c \in Clientes, NEW lugar \in {"libre", "sale"}, Deja(c, lugar)
    PROVE  /\ sh' = [sh EXCEPT ![c] = lugar]
           /\ DOMAIN orden' = Clientes /\ DOMAIN codigo' = Clientes
           /\ \A d \in Clientes \ {c} : orden'[d] = orden[d] /\ codigo'[d] = codigo[d]
BY DEF OrdenInv, Deja

LEMMA DevuelveOrden ==
    ASSUME OrdenInv, NEW c \in Clientes, Devuelve(c) \/ Lanza(c)
    PROVE  /\ sh' \in {[sh EXCEPT ![c] = "libre"], [sh EXCEPT ![c] = "sale"]}
           /\ DOMAIN orden' = Clientes /\ DOMAIN codigo' = Clientes
           /\ \A d \in Clientes \ {c} : orden'[d] = orden[d] /\ codigo'[d] = codigo[d]
<1>1. PICK lugar \in {"libre", "sale"} : Deja(c, lugar)
    BY DEF Devuelve, Lanza
<1> QED
    BY <1>1, DejaOrden

LEMMA OrdenStep ==
    ASSUME OrdenInv, OyenteInv, NEW c \in Clientes, Avanza(c)
    PROVE  OrdenInv' /\ OyenteInv'
<1> USE ClienteAssumption DEF ClienteAssumption, OrdenInv, OyenteInv, EnCurso, Activo, Pasa,
        servidor, tomas, escucha, entre
<1>1. ASSUME Ordena(c) PROVE OrdenInv' /\ OyenteInv'
  <2>1. PICK o \in Ordenes :
          /\ Admite(c, o) /\ Liga(c, o, o.addr)
          /\ orden' = [orden EXCEPT ![c] = Enviada(c, o)]
      BY <1>1 DEF Ordena
  <2>2. EsOrden(o) /\ {"op", "user", "addr"} \subseteq DOMAIN o
      BY DEF Orden, EsOrden
  <2>3. /\ EsOrden(Enviada(c, o)) /\ Enviada(c, o).op = o.op
        /\ o.op = "disconnect" => Enviada(c, o).user = usuario[c]
        /\ o.op = "connect" => usuario[c] = NoUser
      BY <2>1, <2>2 DEF Enviada, Admite, EsOrden, ConSesion
  <2>4. oyente' = oyente \/ oyente' = [oyente EXCEPT ![c] = "no"]
      BY <2>1 DEF Liga
  <2> QED
      BY <1>1, <2>1, <2>3, <2>4 DEF Ordena
<1>2. ASSUME Sale(c) \/ Acaba(c) \/ Calla(c) \/ Gira(c) \/ OyeNada(c) \/ Dice(c) \/ Llama(c)
      PROVE  OrdenInv' /\ OyenteInv'
    BY <1>2 DEF Sale, Acaba, Calla, Gira, OyeNada, Dice, Llama
<1>3. ASSUME Excepcion(c) \/ LlamaFalla(c) \/ Oye(c) \/ OyeFalla(c)
      PROVE  OrdenInv' /\ OyenteInv'
  <2>1. Devuelve(c) \/ Lanza(c)
      BY <1>3 DEF Excepcion, LlamaFalla, Oye, OyeFalla
  <2>2. UNCHANGED <<usuario, oyente>>
      BY <1>3 DEF Excepcion, LlamaFalla, Oye, OyeFalla
  <2> QED
      BY <2>1, <2>2, DevuelveOrden
<1>4. ASSUME Recibe(c) PROVE OrdenInv' /\ OyenteInv'
  <2>1. CASE RecibeConnect(c)
    <3>1. orden[c].user \in Users
        BY <1>4 DEF Recibe, EsOrden
    <3>2. Devuelve(c)
        BY <2>1 DEF RecibeConnect
    <3> QED
        BY <2>1, <3>1, <3>2, DevuelveOrden DEF RecibeConnect
  <2>2. CASE /\ Pasa(c, "llama") /\ orden[c].op \in {"disconnect", "get_file"}
             /\ UNCHANGED <<usuario, oyente>>
      BY <1>4, <2>2 DEF Recibe
  <2>3. CASE Devuelve(c) /\ UNCHANGED <<usuario, oyente>>
      BY <2>3, DevuelveOrden
  <2> QED
      BY <1>4, <2>1, <2>2, <2>3 DEF Recibe
<1>5. ASSUME Une(c) PROVE OrdenInv' /\ OyenteInv'
    BY <1>5, DevuelveOrden DEF Une, HaTerminado
<1>6. ASSUME Sirve(c) PROVE OrdenInv' /\ OyenteInv'
    BY <1>6 DEF Sirve
<1>7. ASSUME Muere(c) PROVE OrdenInv' /\ OyenteInv'
    BY <1>7 DEF Muere
<1>8. ASSUME Oyente(c) PROVE OrdenInv' /\ OyenteInv'
  <2>1. UNCHANGED <<sh, usuario, orden, codigo>>
      BY <1>8 DEF Oyente, OyenteEscucha, OyenteAcepta, OyenteTermina, OyenteContesta,
                  OyenteContestaANadie, OyenteNoDescifra, OyenteLeeNada, Lee
  <2>2. Activo(c) /\ \E x \in {"acepta", "lee", "gira", "muerto", "fin"} :
                        oyente' = [oyente EXCEPT ![c] = x]
      BY <1>8 DEF Oyente, OyenteEscucha, OyenteAcepta, OyenteTermina, OyenteContesta,
                  OyenteContestaANadie, OyenteNoDescifra, OyenteLeeNada, Lee
  <2> QED
      BY <2>1, <2>2
<1> QED
    BY <1>1, <1>2, <1>3, <1>4, <1>5, <1>6, <1>7, <1>8 DEF Avanza, Shell

-----------------------------------------------------------------------------
(* Whose session it is.                                                    *)

\* What the server has for the client of a step is all that has to be looked at.
LEMMA SesionIgual ==
    ASSUME OrdenInv, SesionInv, NEW c \in Clientes,
           almacen' = almacen, roto' \subseteq roto, averias \subseteq averias',
           \A d \in Clientes \ {c} :
               /\ sh'[d] = sh[d] /\ orden'[d] = orden[d]
               /\ codigo'[d] = codigo[d] /\ usuario'[d] = usuario[d],
           sh'[c] = "huerfana" => sh[c] = "huerfana" \/ "muerta" \in averias',
           SinAverias' => \A u \in Users : Tiene(c, u)' => Tiene(c, u)
    PROVE  SesionInv'
<1>0. dir' = dir
    BY DEF dir
<1>1. SinAverias' => SinAverias
    BY DEF SinAverias
<1>2. \A d \in Clientes \ {c}, u \in Users : Tiene(d, u)' <=> Tiene(d, u)
    BY DEF Tiene, DeBaja
<1>3. ASSUME SinAverias', NEW d \in Clientes, NEW u \in Users, Tiene(d, u)'
      PROVE  Conectado(u)' /\ \A e \in Clientes \ {d} : ~Tiene(e, u)'
  <2>1. Tiene(d, u)
      BY <1>2, <1>3
  <2>2. Conectado(u) /\ \A e \in Clientes \ {d} : ~Tiene(e, u)
      BY <1>1, <1>3, <2>1 DEF SesionInv
  <2> QED
      BY <1>0, <1>2, <1>3, <2>2 DEF Conectado
<1> QED
    BY <1>3 DEF SesionInv

\* A command that does not end a disconnect leaves the session as it is.
LEMMA TieneIgual ==
    ASSUME NEW c \in Clientes, NEW u \in Users, usuario'[c] = usuario[c], ~DeBaja(c),
           sh'[c] # "servida", Tiene(c, u)'
    PROVE  Tiene(c, u)
BY DEF Tiene, DeBaja

LEMMA SesionSinServir ==
    ASSUME OrdenInv, SesionInv, NEW c \in Clientes, Avanza(c), ~Sirve(c)
    PROVE  SesionInv'
<1> USE DEF OrdenInv, EnCurso, Pasa, servidor, tomas, escucha, entre
<1>1. ASSUME Ordena(c) PROVE SesionInv'
  <2>1. ~DeBaja(c) /\ sh'[c] = "espera" /\ usuario' = usuario
      BY <1>1 DEF Ordena, DeBaja
  <2>2. \A u \in Users : Tiene(c, u)' => Tiene(c, u)
      BY <2>1, TieneIgual
  <2> QED
      BY <1>1, <2>1, <2>2, SesionIgual DEF Ordena
<1>2. ASSUME Sale(c) \/ Acaba(c) \/ Calla(c) PROVE SesionInv'
  <2>1. ~DeBaja(c) /\ sh'[c] \notin {"servida", "huerfana"} /\ usuario' = usuario
      BY <1>2 DEF Sale, Acaba, Calla, DeBaja
  <2>2. \A u \in Users : Tiene(c, u)' => Tiene(c, u)
      BY <2>1, TieneIgual
  <2> QED
      BY <1>2, <2>1, <2>2, SesionIgual DEF Sale, Acaba, Calla
<1>3. ASSUME Gira(c) \/ Excepcion(c) PROVE SesionInv'
  <2>1. ~SinAverias' /\ sh'[c] # "huerfana"
      BY <1>3, DevuelveOrden DEF Gira, Excepcion, SesionInv, SinAverias
  <2>2. CASE Gira(c)
      BY <2>1, <2>2, SesionIgual DEF Gira
  <2>3. CASE Excepcion(c)
      BY <2>1, <2>3, SesionIgual, DevuelveOrden DEF Excepcion
  <2> QED
      BY <1>3, <2>2, <2>3
<1>4. ASSUME Recibe(c) PROVE SesionInv'
  <2>1. CASE RecibeConnect(c) /\ codigo[c].code = 0 /\ orden[c].op = "connect"
    <3>1. Devuelve(c) /\ usuario' = [usuario EXCEPT ![c] = orden[c].user]
        BY <2>1 DEF RecibeConnect
    <3>2. \A u \in Users : Tiene(c, u)' => Tiene(c, u)
        BY <1>4, <2>1, <3>1, DevuelveOrden DEF Tiene, Recibe
    <3> QED
        BY <1>4, <3>1, <3>2, DevuelveOrden, SesionIgual DEF Recibe
  <2>2. CASE /\ Pasa(c, "llama") /\ UNCHANGED <<usuario, escucha, entre>>
             /\ codigo[c].code = 0 /\ orden[c].op \in {"disconnect", "get_file"}
    <3>1. \A u \in Users : Tiene(c, u)' => Tiene(c, u)
        BY <1>4, <2>2 DEF Tiene, DeBaja, Recibe
    <3> QED
        BY <1>4, <2>2, <3>1, SesionIgual DEF Recibe
  <2>3. CASE /\ Devuelve(c) /\ UNCHANGED <<usuario, escucha, cola>>
             /\ codigo[c].code # 0 \/ orden[c].op \notin {"connect", "disconnect", "get_file"}
    <3>1. ~DeBaja(c)
        BY <1>4, <2>3 DEF DeBaja, Recibe
    <3>2. \A u \in Users : Tiene(c, u)' => Tiene(c, u)
        BY <2>3, <3>1, TieneIgual, DevuelveOrden
    <3> QED
        BY <1>4, <2>3, <3>2, DevuelveOrden, SesionIgual DEF Recibe
  <2> QED
      BY <1>4, <2>1, <2>2, <2>3 DEF Recibe
<1>5. ASSUME Llama(c) \/ Dice(c) PROVE SesionInv'
  <2>1. \A u \in Users : Tiene(c, u)' => Tiene(c, u)
      BY <1>5 DEF Llama, Dice, Tiene, DeBaja
  <2> QED
      BY <1>5, <2>1, SesionIgual DEF Llama, Dice
<1>6. ASSUME LlamaFalla(c) \/ OyeFalla(c) PROVE SesionInv'
  <2>1. Lanza(c) /\ averias' = Despedida(c) /\ UNCHANGED <<servidor, usuario>>
      BY <1>6 DEF LlamaFalla, OyeFalla
  <2>2. SinAverias' => ~DeBaja(c)
      BY <2>1 DEF SinAverias, Despedida, DeBaja
  <2>3. SinAverias' => \A u \in Users : Tiene(c, u)' => Tiene(c, u)
      BY <2>1, <2>2, TieneIgual, DevuelveOrden
  <2> QED
      BY <2>1, <2>3, DevuelveOrden, SesionIgual DEF Despedida
<1>7. ASSUME Oye(c) \/ OyeNada(c) PROVE SesionInv'
  <2>1. ~DeBaja(c)
      BY <1>7 DEF Oye, OyeNada, DeBaja
  <2>2. CASE Oye(c)
    <3>1. \A u \in Users : Tiene(c, u)' => Tiene(c, u)
        BY <2>1, <2>2, TieneIgual, DevuelveOrden DEF Oye
    <3> QED
        BY <2>2, <3>1, DevuelveOrden, SesionIgual DEF Oye
  <2>3. CASE OyeNada(c)
    <3>1. \A u \in Users : Tiene(c, u)' => Tiene(c, u)
        BY <2>1, <2>3, TieneIgual DEF OyeNada
    <3> QED
        BY <2>3, <3>1, SesionIgual DEF OyeNada
  <2> QED
      BY <1>7, <2>2, <2>3
<1>8. ASSUME Une(c) PROVE SesionInv'
  <2>1. \A u \in Users : ~Tiene(c, u)'
      BY <1>8, DevuelveOrden, ClienteAssumption DEF Une, Tiene, ClienteAssumption
  <2> QED
      BY <1>8, <2>1, DevuelveOrden, SesionIgual DEF Une
<1>9. ASSUME Muere(c) PROVE SesionInv'
  <2>1. ~SinAverias' /\ "muerta" \in averias'
      BY <1>9 DEF Muere, SinAverias
  <2> QED
      BY <1>9, <2>1, SesionIgual DEF Muere
<1>10. ASSUME Oyente(c) PROVE SesionInv'
  <2>1. UNCHANGED <<almacen, roto, sh, usuario, orden, codigo>> /\ averias \subseteq averias'
      BY <1>10 DEF Oyente, OyenteEscucha, OyenteAcepta, OyenteTermina, OyenteContesta,
                  OyenteContestaANadie, OyenteNoDescifra, OyenteLeeNada, Lee
  <2>2. \A u \in Users : Tiene(c, u)' => Tiene(c, u)
      BY <2>1 DEF Tiene, DeBaja
  <2> QED
      BY <2>1, <2>2, SesionIgual
<1> QED
    BY <1>1, <1>2, <1>3, <1>4, <1>5, <1>6, <1>7, <1>8, <1>9, <1>10 DEF Avanza, Shell

-----------------------------------------------------------------------------
(* The store of the server, and the directory it makes up.                 *)

\* What has gone wrong is never forgotten.
LEMMA AveriasCrecen ==
    ASSUME NEW c \in Clientes, Avanza(c)
    PROVE  averias \subseteq averias'
BY DEF Avanza, Ordena, Sale, Shell, Acaba, Recibe, Gira, Excepcion, Llama, LlamaFalla, Dice, Oye,
       OyeFalla, OyeNada, Une, Despedida, Oyente, OyenteEscucha, OyenteAcepta, OyenteTermina,
       OyenteContesta, OyenteContestaANadie, OyenteNoDescifra, OyenteLeeNada, Lee, Sirve, Calla, Muere

LEMMA CamposDir ==
    ASSUME AlmacenInv
    PROVE  /\ DOMAIN dir \subseteq Users
           /\ \A u \in DOMAIN dir : DOMAIN dir[u] = {"addr", "files"}
<1>1. \A i \in 1 .. Len(almacen) : almacen[i].cliente \in Users
  <2>1. almacen \in Seq(Tupla)
      BY DEF AlmacenInv, Solido
  <2>2. \A i \in 1 .. Len(almacen) : almacen[i] \in Tupla
      BY ONLY <2>1, ElementOfSeq
  <2> QED
      BY <2>2 DEF Tupla
<1>2. \A t : DOMAIN EntradaDe(t) = {"addr", "files"}
    BY DEF EntradaDe
<1> QED
    BY <1>1, <1>2 DEF dir, DirectorioDe

\* As long as no name is registered twice, the server answers as the directory
\* does and changes it alike; its store is sound anyway.
LEMMA SirvePromete ==
    ASSUME OrdenInv, AlmacenInv, NEW c \in Clientes, Sirve(c)
    PROVE  /\ AlmacenInv'
           /\ "repetida" \notin averias' =>
                 /\ averias' = averias
                 /\ codigo' = [codigo EXCEPT ![c] = R!Answer(dir, orden[c])]
                 /\ dir' = IF R!Code(dir, orden[c]) = 0 THEN R!Effect(dir, orden[c]) ELSE dir
<1> DEFINE r == orden[c]
           a == almacen
<1>1. /\ codigo' = [codigo EXCEPT ![c] = RespuestaA(a, r)]
      /\ almacen' = IF CodigoDe(a, r) = 0 THEN AlmacenTras(a, r) ELSE a
      /\ averias' = IF Repite(a, r) THEN averias \cup {"repetida"} ELSE averias
    BY DEF Sirve
<1>2. Aplicable(r)
    BY DEF Sirve, OrdenInv, EnCurso, EsOrden, Aplicable, Operaciones, R!Operations
<1>3. Solido(almacen')
    BY <1>1, <1>2, SolidoTras DEF AlmacenInv
<1>4. ASSUME "repetida" \notin averias'
      PROVE  /\ averias' = averias /\ NombresUnicos(almacen')
             /\ RespuestaA(a, r) = R!Answer(dir, r)
             /\ dir' = IF R!Code(dir, r) = 0 THEN R!Effect(dir, r) ELSE dir
  <2>1. ~Repite(a, r) /\ averias' = averias /\ Solido(a) /\ NombresUnicos(a)
      BY <1>1, <1>4 DEF AlmacenInv
  <2>2. /\ CodigoDe(a, r) = R!Code(DirectorioDe(a), r)
        /\ RespuestaA(a, r) = R!Answer(DirectorioDe(a), r)
        /\ CodigoDe(a, r) = 0 =>
              /\ DirectorioDe(AlmacenTras(a, r)) = R!Effect(DirectorioDe(a), r)
              /\ NombresUnicos(AlmacenTras(a, r))
    <3> HIDE DEF r, a
    <3> QED
      BY <1>2, <2>1, Prometido
  <2>3. DirectorioDe(almacen') =
            IF R!Code(DirectorioDe(a), r) = 0 THEN R!Effect(DirectorioDe(a), r)
            ELSE DirectorioDe(a)
      BY <1>1, <2>2
  <2> QED
      BY <1>1, <2>1, <2>2, <2>3 DEF dir
<1> QED
    BY <1>1, <1>3, <1>4 DEF AlmacenInv

\* Nobody else touches the store while the server is up.
LEMMA AlmacenStep ==
    ASSUME OrdenInv, AlmacenInv, NEW c \in Clientes, Avanza(c)
    PROVE  AlmacenInv'
<1>1. CASE Sirve(c)
    BY <1>1, SirvePromete
<1>2. CASE ~Sirve(c)
  <2>1. almacen' = almacen
      BY <1>2 DEF Avanza, Ordena, Sale, Shell, Acaba, Recibe, Gira, Excepcion, Llama, LlamaFalla,
             Dice, Oye, OyeFalla, OyeNada, Une, Oyente, OyenteEscucha, OyenteAcepta,
             OyenteTermina, OyenteContesta, OyenteContestaANadie, OyenteNoDescifra,
             OyenteLeeNada, Lee, Calla, Muere, servidor
  <2> QED
      BY <2>1, AveriasCrecen DEF AlmacenInv
<1> QED
    BY <1>1, <1>2

\* What a request does to the connections of the directory.
LEMMA EfectoConexion ==
    ASSUME AlmacenInv, NEW r, EsOrden(r),
           R!Code(dir, r) = 0, dir' = R!Effect(dir, r)
    PROVE  /\ \A u \in Users : Conectado(u) /\ (u = r.user => r.op # "disconnect") => Conectado(u)'
           /\ r.op = "connect" => ~Conectado(r.user) /\ Conectado(r.user)'
<1> USE AlmacenAssumption
        DEF AlmacenAssumption, EsOrden, Operaciones, Conectado, R!Known, R!Online, R!Offers
<1>0. \A u \in DOMAIN dir : DOMAIN dir[u] = {"addr", "files"}
    BY CamposDir
<1>1. CASE r.op = "register"
  <2>1. r.user \notin DOMAIN dir
      BY <1>1 DEF R!Code, R!CodeOf
  <2>2. dir' = R!Put(dir, r.user, [addr |-> NoAddr, files |-> [f \in {} |-> {}]])
      BY <1>1 DEF R!Effect
  <2> QED
      BY <1>1, <2>1, <2>2 DEF R!Put
<1>2. CASE r.op = "unregister"
  <2>1. r.user \in DOMAIN dir /\ ~Conectado(r.user)
      BY <1>2 DEF R!Code, R!CodeOf
  <2>2. dir' = [u \in DOMAIN dir \ {r.user} |-> dir[u]]
      BY <1>2 DEF R!Effect
  <2> QED
      BY <1>2, <2>1, <2>2
<1>3. CASE r.op = "connect"
  <2>1. r.user \in DOMAIN dir /\ ~Conectado(r.user)
      BY <1>3 DEF R!Code, R!CodeOf
  <2>2. dir' = [dir EXCEPT ![r.user].addr = r.addr]
      BY <1>3 DEF R!Effect
  <2> QED
      BY <1>0, <1>3, <2>1, <2>2
<1>4. CASE r.op = "disconnect"
  <2>1. r.user \in DOMAIN dir
      BY <1>4 DEF R!Code, R!CodeOf
  <2>2. dir' = [dir EXCEPT ![r.user].addr = NoAddr]
      BY <1>4 DEF R!Effect
  <2> QED
      BY <1>0, <1>4, <2>1, <2>2
<1>5. CASE r.op = "publish"
  <2>1. r.user \in DOMAIN dir
      BY <1>5 DEF R!Code, R!CodeOf
  <2>2. dir' = [dir EXCEPT ![r.user].files = R!Put(@, r.file, r.descr)]
      BY <1>5 DEF R!Effect
  <2> QED
      BY <1>0, <1>5, <2>1, <2>2
<1>6. CASE r.op = "delete"
  <2>1. r.user \in DOMAIN dir
      BY <1>6 DEF R!Code, R!CodeOf
  <2>2. dir' = [dir EXCEPT ![r.user].files = [f \in DOMAIN @ \ {r.file} |-> @[f]]]
      BY <1>6 DEF R!Effect
  <2> QED
      BY <1>0, <1>6, <2>1, <2>2
<1>7. CASE r.op \in {"list_users", "list_content", "get_file"}
  <2>1. dir' = dir
      BY <1>7 DEF R!Effect
  <2> QED
      BY <1>7, <2>1
<1> QED
    BY <1>1, <1>2, <1>3, <1>4, <1>5, <1>6, <1>7

\* A served connect gives the user to its client, for nobody had it; a served
\* disconnect takes it from its own client; nothing else changes sessions.
LEMMA SesionSirve ==
    ASSUME OrdenInv, AlmacenInv, SesionInv, NEW c \in Clientes, Sirve(c)
    PROVE  SesionInv'
<1> USE DEF OrdenInv, EnCurso, escucha, tomas, entre
<1>1. /\ sh[c] \in {"espera", "huerfana"}
      /\ sh' = [sh EXCEPT ![c] = IF sh[c] = "espera" THEN "servida" ELSE "fuera"]
      /\ \A d \in Clientes \ {c} : codigo'[d] = codigo[d]
      /\ averias \subseteq averias'
      /\ UNCHANGED <<usuario, orden, roto>>
    BY DEF Sirve
<1>2. EsOrden(orden[c])
    BY <1>1
<1>3. \A d \in Clientes \ {c}, u \in Users : Tiene(d, u)' <=> Tiene(d, u)
    BY <1>1 DEF Tiene, DeBaja
<1>4. ASSUME SinAverias', NEW d \in Clientes, NEW u \in Users, Tiene(d, u)'
      PROVE  Conectado(u)' /\ \A e \in Clientes \ {d} : ~Tiene(e, u)'
  <2>1. /\ codigo'[c] = R!Answer(dir, orden[c])
        /\ dir' = IF R!Code(dir, orden[c]) = 0 THEN R!Effect(dir, orden[c]) ELSE dir
      BY <1>4, SirvePromete DEF SinAverias
  <2>2. codigo'[c].code = R!Code(dir, orden[c])
      BY <2>1 DEF R!Answer
  <2>3. /\ \A v \in Users :
            /\ Conectado(v)
            /\ v = orden[c].user => orden[c].op # "disconnect" \/ R!Code(dir, orden[c]) # 0
            => Conectado(v)'
        /\ orden[c].op = "connect" /\ R!Code(dir, orden[c]) = 0
              => ~Conectado(orden[c].user) /\ Conectado(orden[c].user)'
    <3>1. CASE R!Code(dir, orden[c]) = 0
      <4>1. dir' = R!Effect(dir, orden[c])
          BY <2>1, <3>1
      <4>2. AlmacenInv
          OBVIOUS
      <4>3. PICK r : r = orden[c]
          OBVIOUS
      <4>4. r = orden'[c]
          BY <1>1, <4>3
      <4>5. /\ \A v \in Users :
                 Conectado(v) /\ (v = r.user => r.op # "disconnect") => Conectado(v)'
            /\ r.op = "connect" => ~Conectado(r.user) /\ Conectado(r.user)'
        <5>1. EsOrden(r) /\ R!Code(dir, r) = 0 /\ dir' = R!Effect(dir, r)
            BY <1>2, <3>1, <4>1, <4>3
        <5> QED
            BY ONLY <4>2, <5>1, EfectoConexion
      <4>6. r.op = "connect" => Conectado(orden[c].user)'
          BY ONLY <4>4, <4>5 DEF Conectado
      <4> QED
          BY ONLY <3>1, <4>3, <4>5, <4>6
    <3>2. CASE R!Code(dir, orden[c]) # 0
        BY <2>1, <3>2 DEF Conectado
    <3> QED
        BY <3>1, <3>2
  <2>4. sh[c] = "espera" /\ sh'[c] = "servida" /\ SinAverias
      BY <1>1, <1>4 DEF SesionInv, SinAverias
  <2>5. \A e \in Clientes, v \in Users :
            Tiene(e, v) => Conectado(v) /\ \A f \in Clientes \ {e} : ~Tiene(f, v)
      BY <2>4 DEF SesionInv
  <2>6. \A v \in Users : Tiene(c, v) <=> usuario[c] = v
      BY <2>4 DEF Tiene, DeBaja
  <2>7. CASE orden[c].op = "connect" /\ R!Code(dir, orden[c]) = 0
    <3>1. usuario[c] = NoUser
        BY <2>4, <2>7
    <3>2. \A v \in Users : Tiene(c, v)' <=> v = orden[c].user
        BY <1>1, <2>2, <2>4, <2>7, <3>1, ClienteAssumption DEF Tiene, DeBaja, ClienteAssumption
    <3>3. \A e \in Clientes : ~Tiene(e, orden[c].user)
        BY <1>2, <2>3, <2>5, <2>7 DEF EsOrden
    <3>4. CASE d = c
      <4>1. u = orden[c].user
          BY <1>4, <3>2, <3>4 DEF Tiene, DeBaja
      <4>2. Conectado(u)'
          BY <1>1, <2>3, <2>7, <4>1 DEF Conectado
      <4> QED
          BY <1>3, <3>3, <3>4, <4>1, <4>2 DEF Tiene, DeBaja
    <3>5. CASE d # c
      <4>1. Tiene(d, u) /\ u # orden[c].user
          BY <1>3, <1>4, <3>3, <3>5
      <4>2. Conectado(u)' /\ ~Tiene(c, u)'
          BY <2>3, <2>5, <3>2, <4>1
      <4> QED
          BY <1>3, <2>5, <4>1, <4>2
    <3> QED
        BY <3>4, <3>5
  <2>8. CASE orden[c].op = "disconnect" /\ R!Code(dir, orden[c]) = 0
    <3>1. \A v \in Users : ~Tiene(c, v)'
        BY <1>1, <2>2, <2>4, <2>8 DEF Tiene, DeBaja
    <3>2. orden[c].user = usuario[c] /\ Tiene(c, orden[c].user)
        BY <1>2, <2>4, <2>6, <2>8 DEF EsOrden
    <3>3. d # c /\ Tiene(d, u) /\ u # orden[c].user
        BY <1>2, <1>3, <1>4, <2>5, <3>1, <3>2 DEF EsOrden
    <3> QED
        BY <2>3, <1>3, <2>5, <3>1, <3>3
  <2>9. CASE ~(orden[c].op \in {"connect", "disconnect"} /\ R!Code(dir, orden[c]) = 0)
    <3>1. \A v \in Users : Tiene(c, v)' <=> usuario[c] = v
        BY <1>1, <2>2, <2>4, <2>9 DEF Tiene, DeBaja
    <3>2. Tiene(d, u)
        BY <1>3, <1>4, <2>6, <3>1
    <3> QED
        BY <2>3, <1>3, <2>5, <2>6, <2>9, <3>1, <3>2
  <2> QED
      BY <2>7, <2>8, <2>9
<1>5. \A d \in Clientes : sh'[d] = "huerfana" => "muerta" \in averias'
    BY <1>1 DEF SesionInv
<1> QED
    BY <1>1, <1>4, <1>5 DEF SesionInv

-----------------------------------------------------------------------------
(* Type correctness.                                                       *)

\* The attributes of a command that is over.
LEMMA DejaTipo ==
    ASSUME TypeOK, NEW c \in Clientes, Devuelve(c) \/ Lanza(c)
    PROVE  /\ par' \in [Clientes -> Clientes \cup {NoPar}]
           /\ dicho' \in [Clientes -> Files \cup {End, NoName}]
           /\ eco' \in [Clientes -> {"nada", "codigo", "cerrada", "reset"}]
BY DEF TypeOK, Devuelve, Lanza, Deja

\* The queue of a listening socket holds clients.
LEMMA CuelgaTipo ==
    ASSUME TypeOK, NEW c \in Clientes, Cuelga(c)
    PROVE  /\ cola' \in [Clientes -> Seq(Clientes)]
           /\ eco' \in [Clientes -> {"nada", "codigo", "cerrada", "reset"}]
BY DEF TypeOK, Cuelga

LEMMA TipoStep ==
    ASSUME TypeOK, OrdenInv, NEW c \in Clientes, Avanza(c), OrdenInv', AlmacenInv'
    PROVE  TypeOK'
<1> DEFINE Shells == sh' \in [Clientes -> {"libre", "espera", "servida", "muda", "gira",
                          "llama", "dice", "oye", "une", "sale", "fuera", "huerfana"}]
<1>0. /\ Shells
      /\ usuario' \in [Clientes -> Users \cup {NoUser}]
      /\ oyente' \in [Clientes -> {"no", "arranca", "acepta", "lee", "gira", "muerto", "fin"}]
      /\ almacen' \in Seq(Tupla)
    BY DEF OrdenInv, AlmacenInv, Solido
<1> USE <1>0 DEF TypeOK, Pasa, Falla, servidor, tomas, escucha, entre
<1>1. ASSUME Ordena(c) PROVE TypeOK'
  <2>1. PICK o \in Ordenes : Liga(c, o, o.addr)
      BY <1>1 DEF Ordena
  <2>2. o.addr \in Addrs
      BY ClienteAssumption DEF ClienteAssumption, Orden
  <2>3. /\ puerto' \in [Clientes -> Addrs \cup {NoAddr}]
        /\ zocalo' \in [Clientes -> {"no", "ligado", "escucha"}]
        /\ cola' \in [Clientes -> Seq(Clientes)]
        /\ eco' \in [Clientes -> {"nada", "codigo", "cerrada", "reset"}]
    <3>1. CASE o.op = "connect"
      <4>1. /\ puerto' = [puerto EXCEPT ![c] = o.addr]
            /\ zocalo' = [zocalo EXCEPT ![c] = "ligado"]
            /\ Cuelga(c)
          BY <2>1, <3>1 DEF Liga
      <4> QED
          BY <2>2, <4>1, CuelgaTipo
    <3>2. CASE o.op # "connect"
        BY <2>1, <3>2 DEF Liga
    <3> QED
        BY <3>1, <3>2
  <2>4. UNCHANGED <<arriba, almacen, atiende, par, dicho, averias>> /\ roto' \subseteq roto
      BY <1>1 DEF Ordena
  <2> QED
      BY <2>3, <2>4
<1>2. ASSUME Acaba(c) PROVE TypeOK'
    BY <1>2, CuelgaTipo DEF Acaba
<1>3. ASSUME Sale(c) \/ Calla(c) \/ Gira(c) \/ OyeNada(c) PROVE TypeOK'
    BY <1>3 DEF Sale, Calla, Gira, OyeNada
<1>4. ASSUME Sirve(c) PROVE TypeOK'
    BY <1>4 DEF Sirve
<1>5. ASSUME Recibe(c) PROVE TypeOK'
    BY <1>5, DejaTipo DEF Recibe, RecibeConnect
<1>6. ASSUME Excepcion(c) \/ LlamaFalla(c) \/ Oye(c) \/ OyeFalla(c) \/ Une(c) PROVE TypeOK'
  <2>1. Devuelve(c) \/ Lanza(c)
      BY <1>6 DEF Excepcion, LlamaFalla, Oye, OyeFalla, Une
  <2>2. UNCHANGED <<servidor, tomas, atiende, cola>> /\ averias' \in {averias, Despedida(c)}
      BY <1>6 DEF Excepcion, LlamaFalla, Oye, OyeFalla, Une
  <2> QED
      BY <2>1, <2>2, DejaTipo DEF Despedida
<1>7. ASSUME Llama(c) PROVE TypeOK'
    BY <1>7 DEF Llama
<1>8. ASSUME Dice(c) PROVE TypeOK'
  <2>1. Mensaje(c) \in Files \cup {End}
      BY <1>8 DEF Dice, Mensaje, OrdenInv, EnCurso, EsOrden
  <2> QED
      BY <1>8, <2>1 DEF Dice
<1>9. ASSUME Oyente(c) PROVE TypeOK'
  <2>1. ASSUME OyenteEscucha(c) PROVE TypeOK'
      BY <2>1 DEF OyenteEscucha
  <2>2. ASSUME OyenteAcepta(c) PROVE TypeOK'
      BY <2>2 DEF OyenteAcepta
  <2>3. ASSUME NEW d \in Clientes, OyenteTermina(c, d) PROVE TypeOK'
      BY <2>3 DEF OyenteTermina, Lee
  <2>4. ASSUME NEW d \in Clientes, OyenteContesta(c, d) PROVE TypeOK'
      BY <2>4 DEF OyenteContesta, Lee
  <2>5. ASSUME NEW d \in Clientes, OyenteContestaANadie(c, d) PROVE TypeOK'
      BY <2>5 DEF OyenteContestaANadie, Lee
  <2>6. ASSUME NEW d \in Clientes, OyenteLeeNada(c, d) PROVE TypeOK'
      BY <2>6 DEF OyenteLeeNada, Lee
  <2>7. ASSUME NEW d \in Clientes, OyenteNoDescifra(c, d) PROVE TypeOK'
      BY <2>7 DEF OyenteNoDescifra, Lee
  <2> QED
      BY <1>9, <2>1, <2>2, <2>3, <2>4, <2>5, <2>6, <2>7 DEF Oyente
<1>10. ASSUME Muere(c) PROVE TypeOK'
  <2>1. eco' \in [Clientes -> {"nada", "codigo", "cerrada", "reset"}]
      BY <1>10 DEF Muere
  <2> QED
      BY <1>10, <2>1 DEF Muere
<1> QED
    BY <1>1, <1>2, <1>3, <1>4, <1>5, <1>6, <1>7, <1>8, <1>9, <1>10 DEF Avanza, Shell

-----------------------------------------------------------------------------
(* Sockets and ports.                                                      *)

\* A step that opens no socket.
LEMMA PuertoIgual ==
    ASSUME PuertoInv, puerto' = puerto, \A d \in Clientes : Abierto(d)' => Abierto(d)
    PROVE  PuertoInv'
BY DEF PuertoInv

\* The socket and the thread of one client change.
LEMMA HiloUno ==
    ASSUME HiloInv, averias \subseteq averias', NEW c \in Clientes,
           \A d \in Clientes \ {c} :
               oyente'[d] = oyente[d] /\ zocalo'[d] = zocalo[d] /\ cola'[d] = cola[d],
           oyente'[c] = "arranca" => zocalo'[c] = "ligado",
           oyente'[c] \in {"acepta", "lee", "gira"} => zocalo'[c] = "escucha",
           zocalo'[c] = "escucha" => oyente'[c] \in {"acepta", "lee", "gira", "muerto"},
           oyente'[c] = "muerto" => "oyente" \in averias',
           zocalo'[c] # "escucha" => cola'[c] = <<>>
    PROVE  HiloInv'
BY DEF HiloInv

\* A step of a shell that touches no socket.
LEMMA TomaIgual ==
    ASSUME OrdenInv, TomaInv, NEW c \in Clientes,
           UNCHANGED <<zocalo, oyente, puerto, cola>>, averias \subseteq averias',
           \A d \in Clientes \ {c} : sh'[d] = sh[d] /\ orden'[d] = orden[d],
           sh'[c] \in {"espera", "servida"} => sh[c] = "espera" /\ orden' = orden,
           sh'[c] = "une" => orden'[c].op = "disconnect",
           sh'[c] = "oye" => orden'[c].op = "get_file"
    PROVE  TomaInv'
<1>1. HiloInv'
    BY DEF TomaInv, HiloInv
<1>2. PuertoInv'
    BY PuertoIgual DEF TomaInv, Abierto
<1>3. PasoInv'
    BY DEF TomaInv, PasoInv
<1> QED
    BY <1>1, <1>2, <1>3 DEF TomaInv

LEMMA TomaShell ==
    ASSUME TypeOK, OrdenInv, OyenteInv, TomaInv, NEW c \in Clientes, averias \subseteq averias',
           Sale(c) \/ Acaba(c) \/ Recibe(c) \/ Gira(c) \/ Excepcion(c) \/ Llama(c)
             \/ LlamaFalla(c) \/ Dice(c) \/ Oye(c) \/ OyeFalla(c) \/ OyeNada(c) \/ Une(c)
             \/ Sirve(c) \/ Calla(c)
    PROVE  TomaInv'
<1> USE DEF OrdenInv, EnCurso, Pasa, tomas, escucha, entre
<1>0. DOMAIN zocalo = Clientes /\ DOMAIN cola = Clientes
    BY DEF TypeOK
<1>1. ASSUME Sale(c) \/ Gira(c) \/ OyeNada(c) \/ Calla(c) PROVE TomaInv'
  <2>1. sh' \in {[sh EXCEPT ![c] = x] : x \in {"sale", "gira", "muda"}} /\ UNCHANGED orden
      BY <1>1 DEF Sale, Gira, OyeNada, Calla
  <2>2. UNCHANGED <<zocalo, oyente, puerto, cola>>
      BY <1>1 DEF Sale, Gira, OyeNada, Calla
  <2> QED
      BY <2>1, <2>2, TomaIgual
<1>2. ASSUME Excepcion(c) \/ LlamaFalla(c) \/ Oye(c) \/ OyeFalla(c) \/ Une(c) PROVE TomaInv'
  <2>1. Devuelve(c) \/ Lanza(c)
      BY <1>2 DEF Excepcion, LlamaFalla, Oye, OyeFalla, Une
  <2>2. UNCHANGED <<zocalo, oyente, puerto, cola>>
      BY <1>2 DEF Excepcion, LlamaFalla, Oye, OyeFalla, Une
  <2> QED
      BY <2>1, <2>2, DevuelveOrden, TomaIgual
<1>3. ASSUME Acaba(c) PROVE TomaInv'
  <2>1. /\ sh' = [sh EXCEPT ![c] = "fuera"] /\ zocalo' = [zocalo EXCEPT ![c] = "no"]
        /\ cola' = [cola EXCEPT ![c] = <<>>]
        /\ ~Activo(c) /\ UNCHANGED <<oyente, puerto, orden, averias>>
      BY <1>3 DEF Acaba, Cuelga
  <2>2. HiloInv'
      BY <1>0, <2>1, HiloUno DEF TomaInv, HiloInv, Activo
  <2>3. PuertoInv'
      BY <1>0, <2>1, PuertoIgual DEF TomaInv, Abierto
  <2>4. PasoInv'
      BY <1>0, <1>3, <2>1 DEF TomaInv, PasoInv
  <2> QED
      BY <2>2, <2>3, <2>4 DEF TomaInv
<1>4. ASSUME Recibe(c) PROVE TomaInv'
  <2>1. CASE RecibeConnect(c) /\ orden[c].op = "connect"
    <3>1. /\ sh' \in {[sh EXCEPT ![c] = "libre"], [sh EXCEPT ![c] = "sale"]}
          /\ \A d \in Clientes \ {c} : orden'[d] = orden[d]
        BY <2>1, DevuelveOrden DEF RecibeConnect
    <3>2. /\ oyente' = [oyente EXCEPT ![c] = "arranca"]
          /\ zocalo[c] = "ligado" /\ oyente[c] = "no"
          /\ UNCHANGED <<zocalo, puerto, cola, averias>>
        BY <1>4, <2>1 DEF Recibe, RecibeConnect, TomaInv, PasoInv
    <3>3. HiloInv'
        BY <3>2, HiloUno DEF TomaInv, HiloInv
    <3>4. PuertoInv'
        BY <3>2, PuertoIgual DEF TomaInv, Abierto
    <3>5. PasoInv'
        BY <3>1, <3>2 DEF TomaInv, PasoInv
    <3> QED
        BY <3>3, <3>4, <3>5 DEF TomaInv
  <2>2. CASE Pasa(c, "llama") /\ UNCHANGED <<escucha, entre>>
      BY <1>4, <2>2, TomaIgual DEF Recibe
  <2>3. CASE Devuelve(c) /\ UNCHANGED <<escucha, cola>>
      BY <1>4, <2>3, DevuelveOrden, TomaIgual DEF Recibe
  <2> QED
      BY <1>4, <2>1, <2>2, <2>3 DEF Recibe
<1>5. ASSUME Llama(c) PROVE TomaInv'
  <2>1. PICK e \in Clientes : zocalo[e] = "escucha" /\ cola' = [cola EXCEPT ![e] = Append(@, c)]
      BY <1>5 DEF Llama, Alcanza
  <2>2. UNCHANGED <<zocalo, oyente, puerto, averias, orden>> /\ sh' = [sh EXCEPT ![c] = "dice"]
      BY <1>5 DEF Llama
  <2>3. HiloInv'
      BY <1>0, <2>1, <2>2, HiloUno DEF TomaInv, HiloInv
  <2>4. PuertoInv'
      BY <2>2, PuertoIgual DEF TomaInv, Abierto
  <2>5. PasoInv'
      BY <2>2 DEF TomaInv, PasoInv
  <2> QED
      BY <2>3, <2>4, <2>5 DEF TomaInv
<1>6. ASSUME Dice(c) PROVE TomaInv'
    BY <1>6, TomaIgual DEF Dice
<1>7. ASSUME Sirve(c) PROVE TomaInv'
    BY <1>7, TomaIgual DEF Sirve
<1> QED
    BY <1>1, <1>2, <1>3, <1>4, <1>5, <1>6, <1>7

\* connect binds a port that no open socket has.
LEMMA TomaOrdena ==
    ASSUME TypeOK, OrdenInv, TomaInv, NEW c \in Clientes, Ordena(c)
    PROVE  TomaInv'
<1> USE DEF OrdenInv, tomas, escucha, entre
<1>0. DOMAIN zocalo = Clientes /\ DOMAIN cola = Clientes /\ DOMAIN puerto = Clientes
    BY DEF TypeOK
<1>1. PICK o \in Ordenes :
        /\ Liga(c, o, o.addr)
        /\ orden' = [orden EXCEPT ![c] = Enviada(c, o)]
    BY DEF Ordena
<1>2. o.addr \in Addrs /\ Enviada(c, o).op = o.op /\ (o.op = "connect" => Enviada(c, o) = o)
    BY ClienteAssumption DEF ClienteAssumption, Orden, Enviada
<1>3. sh' = [sh EXCEPT ![c] = "espera"] /\ averias' = averias
    BY DEF Ordena
<1>4. CASE o.op = "connect"
  <2>1. /\ Libre(c, o.addr)
        /\ puerto' = [puerto EXCEPT ![c] = o.addr] /\ zocalo' = [zocalo EXCEPT ![c] = "ligado"]
        /\ oyente' = [oyente EXCEPT ![c] = "no"] /\ cola' = [cola EXCEPT ![c] = <<>>]
      BY <1>1, <1>4 DEF Liga, Cuelga
  <2>2. HiloInv'
      BY <1>0, <1>3, <2>1, HiloUno DEF TomaInv, HiloInv
  <2>3. PuertoInv'
      BY <1>0, <1>2, <2>1 DEF TomaInv, PuertoInv, Abierto, Libre
  <2>4. PasoInv'
      BY <1>0, <1>1, <1>2, <1>3, <2>1 DEF TomaInv, PasoInv
  <2> QED
      BY <2>2, <2>3, <2>4 DEF TomaInv
<1>5. CASE o.op # "connect"
  <2>1. UNCHANGED <<puerto, zocalo, oyente, cola>>
      BY <1>1, <1>5 DEF Liga
  <2>2. HiloInv' /\ PuertoInv'
      BY <1>3, <2>1, HiloUno, PuertoIgual DEF TomaInv, HiloInv, Abierto
  <2>3. PasoInv'
      BY <1>1, <1>2, <1>3, <1>5, <2>1 DEF TomaInv, PasoInv
  <2> QED
      BY <2>2, <2>3 DEF TomaInv
<1> QED
    BY <1>4, <1>5

\* A thread that ends closes its socket, or leaves it open with "oyente" in
\* averias.
LEMMA TomaOyente ==
    ASSUME TypeOK, OrdenInv, TomaInv, NEW c \in Clientes, averias \subseteq averias',
           Oyente(c) \/ Muere(c)
    PROVE  TomaInv'
<1> USE DEF OrdenInv, Lee, tomas, escucha, entre, servidor
<1>0. DOMAIN zocalo = Clientes /\ DOMAIN cola = Clientes
    BY DEF TypeOK
<1>1. PICK o \in {"acepta", "lee", "muerto", "gira", "fin", "no"} :
        /\ oyente' = [oyente EXCEPT ![c] = o]
        /\ oyente[c] \in {"arranca", "acepta", "lee"} \/ o = "no"
        /\ o = "muerto" => "oyente" \in averias'
    BY DEF Oyente, OyenteEscucha, OyenteAcepta, OyenteTermina, OyenteContesta,
           OyenteContestaANadie, OyenteNoDescifra, OyenteLeeNada, Muere
<1>2. /\ oyente[c] = "arranca" /\ o # "no" =>
            o = "acepta" /\ zocalo' = [zocalo EXCEPT ![c] = "escucha"]
      /\ o \in {"fin", "no"} => zocalo' = [zocalo EXCEPT ![c] = "no"] /\ cola'[c] = <<>>
      /\ oyente[c] # "arranca" /\ o \notin {"fin", "no"} => zocalo' = zocalo
      /\ \A d \in Clientes \ {c} : cola'[d] = cola[d]
      /\ UNCHANGED <<puerto, orden>>
      /\ \A d \in Clientes \ {c} : sh'[d] = sh[d]
      /\ sh'[c] \in {"huerfana", "fuera"} \/ (o # "no" /\ sh'[c] = sh[c])
    BY <1>0, <1>1 DEF Oyente, OyenteEscucha, OyenteAcepta, OyenteTermina, OyenteContesta,
           OyenteContestaANadie, OyenteNoDescifra, OyenteLeeNada, Muere
<1>3. HiloInv'
    BY <1>0, <1>1, <1>2, HiloUno DEF TomaInv, HiloInv
<1>4. PuertoInv'
    BY <1>0, <1>1, <1>2, PuertoIgual DEF TomaInv, HiloInv, Abierto
<1>5. PasoInv'
    BY <1>0, <1>1, <1>2 DEF TomaInv, PasoInv
<1> QED
    BY <1>3, <1>4, <1>5 DEF TomaInv

LEMMA TomaStep ==
    ASSUME TypeOK, OrdenInv, OyenteInv, TomaInv, NEW c \in Clientes, Avanza(c)
    PROVE  TomaInv'
<1>1. averias \subseteq averias'
    BY AveriasCrecen
<1>2. CASE Ordena(c)
    BY <1>2, TomaOrdena
<1>3. CASE Oyente(c) \/ Muere(c)
    BY <1>1, <1>3, TomaOyente
<1>4. CASE Sale(c) \/ Shell(c) \/ Sirve(c) \/ Calla(c)
  <2> HIDE DEF Shell
  <2> QED
    BY <1>1, <1>4, TomaShell DEF Shell
<1> QED
    BY <1>2, <1>3, <1>4 DEF Avanza

-----------------------------------------------------------------------------
(* Connections between clients.                                            *)

\* What a step of another client leaves alone.
Comando(d) ==
    /\ sh'[d] = sh[d] /\ orden'[d] = orden[d] /\ codigo'[d] = codigo[d]
    /\ par'[d] = par[d] /\ dicho'[d] = dicho[d] /\ eco'[d] = eco[d]

Hilo(d) == usuario'[d] = usuario[d] /\ oyente'[d] = oyente[d] /\ puerto'[d] = puerto[d]

\* The command of a client is over, and so is its connection.
LEMMA DejaCita ==
    ASSUME TypeOK, OrdenInv, NEW c \in Clientes, Devuelve(c) \/ Lanza(c)
    PROVE  /\ sh'[c] \in {"libre", "sale"} /\ eco'[c] = "nada" /\ dicho'[c] = NoName
           /\ \A d \in Clientes \ {c} : Comando(d)
BY DEF Devuelve, Lanza, Deja, Comando, TypeOK, OrdenInv

\* The address in an answer.
Elige(k) == CHOOSE a \in Addrs : a \in k.items

\* Where a command connects to is decided by its own client.
LEMMA DestinoIgual ==
    ASSUME NEW d \in Clientes, puerto'[d] = puerto[d], orden'[d] = orden[d],
           codigo'[d] = codigo[d]
    PROVE  Destino(d)' = Destino(d)
<1>1. Destino(d) = IF orden[d].op = "disconnect" THEN puerto[d] ELSE Elige(codigo[d])
    BY DEF Destino, Elige
<1>2. Destino(d)' = IF orden'[d].op = "disconnect" THEN puerto'[d] ELSE Elige(codigo'[d])
    BY DEF Destino, Elige
<1> QED
    BY <1>1, <1>2

\* The step of a client that has no connection before or after it.
LEMMA CitaIgual ==
    ASSUME CitaInv, NEW c \in Clientes, UNCHANGED <<cola, atiende>>,
           \A d \in Clientes \ {c} : Comando(d) /\ Hilo(d),
           \/ oyente'[c] = oyente[c] /\ puerto'[c] = puerto[c]
           \/ cola[c] = <<>> /\ oyente[c] # "lee" /\ oyente'[c] # "lee",
           sh[c] \notin Conversando \/ eco[c] # "nada",
           sh'[c] \notin Conversando,
           sh'[c] # "gira" => eco'[c] = "nada" /\ dicho'[c] = NoName,
           usuario'[c] # NoUser => Activo(c)'
    PROVE  CitaInv'
<1> USE DEF Comando, Hilo
<1>1. \A e, x \in Clientes : Cita(e, x)' <=> Cita(e, x)
    BY DEF Cita, InCola
<1>2. \A e, x \in Clientes :
          Cita(e, x)' <=> sh'[x] \in Conversando /\ par'[x] = e /\ eco'[x] = "nada"
    BY <1>1 DEF CitaInv
<1>3. /\ \A e \in Clientes : \A j, k \in 1 .. Len(cola'[e]) : cola'[e][j] = cola'[e][k] => j = k
      /\ \A e \in Clientes : oyente'[e] = "lee" => ~InCola(e, atiende[e])'
    BY DEF CitaInv, InCola
<1>4. ASSUME NEW d \in Clientes, sh'[d] \in Conversando
      PROVE  par'[d] \in Clientes /\ (eco'[d] = "nada" => puerto'[par'[d]] = Destino(d)')
  <2>1. d # c /\ par'[d] \in Clientes /\ Destino(d)' = Destino(d)
      BY <1>4, DestinoIgual DEF CitaInv
  <2>2. ASSUME eco'[d] = "nada" PROVE puerto'[par'[d]] = puerto[par[d]]
    <3>1. Cita(par[d], d)
        BY <1>4, <2>1, <2>2 DEF CitaInv
    <3> QED
        BY <2>1, <3>1 DEF Cita, InCola
  <2> QED
      BY <1>4, <2>1, <2>2 DEF CitaInv
<1>5. \A d \in Clientes :
          /\ sh'[d] \notin Conversando \cup {"gira"} => eco'[d] = "nada"
          /\ sh'[d] \notin {"oye", "une", "gira"} => dicho'[d] = NoName
          /\ sh'[d] \in {"dice", "une"} /\ orden'[d].op = "disconnect" => par'[d] = d
          /\ usuario'[d] # NoUser => Activo(d)' \/ (sh'[d] = "une" /\ oyente'[d] = "fin")
    BY DEF CitaInv, Activo, Conversando
<1> QED
    BY <1>2, <1>3, <1>4, <1>5 DEF CitaInv

\* A socket whose thread does not run has nobody in its queue.
LEMMA CuelgaNada ==
    ASSUME TypeOK, TomaInv, SinFallos, NEW c \in Clientes, ~Activo(c), Cuelga(c)
    PROVE  cola[c] = <<>> /\ UNCHANGED <<cola, eco>>
<1>1. cola[c] = <<>>
    BY DEF TomaInv, HiloInv, Activo, SinFallos
<1>2. \A x : ~InCola(c, x)
    BY <1>1 DEF InCola
<1> QED
    BY <1>1, <1>2 DEF Cuelga, TypeOK

LEMMA CitaOrdena ==
    ASSUME TypeOK, OrdenInv, OyenteInv, TomaInv, CitaInv, SinFallos, NEW c \in Clientes, Ordena(c)
    PROVE  CitaInv'
<1> USE DEF OrdenInv
<1>1. PICK o \in Ordenes : Liga(c, o, o.addr) /\ Admite(c, o)
    BY DEF Ordena
<1>2. /\ sh[c] = "libre" /\ sh' = [sh EXCEPT ![c] = "espera"]
      /\ UNCHANGED <<usuario, codigo, atiende, par, dicho>>
      /\ \A d \in Clientes \ {c} : orden'[d] = orden[d]
    BY DEF Ordena
<1>3. CASE o.op = "connect"
  <2>1. ~Activo(c)
      BY <1>1, <1>3 DEF Admite, OyenteInv
  <2>2. /\ puerto' = [puerto EXCEPT ![c] = o.addr] /\ oyente' = [oyente EXCEPT ![c] = "no"]
        /\ Cuelga(c) /\ usuario[c] = NoUser
      BY <1>1, <1>3 DEF Liga, Admite
  <2>3. cola[c] = <<>> /\ UNCHANGED <<cola, eco>> /\ oyente[c] # "lee"
      BY <2>1, <2>2, CuelgaNada DEF Activo
  <2>4. \A d \in Clientes \ {c} : Comando(d) /\ Hilo(d)
      BY <1>2, <2>2, <2>3 DEF Comando, Hilo, TypeOK
  <2>5. /\ sh[c] \notin Conversando /\ sh'[c] \notin Conversando
        /\ eco'[c] = "nada" /\ dicho'[c] = NoName
      BY <1>2, <2>3 DEF Conversando, CitaInv
  <2> QED
      BY <1>2, <2>2, <2>3, <2>4, <2>5, CitaIgual
<1>4. CASE o.op # "connect"
  <2>1. UNCHANGED <<puerto, oyente, cola, eco>>
      BY <1>1, <1>4 DEF Liga
  <2>2. \A d \in Clientes \ {c} : Comando(d) /\ Hilo(d)
      BY <1>2, <2>1 DEF Comando, Hilo
  <2>3. /\ sh[c] \notin Conversando /\ sh'[c] \notin Conversando
        /\ eco'[c] = "nada" /\ dicho'[c] = NoName
      BY <1>2, <2>1 DEF Conversando, CitaInv
  <2>4. usuario'[c] # NoUser => Activo(c)'
      BY <1>2, <2>1 DEF CitaInv, Activo
  <2> QED
      BY <1>2, <2>1, <2>2, <2>3, <2>4, CitaIgual
<1> QED
    BY <1>3, <1>4

LEMMA CitaShell ==
    ASSUME TypeOK, OrdenInv, OyenteInv, SesionInv, TomaInv, CitaInv, SinFallos, SinFallos',
           NEW c \in Clientes,
           Sale(c) \/ Acaba(c) \/ Recibe(c) \/ Gira(c) \/ Excepcion(c) \/ LlamaFalla(c)
             \/ Oye(c) \/ OyeFalla(c) \/ OyeNada(c) \/ Une(c) \/ Sirve(c) \/ Calla(c)
    PROVE  CitaInv'
<1> USE DEF OrdenInv, EnCurso, Pasa, servidor, tomas, escucha, entre
<1>0. roto = {} /\ sh[c] # "huerfana"
    BY DEF SesionInv, SinFallos
<1>1. sh[c] # "une" /\ usuario[c] # NoUser => Activo(c)
    BY DEF CitaInv
<1>2. /\ sh[c] \notin Conversando \cup {"gira"} => eco[c] = "nada"
      /\ sh[c] \notin {"oye", "une", "gira"} => dicho[c] = NoName
    BY DEF CitaInv
<1>3. ASSUME Sale(c) \/ Sirve(c) \/ Calla(c) \/ (Recibe(c) /\ Pasa(c, "llama"))
      PROVE  CitaInv'
  <2>1. /\ sh[c] \in {"libre", "espera", "servida"}
        /\ sh' \in {[sh EXCEPT ![c] = x] : x \in {"sale", "servida", "muda", "llama"}}
        /\ UNCHANGED <<orden, par, dicho, eco, usuario, oyente, puerto, cola, atiende>>
        /\ \A d \in Clientes \ {c} : codigo'[d] = codigo[d]
      BY <1>0, <1>3 DEF Sale, Sirve, Calla, Recibe, RecibeConnect, Devuelve, Deja
  <2>2. \A d \in Clientes \ {c} : Comando(d) /\ Hilo(d)
      BY <2>1 DEF Comando, Hilo
  <2>3. sh[c] \notin Conversando /\ sh'[c] \notin Conversando
      BY <2>1 DEF Conversando
  <2> QED
      BY <1>1, <1>2, <2>1, <2>2, <2>3, CitaIgual DEF Activo, Conversando
<1>4. ASSUME Acaba(c) PROVE CitaInv'
  <2>1. UNCHANGED <<cola, eco>> /\ cola[c] = <<>>
      BY <1>4, CuelgaNada DEF Acaba
  <2>2. /\ sh[c] = "sale" /\ sh' = [sh EXCEPT ![c] = "fuera"] /\ ~Activo(c)
        /\ UNCHANGED <<orden, codigo, par, dicho, usuario, oyente, puerto, atiende>>
      BY <1>4 DEF Acaba
  <2>3. \A d \in Clientes \ {c} : Comando(d) /\ Hilo(d)
      BY <2>1, <2>2 DEF Comando, Hilo
  <2> QED
      BY <1>1, <1>2, <2>1, <2>2, <2>3, CitaIgual DEF Conversando
<1>5. ASSUME Recibe(c), RecibeConnect(c), orden[c].op = "connect" PROVE CitaInv'
  <2>1. /\ sh[c] = "servida" /\ Devuelve(c)
        /\ usuario' = [usuario EXCEPT ![c] = orden[c].user]
        /\ oyente' = [oyente EXCEPT ![c] = "arranca"]
        /\ UNCHANGED <<puerto, cola, atiende>>
      BY <1>5 DEF Recibe, RecibeConnect
  <2>2. cola[c] = <<>> /\ oyente[c] # "lee"
      BY <1>5, <2>1 DEF TomaInv, PasoInv, HiloInv
  <2>3. \A d \in Clientes \ {c} : Comando(d) /\ Hilo(d)
      BY <2>1, DejaCita DEF Hilo
  <2> QED
      BY <2>1, <2>2, <2>3, DejaCita, CitaIgual DEF Conversando, Activo
<1>6. ASSUME \/ LlamaFalla(c) \/ Oye(c) \/ OyeFalla(c)
             \/ Recibe(c) /\ Devuelve(c) /\ UNCHANGED <<usuario, escucha, cola>>
      PROVE  CitaInv'
  <2>1. /\ Devuelve(c) \/ Lanza(c)
        /\ UNCHANGED <<usuario, oyente, puerto, cola, atiende>>
      BY <1>6 DEF Recibe, LlamaFalla, Oye, OyeFalla
  <2>2. sh[c] # "une" /\ (sh[c] \notin Conversando \/ eco[c] # "nada")
      BY <1>6 DEF Recibe, LlamaFalla, Oye, OyeFalla, Conversando
  <2>3. \A d \in Clientes \ {c} : Comando(d) /\ Hilo(d)
      BY <2>1, DejaCita DEF Hilo
  <2> QED
      BY <1>1, <2>1, <2>2, <2>3, DejaCita, CitaIgual DEF Conversando, Activo
<1>7. ASSUME OyeNada(c) PROVE CitaInv'
  <2>1. \A d \in Clientes \ {c} : Comando(d) /\ Hilo(d)
      BY <1>7 DEF OyeNada, Comando, Hilo
  <2> QED
      BY <1>1, <1>7, <2>1, CitaIgual DEF OyeNada, Conversando, Activo
<1>8. ASSUME Une(c) PROVE CitaInv'
  <2>1. /\ sh[c] = "une" /\ ~Activo(c) /\ Devuelve(c)
        /\ usuario' = [usuario EXCEPT ![c] = NoUser]
        /\ UNCHANGED <<oyente, puerto, cola, atiende>>
      BY <1>8 DEF Une, HaTerminado
  <2>2. orden[c].op = "disconnect"
      BY <2>1 DEF TomaInv, PasoInv
  <2>3. par[c] = c
      BY <2>1, <2>2 DEF CitaInv
  <2>4. cola[c] = <<>> /\ oyente[c] # "lee"
      BY <2>1 DEF TomaInv, HiloInv, Activo, SinFallos
  <2>5. ~Cita(c, c)
      BY <2>4 DEF Cita, InCola
  <2>6. eco[c] # "nada"
      BY <2>1, <2>3, <2>5 DEF CitaInv, Conversando
  <2>7. \A d \in Clientes \ {c} : Comando(d) /\ Hilo(d)
      BY <2>1, DejaCita DEF Hilo
  <2> QED
      BY <2>1, <2>6, <2>7, DejaCita, CitaIgual DEF Conversando
<1>9. CASE Recibe(c)
    BY <1>3, <1>5, <1>6, <1>9 DEF Recibe
<1> QED
    BY <1>0, <1>3, <1>4, <1>6, <1>7, <1>8, <1>9 DEF Gira, Excepcion

\* A connection is taken by the client it is meant for, and only once.
LEMMA CitaLlama ==
    ASSUME TypeOK, OrdenInv, TomaInv, CitaInv, NEW c \in Clientes, Llama(c)
    PROVE  CitaInv'
<1> USE DEF OrdenInv, EnCurso, Pasa, servidor, tomas, escucha, entre
<1>1. PICK e \in Clientes :
        /\ puerto[e] = Destino(c) /\ zocalo[e] = "escucha"
        /\ cola' = [cola EXCEPT ![e] = Append(@, c)]
        /\ par' = [par EXCEPT ![c] = e]
    BY DEF Llama, Alcanza
<1>2. /\ sh[c] = "llama" /\ sh' = [sh EXCEPT ![c] = "dice"]
      /\ UNCHANGED <<usuario, puerto, oyente, atiende, dicho, eco, orden, codigo>>
    BY DEF Llama
<1>3. \A f \in Clientes : ~Cita(f, c) /\ ~InCola(f, c)
    BY <1>2 DEF CitaInv, Conversando, Cita
<1>4. DOMAIN par = Clientes /\ cola \in [Clientes -> Seq(Clientes)]
    BY DEF TypeOK
<1>5. eco[c] = "nada" /\ dicho[c] = NoName
    BY <1>2 DEF CitaInv, Conversando
<1>6. ASSUME orden[c].op = "disconnect" PROVE e = c
  <2>1. usuario[c] # NoUser
      BY <1>2, <1>6, ClienteAssumption DEF ClienteAssumption, EsOrden
  <2>2. Abierto(c)
      BY <1>2, <2>1 DEF CitaInv, TomaInv, HiloInv, Activo, Abierto
  <2>3. puerto[e] = puerto[c] /\ Abierto(e)
      BY <1>1, <1>6 DEF Destino, Abierto
  <2> QED
      BY <2>2, <2>3 DEF TomaInv, PuertoInv
<1>7. /\ Len(cola'[e]) = Len(cola[e]) + 1 /\ Len(cola[e]) \in Nat
      /\ \A k \in 1 .. Len(cola[e]) : cola'[e][k] = cola[e][k]
      /\ cola'[e][Len(cola[e]) + 1] = c
      /\ \A f \in Clientes \ {e} : cola'[f] = cola[f]
    BY <1>1, <1>4
<1>8. \A f, x \in Clientes : InCola(f, x)' <=> InCola(f, x) \/ (f = e /\ x = c)
    BY <1>7 DEF InCola
<1>9. \A f, x \in Clientes :
          Cita(f, x)' <=> sh'[x] \in Conversando /\ par'[x] = f /\ eco'[x] = "nada"
  <2>1. \A f, x \in Clientes : Cita(f, x)' <=> Cita(f, x) \/ (f = e /\ x = c)
      BY <1>2, <1>8 DEF Cita
  <2> QED
      BY <1>1, <1>2, <1>3, <1>4, <1>5, <2>1 DEF CitaInv, Conversando
<1>10. \A f \in Clientes : \A j, k \in 1 .. Len(cola'[f]) : cola'[f][j] = cola'[f][k] => j = k
  <2>1. \A j, k \in 1 .. Len(cola'[e]) : cola'[e][j] = cola'[e][k] => j = k
      BY <1>3, <1>7 DEF CitaInv, InCola
  <2> QED
      BY <1>7, <2>1 DEF CitaInv
<1>11. \A f \in Clientes : oyente'[f] = "lee" => ~InCola(f, atiende[f])'
  <2>1. \A f \in Clientes : oyente[f] = "lee" => atiende[f] # c
      BY <1>3 DEF Cita
  <2>2. \A f \in Clientes : \A x : InCola(f, x)' <=> InCola(f, x) \/ (f = e /\ x = c)
      BY <1>7 DEF InCola
  <2> QED
      BY <1>2, <2>1, <2>2 DEF CitaInv
<1>12. \A d \in Clientes : Destino(d)' = Destino(d)
    BY <1>2, DestinoIgual
<1>13. /\ \A d \in Clientes : sh'[d] \in Conversando => par'[d] \in Clientes
       /\ \A d \in Clientes : sh'[d] \in Conversando /\ eco'[d] = "nada" =>
             puerto'[par'[d]] = Destino(d)'
    BY <1>1, <1>2, <1>4, <1>12 DEF CitaInv, Conversando
<1>14. \A d \in Clientes :
          /\ sh'[d] \notin Conversando \cup {"gira"} => eco'[d] = "nada"
          /\ sh'[d] \notin {"oye", "une", "gira"} => dicho'[d] = NoName
          /\ sh'[d] \in {"dice", "une"} /\ orden'[d].op = "disconnect" => par'[d] = d
    BY <1>1, <1>2, <1>4, <1>5, <1>6 DEF CitaInv, Conversando
<1>15. \A d \in Clientes :
          usuario'[d] # NoUser => Activo(d)' \/ (sh'[d] = "une" /\ oyente'[d] = "fin")
    BY <1>2 DEF CitaInv, Activo
<1> QED
    BY <1>9, <1>10, <1>11, <1>13, <1>14, <1>15 DEF CitaInv

\* What is sent changes nothing else.
LEMMA CitaDice ==
    ASSUME TypeOK, OrdenInv, CitaInv, NEW c \in Clientes, Dice(c)
    PROVE  CitaInv'
<1> USE DEF OrdenInv, EnCurso, Pasa, servidor, tomas, escucha, entre
<1>1. /\ sh[c] = "dice"
      /\ sh' = [sh EXCEPT ![c] = IF orden[c].op = "disconnect" THEN "une" ELSE "oye"]
      /\ \A d \in Clientes \ {c} : dicho'[d] = dicho[d]
      /\ UNCHANGED <<usuario, puerto, oyente, atiende, cola, par, eco, orden, codigo>>
    BY DEF Dice, TypeOK
<1>2. \A f, x \in Clientes : Cita(f, x)' <=> Cita(f, x)
    BY <1>1 DEF Cita, InCola
<1>3. \A d \in Clientes :
          /\ Destino(d)' = Destino(d)
          /\ sh'[d] \in Conversando <=> sh[d] \in Conversando
          /\ sh'[d] \in Conversando \cup {"gira"} <=> sh[d] \in Conversando \cup {"gira"}
    BY <1>1, DestinoIgual DEF Conversando
<1>4. \A d \in Clientes :
          /\ sh'[d] \notin {"oye", "une", "gira"} => dicho'[d] = NoName
          /\ sh'[d] \in {"dice", "une"} /\ orden'[d].op = "disconnect" => par'[d] = d
          /\ usuario'[d] # NoUser => Activo(d)' \/ (sh'[d] = "une" /\ oyente'[d] = "fin")
    BY <1>1 DEF CitaInv, Activo
<1>5. /\ \A e \in Clientes : \A j, k \in 1 .. Len(cola'[e]) : cola'[e][j] = cola'[e][k] => j = k
      /\ \A e \in Clientes : oyente'[e] = "lee" => ~InCola(e, atiende[e])'
    BY <1>1 DEF CitaInv, InCola
<1> QED
    BY <1>1, <1>2, <1>3, <1>4, <1>5 DEF CitaInv

\* A step of the thread of client e: what is left to show.
LEMMA CitaHilo ==
    ASSUME CitaInv, NEW e \in Clientes, UNCHANGED <<sh, orden, codigo, par, dicho, usuario, puerto>>,
           \A f \in Clientes \ {e} :
               oyente'[f] = oyente[f] /\ atiende'[f] = atiende[f] /\ cola'[f] = cola[f],
           \A x \in Clientes :
               eco'[x] = eco[x] \/ (eco'[x] # "nada" /\ par[x] = e /\ sh[x] \in Conversando),
           \A x \in Clientes : Cita(e, x)' <=> Cita(e, x) /\ eco'[x] = "nada",
           \A j, k \in 1 .. Len(cola'[e]) : cola'[e][j] = cola'[e][k] => j = k,
           oyente'[e] = "lee" => ~InCola(e, atiende[e])',
           Activo(e)' \/ (sh[e] = "une" /\ oyente'[e] = "fin")
    PROVE  CitaInv'
<1>1. \A f \in Clientes \ {e}, x \in Clientes : Cita(f, x)' <=> Cita(f, x)
    BY DEF Cita, InCola
<1>2. \A f, x \in Clientes :
          Cita(f, x)' <=> sh'[x] \in Conversando /\ par'[x] = f /\ eco'[x] = "nada"
    BY <1>1 DEF CitaInv
<1>3. /\ \A f \in Clientes : \A j, k \in 1 .. Len(cola'[f]) : cola'[f][j] = cola'[f][k] => j = k
      /\ \A f \in Clientes : oyente'[f] = "lee" => ~InCola(f, atiende[f])'
    BY DEF CitaInv, InCola
<1>4. \A d \in Clientes : Destino(d)' = Destino(d)
    BY DestinoIgual
<1>5. \A d \in Clientes :
          usuario'[d] # NoUser => Activo(d)' \/ (sh'[d] = "une" /\ oyente'[d] = "fin")
    BY DEF CitaInv, Activo
<1> QED
    BY <1>2, <1>3, <1>4, <1>5 DEF CitaInv

\* The thread of a client serves each connection once, and ends by its own
\* disconnect only.
LEMMA CitaOyente ==
    ASSUME TypeOK, OrdenInv, TomaInv, CitaInv, SinFallos', NEW e \in Clientes, Oyente(e)
    PROVE  CitaInv'
<1> USE DEF OrdenInv, Lee, servidor, tomas, escucha, entre
<1>0. /\ cola \in [Clientes -> Seq(Clientes)] /\ DOMAIN atiende = Clientes
      /\ DOMAIN eco = Clientes
    BY DEF TypeOK
<1>1. ASSUME OyenteEscucha(e) PROVE CitaInv'
  <2>1. \A x \in Clientes : Cita(e, x)' <=> Cita(e, x) /\ eco'[x] = "nada"
      BY <1>1 DEF OyenteEscucha, Cita, InCola, CitaInv
  <2> QED
      BY <1>1, <2>1, CitaHilo DEF OyenteEscucha, CitaInv, Activo
<1>2. ASSUME OyenteAcepta(e) PROVE CitaInv'
  <2>1. /\ cola[e] # <<>> /\ oyente[e] = "acepta"
        /\ oyente' = [oyente EXCEPT ![e] = "lee"]
        /\ atiende' = [atiende EXCEPT ![e] = Head(cola[e])]
        /\ cola' = [cola EXCEPT ![e] = Tail(@)]
        /\ UNCHANGED <<sh, orden, codigo, par, dicho, usuario, puerto, eco>>
      BY <1>2 DEF OyenteAcepta
  <2>2. /\ Len(cola[e]) \in Nat \ {0} /\ Len(cola'[e]) = Len(cola[e]) - 1
        /\ \A k \in 1 .. Len(cola[e]) - 1 : cola'[e][k] = cola[e][k + 1]
        /\ atiende'[e] = cola[e][1]
      BY <1>0, <2>1
  <2>3. \A x : InCola(e, x) <=> InCola(e, x)' \/ x = cola[e][1]
    <3>1. ASSUME NEW x, InCola(e, x)' PROVE InCola(e, x)
        BY <2>2, <3>1 DEF InCola
    <3>2. InCola(e, cola[e][1])
        BY <2>2 DEF InCola
    <3>3. ASSUME NEW x, InCola(e, x), x # cola[e][1] PROVE InCola(e, x)'
      <4>1. PICK k \in 1 .. Len(cola[e]) : cola[e][k] = x
          BY <3>3 DEF InCola
      <4>2. k # 1 /\ k \in Nat /\ k =< Len(cola[e])
          BY <2>2, <3>3, <4>1
      <4>3. k - 1 \in 1 .. Len(cola[e]) - 1 /\ k - 1 + 1 = k
          BY <2>2, <4>1, <4>2
      <4>4. k - 1 \in 1 .. Len(cola'[e]) /\ cola'[e][k - 1] = x
          BY <2>2, <4>1, <4>3
      <4> QED
          BY <4>4 DEF InCola
    <3> QED
        BY <3>1, <3>2, <3>3
  <2>4. \A j, k \in 1 .. Len(cola[e]) : cola[e][j] = cola[e][k] => j = k
      BY DEF CitaInv
  <2>5. ~InCola(e, atiende[e])'
    <3>1. ASSUME NEW k \in 1 .. Len(cola[e]) - 1 PROVE cola[e][k + 1] # cola[e][1]
      <4>1. k + 1 \in 1 .. Len(cola[e]) /\ 1 \in 1 .. Len(cola[e]) /\ k + 1 # 1
          BY <2>2, <3>1
      <4> QED
          BY <2>4, <4>1
    <3> QED
        BY <2>2, <3>1 DEF InCola
  <2>6. \A j, k \in 1 .. Len(cola'[e]) : cola'[e][j] = cola'[e][k] => j = k
      BY <2>2, <2>4
  <2>7. \A x \in Clientes : Cita(e, x)' <=> Cita(e, x) /\ eco'[x] = "nada"
      BY <2>1, <2>2, <2>3 DEF Cita, CitaInv
  <2> QED
      BY <1>0, <2>1, <2>5, <2>6, <2>7, CitaHilo DEF Activo
<1>3. ASSUME NEW d \in Clientes, oyente[e] = "lee", atiende[e] = d
      PROVE  sh[d] \in Conversando /\ par[d] = e /\ eco[d] = "nada" /\ ~InCola(e, d)
  <2>1. Cita(e, d)
      BY <1>3 DEF Cita
  <2> QED
      BY <1>3, <2>1 DEF CitaInv
<1>4. ASSUME NEW d \in Clientes, OyenteTermina(e, d) PROVE CitaInv'
  <2>1. /\ oyente[e] = "lee" /\ atiende[e] = d /\ dicho[d] = End
        /\ oyente' = [oyente EXCEPT ![e] = "fin"]
        /\ cola' = [cola EXCEPT ![e] = <<>>]
        /\ eco' = [x \in Clientes |->
                     IF x = d THEN "cerrada"
                     ELSE IF par[x] = e /\ InCola(e, x) THEN "reset" ELSE eco[x]]
        /\ \A f \in Clientes \ {e} : atiende'[f] = atiende[f]
        /\ UNCHANGED <<sh, orden, codigo, par, dicho, usuario, puerto>>
      BY <1>0, <1>4 DEF OyenteTermina
  <2>2. orden[d].op = "disconnect"
      BY <1>4 DEF OyenteTermina, SinFallos
  <2>3. sh[d] = "une" /\ d = e
    <3>1. sh[d] \in Conversando /\ par[d] = e
        BY <1>3, <2>1
    <3>2. sh[d] # "dice"
        BY <2>1, ClienteAssumption DEF CitaInv, ClienteAssumption
    <3>3. sh[d] # "oye"
        BY <2>2 DEF TomaInv, PasoInv
    <3> QED
        BY <2>2, <3>1, <3>2, <3>3 DEF CitaInv, Conversando
  <2>4. cola'[e] = <<>> /\ oyente'[e] = "fin"
      BY <1>0, <2>1
  <2>5. \A x \in Clientes : ~Cita(e, x)'
      BY <2>4 DEF Cita, InCola
  <2>6. \A x \in Clientes :
            eco'[x] = eco[x] \/ (eco'[x] # "nada" /\ par[x] = e /\ sh[x] \in Conversando)
    <3>1. \A x \in Clientes : InCola(e, x) => sh[x] \in Conversando /\ par[x] = e
        BY DEF CitaInv, Cita
    <3> QED
        BY <1>3, <2>1, <3>1
  <2>7. \A x \in Clientes : Cita(e, x) => eco'[x] # "nada"
    <3>1. ASSUME NEW x \in Clientes, Cita(e, x) PROVE x = d \/ (par[x] = e /\ InCola(e, x))
        BY <2>1, <3>1 DEF CitaInv, Cita
    <3> QED
        BY <2>1, <3>1
  <2>8. \A f \in Clientes \ {e} :
            oyente'[f] = oyente[f] /\ atiende'[f] = atiende[f] /\ cola'[f] = cola[f]
      BY <1>0, <2>1
  <2> QED
      BY <2>1, <2>3, <2>4, <2>5, <2>6, <2>7, <2>8, CitaHilo
<1>5. ASSUME NEW d \in Clientes, OyenteContesta(e, d) PROVE CitaInv'
  <2>1. eco' = [eco EXCEPT ![d] = "codigo"]
      BY <1>5 DEF OyenteContesta
  <2>2. /\ oyente[e] = "lee" /\ atiende[e] = d
        /\ oyente' = [oyente EXCEPT ![e] = "acepta"]
        /\ \A f \in Clientes \ {e} : atiende'[f] = atiende[f]
        /\ UNCHANGED <<sh, orden, codigo, par, dicho, usuario, puerto, cola>>
      BY <1>0, <1>5 DEF OyenteContesta
  <2>3. sh[d] \in Conversando /\ par[d] = e /\ ~InCola(e, d)
      BY <1>3, <2>2
  <2>4. \A x \in Clientes : Cita(e, x)' <=> Cita(e, x) /\ eco'[x] = "nada"
    <3>1. \A x \in Clientes : InCola(e, x)' <=> InCola(e, x)
        BY <2>2 DEF InCola
    <3>2. \A x \in Clientes : InCola(e, x) => eco[x] = "nada"
        BY DEF CitaInv, Cita
    <3> QED
        BY <1>0, <2>1, <2>2, <2>3, <3>1, <3>2 DEF Cita
  <2>5. \A j, k \in 1 .. Len(cola'[e]) : cola'[e][j] = cola'[e][k] => j = k
      BY <2>2 DEF CitaInv
  <2> QED
      BY <1>0, <2>1, <2>2, <2>3, <2>4, <2>5, CitaHilo DEF Activo
<1>6. ASSUME NEW d \in Clientes, OyenteContestaANadie(e, d) \/ OyenteLeeNada(e, d) PROVE CitaInv'
    BY <1>3, <1>6 DEF OyenteContestaANadie, OyenteLeeNada, Conversando
<1>7. \A d \in Clientes : ~OyenteNoDescifra(e, d)
    BY DEF OyenteNoDescifra, SinFallos
<1> QED
    BY <1>1, <1>2, <1>4, <1>5, <1>6, <1>7 DEF Oyente

-----------------------------------------------------------------------------
(* What the server and the clients have agreed on.                         *)

\* What an agreement is about.
Trato(d) ==
    /\ sh'[d] = sh[d] /\ orden'[d] = orden[d] /\ codigo'[d] = codigo[d]
    /\ usuario'[d] = usuario[d] /\ puerto'[d] = puerto[d]

\* A step that leaves the directory, and the session of its client, as they are.
LEMMA AcuerdoIgual ==
    ASSUME AlmacenInv, AcuerdoInv, NEW c \in Clientes, almacen' = almacen,
           \A d \in Clientes \ {c} : Trato(d),
           \A u \in Users : Tiene(c, u)' <=> Tiene(c, u),
           puerto'[c] = puerto[c] \/ \A u \in Users : ~Tiene(c, u)
    PROVE  AcuerdoInv'
<1>1. \A d \in Clientes, u \in Users : Tiene(d, u)' <=> Tiene(d, u)
    BY DEF Tiene, DeBaja, Trato
<1>2. DOMAIN dir \subseteq Users /\ dir' = dir
    BY CamposDir DEF dir
<1>3. ASSUME NEW d \in Clientes, NEW u \in Users, Tiene(d, u)'
      PROVE  ListaDir(u, puerto[d])'
  <2>1. Tiene(d, u) /\ puerto'[d] = puerto[d]
      BY <1>1, <1>3 DEF Trato
  <2> QED
      BY <1>2, <2>1 DEF AcuerdoInv, ListaDir
<1>4. ASSUME NEW u \in DOMAIN dir', dir'[u].addr # NoAddr
      PROVE  \E d \in Clientes : Tiene(d, u)'
    BY <1>1, <1>2, <1>4 DEF AcuerdoInv
<1> QED
    BY <1>3, <1>4 DEF AcuerdoInv

\* A command that neither starts nor ends a session.
LEMMA TieneMismo ==
    ASSUME NEW c \in Clientes, usuario'[c] = usuario[c], ~DeBaja(c), ~DeBaja(c)',
           sh'[c] # "servida",
           ~(sh[c] = "servida" /\ codigo[c].code = 0 /\ orden[c].op = "connect")
    PROVE  \A u \in Users : Tiene(c, u)' <=> Tiene(c, u)
BY DEF Tiene

\* Between the answer of the server and the end of its command, a client holds
\* what the server holds for it.
LEMMA AcuerdoShell ==
    ASSUME TypeOK, AlmacenInv, OrdenInv, SesionInv, TomaInv, AcuerdoInv, SinFallos, SinFallos',
           NEW c \in Clientes, Avanza(c), ~Sirve(c)
    PROVE  AcuerdoInv'
<1> USE DEF OrdenInv, EnCurso, Pasa, servidor, tomas, escucha, entre
<1>0. roto = {} /\ sh[c] # "huerfana"
    BY DEF SesionInv, SinFallos
<1>1. ASSUME Ordena(c) PROVE AcuerdoInv'
  <2>1. PICK o \in Ordenes :
          Admite(c, o) /\ Liga(c, o, o.addr) /\ orden' = [orden EXCEPT ![c] = Enviada(c, o)]
      BY <1>1 DEF Ordena
  <2>2. /\ sh[c] = "libre" /\ sh' = [sh EXCEPT ![c] = "espera"]
        /\ UNCHANGED <<usuario, codigo, almacen>>
      BY <1>1 DEF Ordena
  <2>3. ~DeBaja(c) /\ ~DeBaja(c)'
      BY <2>2 DEF DeBaja
  <2>4. \A u \in Users : Tiene(c, u)' <=> Tiene(c, u)
      BY <2>2, <2>3, TieneMismo
  <2>5. \/ puerto' = puerto
        \/ /\ puerto' = [puerto EXCEPT ![c] = o.addr]
           /\ \A u \in Users : ~Tiene(c, u)
      BY <2>1, <2>2, ClienteAssumption DEF Liga, Admite, Tiene, ClienteAssumption
  <2>6. DOMAIN puerto = Clientes
      BY DEF TypeOK
  <2>7. \A d \in Clientes \ {c} : Trato(d)
      BY <2>1, <2>2, <2>5, <2>6 DEF Trato
  <2> QED
      BY <2>2, <2>4, <2>5, <2>7, AcuerdoIgual
<1>2. ASSUME Sale(c) \/ Acaba(c) \/ Calla(c) \/ OyeNada(c) PROVE AcuerdoInv'
  <2>1. ~DeBaja(c) /\ ~DeBaja(c)' /\ sh[c] # "servida" /\ sh'[c] # "servida"
      BY <1>2 DEF DeBaja, Sale, Acaba, Calla, OyeNada
  <2>2. \A u \in Users : Tiene(c, u)' <=> Tiene(c, u)
      BY <1>2, <2>1, TieneMismo DEF Sale, Acaba, Calla, OyeNada
  <2> QED
      BY <1>2, <2>2, AcuerdoIgual DEF Sale, Acaba, Calla, OyeNada, Trato
<1>3. ASSUME Recibe(c), RecibeConnect(c), codigo[c].code = 0, orden[c].op = "connect"
      PROVE  AcuerdoInv'
  <2>1. /\ sh[c] = "servida" /\ Devuelve(c) /\ UNCHANGED <<almacen, puerto>>
        /\ usuario' = [usuario EXCEPT ![c] = orden[c].user]
      BY <1>3 DEF Recibe, RecibeConnect
  <2>2. usuario[c] = NoUser /\ usuario'[c] = orden[c].user
      BY <1>3, <2>1
  <2>3. \A u \in Users : Tiene(c, u)' <=> Tiene(c, u)
      BY <1>3, <2>1, <2>2, DevuelveOrden, ClienteAssumption DEF Tiene, DeBaja, ClienteAssumption
  <2> QED
      BY <2>1, <2>3, DevuelveOrden, AcuerdoIgual DEF Trato
<1>4. ASSUME Recibe(c), Pasa(c, "llama"), codigo[c].code = 0, UNCHANGED usuario,
             orden[c].op \in {"disconnect", "get_file"}
      PROVE  AcuerdoInv'
  <2>1. \A u \in Users : Tiene(c, u)' <=> Tiene(c, u)
      BY <1>4 DEF Recibe, Tiene, DeBaja
  <2> QED
      BY <1>4, <2>1, AcuerdoIgual DEF Recibe, Trato
<1>5. ASSUME \/ LlamaFalla(c) \/ Oye(c) \/ OyeFalla(c)
             \/ Recibe(c) /\ Devuelve(c) /\ UNCHANGED usuario
                /\ (codigo[c].code # 0 \/ orden[c].op \notin {"connect", "disconnect", "get_file"})
      PROVE  AcuerdoInv'
  <2>1. (Devuelve(c) \/ Lanza(c)) /\ UNCHANGED <<usuario, almacen, puerto>>
      BY <1>5 DEF Recibe, LlamaFalla, Oye, OyeFalla
  <2>2. /\ ~DeBaja(c)
        /\ ~(sh[c] = "servida" /\ codigo[c].code = 0 /\ orden[c].op = "connect")
      BY <1>5 DEF DeBaja, Recibe, LlamaFalla, Oye, OyeFalla, SinFallos, Despedida
  <2>3. sh'[c] \in {"libre", "sale"}
      BY <2>1, DevuelveOrden
  <2>4. \A u \in Users : Tiene(c, u)' <=> Tiene(c, u)
      BY <2>1, <2>2, <2>3, TieneMismo DEF DeBaja
  <2> QED
      BY <2>1, <2>4, DevuelveOrden, AcuerdoIgual DEF Trato
<1>6. ASSUME Llama(c) \/ Dice(c) PROVE AcuerdoInv'
  <2>1. \A u \in Users : Tiene(c, u)' <=> Tiene(c, u)
      BY <1>6 DEF Llama, Dice, Tiene, DeBaja
  <2> QED
      BY <1>6, <2>1, AcuerdoIgual DEF Llama, Dice, Trato
<1>7. ASSUME Une(c) PROVE AcuerdoInv'
  <2>1. /\ Devuelve(c) /\ UNCHANGED <<almacen, puerto>> /\ sh[c] = "une"
        /\ usuario' = [usuario EXCEPT ![c] = NoUser]
      BY <1>7 DEF Une
  <2>2. DeBaja(c)
      BY <2>1 DEF DeBaja, TomaInv, PasoInv
  <2>3. \A u \in Users : ~Tiene(c, u) /\ ~Tiene(c, u)'
      BY <2>1, <2>2, DevuelveOrden, ClienteAssumption DEF Tiene, ClienteAssumption
  <2> QED
      BY <2>1, <2>3, DevuelveOrden, AcuerdoIgual DEF Trato
<1>8. ASSUME Oyente(c) PROVE AcuerdoInv'
  <2>1. UNCHANGED <<almacen, sh, orden, codigo, usuario, puerto>>
      BY <1>8 DEF Oyente, OyenteEscucha, OyenteAcepta, OyenteTermina, OyenteContesta,
                  OyenteContestaANadie, OyenteNoDescifra, OyenteLeeNada, Lee
  <2>2. dir' = dir
      BY <2>1 DEF dir
  <2> QED
      BY <2>1, <2>2 DEF AcuerdoInv, Tiene, DeBaja, ListaDir
<1>9. CASE Recibe(c)
    BY <1>3, <1>4, <1>5, <1>9 DEF Recibe
<1>10. ~Gira(c) /\ ~Excepcion(c)
    BY <1>0 DEF Gira, Excepcion
<1>11. ~Muere(c)
    BY DEF Muere, SinFallos
<1> QED
    BY <1>1, <1>2, <1>5, <1>6, <1>7, <1>8, <1>9, <1>10, <1>11 DEF Avanza, Shell

\* Which users are connected, and where, is changed by connect and disconnect only.
LEMMA EfectoLista ==
    ASSUME AlmacenInv, NEW r, EsOrden(r), r.op \notin {"connect", "disconnect"},
           R!Code(dir, r) = 0, dir' = R!Effect(dir, r)
    PROVE  \A u, a : a # NoAddr => (ListaDir(u, a)' <=> ListaDir(u, a))
<1> USE DEF EsOrden, Operaciones, ListaDir, R!Known, R!Online, R!Offers
<1>0. \A u \in DOMAIN dir : DOMAIN dir[u] = {"addr", "files"}
    BY CamposDir
<1>1. CASE r.op = "register"
  <2>1. r.user \notin DOMAIN dir
      BY <1>1 DEF R!Code, R!CodeOf
  <2>2. dir' = R!Put(dir, r.user, [addr |-> NoAddr, files |-> [f \in {} |-> {}]])
      BY <1>1 DEF R!Effect
  <2> QED
      BY <1>1, <2>1, <2>2 DEF R!Put
<1>2. CASE r.op = "unregister"
  <2>1. r.user \in DOMAIN dir /\ dir[r.user].addr = NoAddr
      BY <1>2 DEF R!Code, R!CodeOf
  <2>2. dir' = [u \in DOMAIN dir \ {r.user} |-> dir[u]]
      BY <1>2 DEF R!Effect
  <2> QED
      BY <1>2, <2>1, <2>2
<1>3. CASE r.op = "publish"
  <2>1. r.user \in DOMAIN dir
      BY <1>3 DEF R!Code, R!CodeOf
  <2>2. dir' = [dir EXCEPT ![r.user].files = R!Put(@, r.file, r.descr)]
      BY <1>3 DEF R!Effect
  <2> QED
      BY <1>0, <1>3, <2>1, <2>2
<1>4. CASE r.op = "delete"
  <2>1. r.user \in DOMAIN dir
      BY <1>4 DEF R!Code, R!CodeOf
  <2>2. dir' = [dir EXCEPT ![r.user].files = [f \in DOMAIN @ \ {r.file} |-> @[f]]]
      BY <1>4 DEF R!Effect
  <2> QED
      BY <1>0, <1>4, <2>1, <2>2
<1>5. CASE r.op \in {"list_users", "list_content", "get_file"}
  <2>1. dir' = dir
      BY <1>5 DEF R!Effect
  <2> QED
      BY <1>5, <2>1
<1> QED
    BY <1>1, <1>2, <1>3, <1>4, <1>5

\* A connect that is served gives its user to its client, at its port, and a
\* disconnect takes it away; nothing else moves a user.
LEMMA AcuerdoSirve ==
    ASSUME TypeOK, AlmacenInv, OrdenInv, SesionInv, TomaInv, AcuerdoInv, SinFallos, SinFallos',
           NEW c \in Clientes, Sirve(c)
    PROVE  AcuerdoInv'
<1> USE DEF OrdenInv, EnCurso, escucha, tomas, entre
<1>1. /\ sh[c] = "espera" /\ sh' = [sh EXCEPT ![c] = "servida"]
      /\ codigo' = [codigo EXCEPT ![c] = R!Answer(dir, orden[c])]
      /\ dir' = IF R!Code(dir, orden[c]) = 0 THEN R!Effect(dir, orden[c]) ELSE dir
      /\ UNCHANGED <<usuario, orden, puerto>>
  <2>1. /\ codigo' = [codigo EXCEPT ![c] = R!Answer(dir, orden[c])]
        /\ dir' = IF R!Code(dir, orden[c]) = 0 THEN R!Effect(dir, orden[c]) ELSE dir
      BY SirvePromete DEF SinFallos
  <2>2. /\ sh[c] = "espera" /\ sh' = [sh EXCEPT ![c] = "servida"]
        /\ UNCHANGED <<usuario, orden, puerto>>
      BY DEF Sirve, SesionInv, SinFallos
  <2> QED
      BY <2>1, <2>2
<1>2. /\ EsOrden(orden[c]) /\ DOMAIN dir \subseteq Users
      /\ \A u \in DOMAIN dir : DOMAIN dir[u] = {"addr", "files"}
    BY <1>1, CamposDir
<1>3. codigo'[c].code = R!Code(dir, orden[c])
    BY <1>1 DEF R!Answer
<1>4. \A d \in Clientes \ {c}, u \in Users : Tiene(d, u)' <=> Tiene(d, u)
    BY <1>1 DEF Tiene, DeBaja
<1>5. \A u \in Users : Tiene(c, u) <=> usuario[c] = u
    BY <1>1 DEF Tiene, DeBaja
<1>6. SinAverias
    BY DEF SinFallos, SinAverias
<1>7. \A d \in Clientes, u \in Users : Tiene(d, u) =>
          ListaDir(u, puerto[d]) /\ Conectado(u) /\ \A e \in Clientes \ {d} : ~Tiene(e, u)
    BY <1>6 DEF SesionInv, AcuerdoInv
<1>8. CASE R!Code(dir, orden[c]) # 0
  <2>1. \A d \in Clientes, u \in Users : Tiene(d, u)' <=> Tiene(d, u)
      BY <1>1, <1>3, <1>4, <1>5, <1>8 DEF Tiene, DeBaja
  <2> QED
      BY <1>1, <1>2, <1>8, <2>1 DEF AcuerdoInv, ListaDir
<1>9. CASE R!Code(dir, orden[c]) = 0
  <2>0. dir' = R!Effect(dir, orden[c])
      BY <1>1, <1>9
  <2>1. CASE orden[c].op = "connect"
    <3>1. /\ ~Conectado(orden[c].user) /\ orden[c].user \in DOMAIN dir
          /\ dir' = [dir EXCEPT ![orden[c].user].addr = orden[c].addr]
        BY <1>9, <2>0, <2>1 DEF R!Effect, R!Code, R!CodeOf, R!Known, R!Online, Conectado
    <3>2. DOMAIN dir[orden[c].user] = {"addr", "files"}
        BY <1>2, <3>1
    <3>3. /\ DOMAIN dir' = DOMAIN dir /\ dir'[orden[c].user].addr = orden[c].addr
          /\ \A u \in DOMAIN dir \ {orden[c].user} : dir'[u] = dir[u]
        BY <3>1, <3>2
    <3>4. puerto[c] = orden[c].addr /\ usuario[c] = NoUser
        BY <1>1, <2>1 DEF TomaInv, PasoInv
    <3>5. \A u \in Users : Tiene(c, u)' <=> u = orden[c].user
        BY <1>1, <1>3, <1>9, <2>1, <3>4, ClienteAssumption
           DEF Tiene, DeBaja, ClienteAssumption
    <3>6. \A d \in Clientes : ~Tiene(d, orden[c].user)
        BY <1>2, <1>7, <3>1 DEF EsOrden
    <3>7. \A d \in Clientes, u \in Users : Tiene(d, u)' => ListaDir(u, puerto[d])'
        BY <1>1, <1>4, <1>7, <3>1, <3>3, <3>4, <3>5, <3>6 DEF ListaDir
    <3>8. ASSUME NEW u \in DOMAIN dir', dir'[u].addr # NoAddr
          PROVE  \E d \in Clientes : Tiene(d, u)'
      <4>1. CASE u = orden[c].user
          BY <1>2, <3>3, <3>5, <4>1
      <4>2. CASE u # orden[c].user
        <5>1. PICK d \in Clientes : Tiene(d, u)
            BY <3>3, <3>8, <4>2 DEF AcuerdoInv
        <5>2. d # c
            BY <1>2, <1>5, <3>3, <3>4, <3>8, <5>1, ClienteAssumption DEF ClienteAssumption
        <5> QED
            BY <1>2, <1>4, <3>3, <3>8, <5>1, <5>2
      <4> QED
          BY <4>1, <4>2
    <3> QED
        BY <3>7, <3>8 DEF AcuerdoInv
  <2>2. CASE orden[c].op = "disconnect"
    <3>1. /\ orden[c].user \in DOMAIN dir
          /\ dir' = [dir EXCEPT ![orden[c].user].addr = NoAddr]
        BY <1>9, <2>0, <2>2 DEF R!Effect, R!Code, R!CodeOf, R!Known
    <3>2. DOMAIN dir[orden[c].user] = {"addr", "files"}
        BY <1>2, <3>1
    <3>3. /\ DOMAIN dir' = DOMAIN dir /\ dir'[orden[c].user].addr = NoAddr
          /\ \A u \in DOMAIN dir \ {orden[c].user} : dir'[u] = dir[u]
        BY <3>1, <3>2
    <3>4. usuario[c] = orden[c].user /\ Tiene(c, orden[c].user)
        BY <1>1, <1>2, <1>5, <2>2 DEF EsOrden
    <3>5. \A u \in Users : ~Tiene(c, u)'
        BY <1>1, <1>3, <1>9, <2>2 DEF Tiene, DeBaja
    <3>6. \A d \in Clientes \ {c} : ~Tiene(d, orden[c].user)
        BY <1>2, <1>7, <3>4 DEF EsOrden
    <3>7. \A d \in Clientes, u \in Users : Tiene(d, u)' => ListaDir(u, puerto[d])'
        BY <1>1, <1>4, <1>7, <3>3, <3>5, <3>6 DEF ListaDir
    <3>8. ASSUME NEW u \in DOMAIN dir', dir'[u].addr # NoAddr
          PROVE  \E d \in Clientes : Tiene(d, u)'
      <4>1. u \in DOMAIN dir /\ u # orden[c].user /\ dir[u].addr # NoAddr /\ u \in Users
          BY <1>2, <3>3, <3>8
      <4>2. PICK d \in Clientes : Tiene(d, u)
          BY <4>1 DEF AcuerdoInv
      <4> QED
          BY <1>4, <1>5, <3>4, <4>1, <4>2
    <3> QED
        BY <3>7, <3>8 DEF AcuerdoInv
  <2>3. CASE orden[c].op \notin {"connect", "disconnect"}
    <3>1. \A d \in Clientes, u \in Users : Tiene(d, u)' <=> Tiene(d, u)
        BY <1>1, <1>4, <1>5, <2>3 DEF Tiene, DeBaja
    <3>2. \A u, a : a # NoAddr => (ListaDir(u, a)' <=> ListaDir(u, a))
        BY <1>2, <1>9, <2>0, <2>3, EfectoLista
    <3>3. \A d \in Clientes, u \in Users : Tiene(d, u)' => ListaDir(u, puerto[d])'
        BY <1>1, <1>7, <3>1, <3>2 DEF ListaDir, Conectado
    <3>4. ASSUME NEW u \in DOMAIN dir', dir'[u].addr # NoAddr
          PROVE  \E d \in Clientes : Tiene(d, u)'
      <4>1. ListaDir(u, dir'[u].addr)
          BY <3>2, <3>4 DEF ListaDir
      <4> QED
          BY <1>2, <3>1, <3>4, <4>1 DEF AcuerdoInv, ListaDir
    <3> QED
        BY <3>3, <3>4 DEF AcuerdoInv
  <2> QED
      BY <2>1, <2>2, <2>3
<1> QED
    BY <1>8, <1>9

-----------------------------------------------------------------------------
(* The system.                                                             *)

LEMMA InitIInv == Init => IInv
<1> SUFFICES ASSUME Init PROVE IInv
    OBVIOUS
<1>1. OrdenInv
    BY DEF Init, OrdenInv, EnCurso
<1>2. OyenteInv
    BY DEF Init, OyenteInv, Activo
<1>3. \A c \in Clientes, u \in Users : ~Tiene(c, u)
    BY ClienteAssumption DEF Init, Tiene, ClienteAssumption
<1>4. SesionInv
    BY <1>3 DEF Init, SesionInv
<1>5. AlmacenInv /\ TypeOK
  <2>1. cola \in [Clientes -> Seq(Clientes)]
      BY DEF Init
  <2>2. AlmacenInv
      BY ClienteAssumption DEF Init, AlmacenInv, ClienteAssumption
  <2> QED
      BY <2>1, <2>2 DEF Init, TypeOK, AlmacenInv, Solido
<1>6. TomaInv
    BY DEF Init, TomaInv, HiloInv, PuertoInv, PasoInv, Abierto
<1>7. CitaInv
  <2>1. \A e, x \in Clientes : ~Cita(e, x) /\ sh[x] = "libre" /\ cola[e] = <<>> /\ oyente[e] = "no"
      BY DEF Init, Cita, InCola
  <2> QED
      BY <2>1 DEF Init, CitaInv, Conversando
<1>8. SinFallos => AcuerdoInv
  <2>1. SinFallos => Conectados(almacen) = {} /\ NombresUnicos(almacen)
      BY DEF Init, SinFallos
  <2>2. SinFallos => \A u : ~Conectado(u)
      BY <1>5, <2>1, EnLinea DEF AlmacenInv, Conectado, dir, R!Online, R!Known
  <2> QED
      BY <1>3, <2>2 DEF AcuerdoInv, Conectado
<1> QED
    BY <1>1, <1>2, <1>4, <1>5, <1>6, <1>7, <1>8 DEF IInv

\* The steps of a client that can change a connection.
LEMMA CitaStep ==
    ASSUME TypeOK, OrdenInv, OyenteInv, SesionInv, TomaInv, CitaInv, SinFallos, SinFallos',
           NEW c \in Clientes, Avanza(c)
    PROVE  CitaInv'
<1>1. CASE Ordena(c)
    BY <1>1, CitaOrdena
<1>2. CASE Oyente(c)
    BY <1>2, CitaOyente
<1>3. CASE Llama(c) \/ Dice(c)
    BY <1>3, CitaLlama, CitaDice
<1>4. ~Muere(c)
    BY DEF Muere, SinFallos
<1>5. CASE Sale(c) \/ Acaba(c) \/ Recibe(c) \/ Gira(c) \/ Excepcion(c) \/ LlamaFalla(c)
             \/ Oye(c) \/ OyeFalla(c) \/ OyeNada(c) \/ Une(c) \/ Sirve(c) \/ Calla(c)
    BY <1>5, CitaShell
<1> QED
    BY <1>1, <1>2, <1>3, <1>4, <1>5 DEF Avanza, Shell

LEMMA StepIInv == IInv /\ [Next]_vars => IInv'
<1> SUFFICES ASSUME IInv, [Next]_vars PROVE IInv'
    OBVIOUS
<1>1. ASSUME NEW c \in Clientes, Avanza(c) PROVE IInv'
  <2>1. OrdenInv' /\ OyenteInv'
      BY <1>1, OrdenStep DEF IInv
  <2>2. SesionInv'
      BY <1>1, SesionSinServir, SesionSirve DEF IInv
  <2>3. AlmacenInv' /\ TypeOK'
      BY <1>1, <2>1, AlmacenStep, TipoStep DEF IInv
  <2>4. TomaInv'
      BY <1>1, TomaStep DEF IInv
  <2>5. ASSUME SinFallos' PROVE CitaInv' /\ AcuerdoInv'
    <3>1. SinFallos
        BY <1>1, <2>5, AveriasCrecen DEF SinFallos
    <3>2. CitaInv'
        BY <1>1, <2>5, <3>1, CitaStep DEF IInv
    <3>3. AcuerdoInv'
        BY <1>1, <2>5, <3>1, AcuerdoShell, AcuerdoSirve DEF IInv
    <3> QED
        BY <3>2, <3>3
  <2> QED
      BY <2>1, <2>2, <2>3, <2>4, <2>5 DEF IInv
<1>2. ASSUME Cae PROVE IInv'
  <2>1. OrdenInv' /\ OyenteInv'
      BY <1>2 DEF IInv, OrdenInv, OyenteInv, Activo, Cae, tomas, escucha, entre
  <2>2. AlmacenInv'
    <3>1. Solido(<<>>) /\ NombresUnicos(<<>>)
        BY DEF Solido, NombresUnicos
    <3>2. averias \subseteq averias' /\ (almacen' = almacen \/ almacen' = <<>>)
        BY <1>2 DEF Cae
    <3> QED
        BY <3>1, <3>2 DEF IInv, AlmacenInv
  <2>3. /\ "caida" \in averias' /\ averias \subseteq averias' /\ sh' = sh
        /\ ~SinAverias' /\ ~SinFallos'
      BY <1>2 DEF Cae, SinAverias, SinFallos
  <2>4. SesionInv'
      BY <2>3 DEF IInv, SesionInv
  <2>5. TomaInv'
      BY <1>2, <2>3 DEF IInv, TomaInv, HiloInv, PuertoInv, PasoInv, Abierto, Cae, tomas,
                        escucha, entre
  <2>6. TypeOK'
    <3>1. almacen' \in Seq(Tupla)
        BY <2>2 DEF AlmacenInv, Solido
    <3> QED
        BY <1>2, <2>1, <3>1 DEF IInv, OrdenInv, TypeOK, Cae, tomas, escucha, entre
  <2> QED
      BY <2>1, <2>2, <2>3, <2>4, <2>5, <2>6 DEF IInv
<1>3. ASSUME Levanta \/ Quieto \/ UNCHANGED vars PROVE IInv'
  <2>1. /\ UNCHANGED <<almacen, roto, usuario, sh, orden, codigo, puerto, zocalo, oyente, atiende,
                       cola, par, dicho, eco, averias>>
        /\ arriba' \in BOOLEAN
      BY <1>3 DEF Levanta, Quieto, vars, tomas, escucha, entre, IInv, TypeOK
  <2>0. dir' = dir
      BY <2>1 DEF dir
  <2>2. OrdenInv' /\ OyenteInv' /\ SesionInv'
      BY <2>0, <2>1 DEF IInv, OrdenInv, OyenteInv, Activo, SesionInv, SinAverias, Tiene, DeBaja,
                  Conectado
  <2>3. AlmacenInv' /\ TypeOK'
      BY <2>1 DEF IInv, AlmacenInv, TypeOK
  <2>4. TomaInv'
      BY <2>1 DEF IInv, TomaInv, HiloInv, PuertoInv, PasoInv, Abierto
  <2>5. (SinFallos => CitaInv)'
      BY <2>1, DestinoIgual DEF IInv, SinFallos, CitaInv, Cita, InCola, Activo
  <2>6. (SinFallos => AcuerdoInv)'
      BY <2>0, <2>1 DEF IInv, SinFallos, AcuerdoInv, Tiene, DeBaja, ListaDir
  <2> QED
      BY <2>2, <2>3, <2>4, <2>5, <2>6 DEF IInv
<1> QED
    BY <1>1, <1>2, <1>3 DEF Next, Avanza

\* The inductive invariant of the clients and their server.
THEOREM Invariante == Spec => []IInv
BY InitIInv, StepIInv, PTL DEF Spec

\* The attributes of the clients, the queues and the connections have their types,
\* and so has the store, whatever is typed and whatever fails.
THEOREM TypeCorrect == Spec => []TypeOK
<1>1. IInv => TypeOK
    BY DEF IInv
<1> QED
    BY <1>1, Invariante, PTL

\* No two terminals are connected as one user, for any number of clients,
\* ports and commands, as long as the server keeps its store, every
\* disconnect it has served reaches its client, no client is killed, and no name
\* is registered a second time, which the server accepts unless it is the name in
\* its first tuple (server.c 272) and which does let a second terminal in.
THEOREM UserInOneSession == Spec => []OneSession
<1>1. IInv => OneSession
    BY DEF IInv, SesionInv, SinAverias, OneSession, Tiene, DeBaja, Desfase, OrdenInv
<1> QED
    BY <1>1, Invariante, PTL

\* Whatever fails, a client without a user has no listening thread.
THEOREM ListenerEnds == Spec => []NoOrphanListener
<1>1. IInv => NoOrphanListener
    BY DEF IInv, OyenteInv, NoOrphanListener
<1> QED
    BY <1>1, Invariante, PTL

\* The socket of a client the server has connected is open.
LEMMA TieneAbierto ==
    ASSUME OrdenInv, TomaInv, CitaInv, AcuerdoInv, NEW c \in Clientes, NEW u \in Users,
           Tiene(c, u), SinFallos
    PROVE  Abierto(c)
<1>1. CASE usuario[c] = u /\ ~DeBaja(c)
  <2>1. usuario[c] # NoUser /\ sh[c] # "une"
      BY <1>1, ClienteAssumption DEF ClienteAssumption, DeBaja, TomaInv, PasoInv
  <2> QED
      BY <2>1 DEF CitaInv, TomaInv, HiloInv, Activo, Abierto
<1>2. CASE sh[c] = "servida" /\ orden[c].op = "connect"
    BY <1>2 DEF TomaInv, PasoInv, Abierto
<1> QED
    BY <1>1, <1>2 DEF Tiene

\* Where the store lists a user is where the directory has it.
LEMMA ListaEs ==
    ASSUME AlmacenInv, SinFallos
    PROVE  /\ \A u, a : a # NoAddr => (Lista(u, a) <=> ListaDir(u, a))
           /\ \A i \in Conectados(almacen) :
                 /\ ListaDir(almacen[i].cliente, almacen[i].addr)
                 /\ almacen[i].addr # NoAddr
<1>1. Solido(almacen) /\ NombresUnicos(almacen)
    BY DEF AlmacenInv, SinFallos
<1>2. ASSUME NEW i \in Conectados(almacen)
      PROVE  /\ ListaDir(almacen[i].cliente, almacen[i].addr)
             /\ almacen[i].addr # NoAddr
  <2>1. i \in 1 .. Len(almacen) /\ almacen[i].connected = 1
      BY DEF Conectados
  <2>2. /\ R!Known(dir, almacen[i].cliente)
        /\ dir[almacen[i].cliente].addr = almacen[i].addr
      BY <1>1, <2>1, EntradaVista, CamposEntrada DEF dir
  <2> QED
      BY <1>1, <2>1, <2>2 DEF ListaDir, R!Known, Solido
<1>3. ASSUME NEW u, NEW a, a # NoAddr, ListaDir(u, a) PROVE Lista(u, a)
  <2>1. u \in DOMAIN dir /\ R!Online(dir, u)
      BY <1>3 DEF ListaDir, R!Online, R!Known
  <2>2. PICK i \in Conectados(almacen) : almacen[i].cliente = u
      BY <1>1, <2>1, EnLinea DEF dir
  <2> QED
      BY <1>2, <1>3, <2>2 DEF Lista, ListaDir
<1> QED
    BY <1>2, <1>3 DEF Lista

\* Client and server agree on who is connected, and from where, as long as no
\* server and no client has ended, no name is registered a second time (server.c
\* 272), and no listening thread has been ended by a disconnect that raises, a
\* file named "end" or a file name it cannot decode (client.py 513, 701).
THEOREM SessionsAgree == Spec => []SessionAgrees
<1>1. ASSUME IInv, SinFallos, NEW c \in Clientes, usuario[c] # NoUser, ~Desfase(c)
      PROVE  Lista(usuario[c], puerto[c]) /\ Activo(c)
  <2>1. usuario[c] \in Users /\ ~DeBaja(c)
      BY <1>1 DEF IInv, OrdenInv, Desfase, DeBaja
  <2>2. sh[c] # "une"
      BY <1>1 DEF IInv, TomaInv, PasoInv, Desfase
  <2>3. ListaDir(usuario[c], puerto[c]) /\ Activo(c)
      BY <1>1, <2>1, <2>2 DEF IInv, AcuerdoInv, CitaInv, Tiene
  <2>4. puerto[c] # NoAddr
      BY <1>1, <2>3, AlmacenAssumption
         DEF AlmacenAssumption, IInv, TomaInv, HiloInv, PuertoInv, Activo, Abierto
  <2> QED
      BY <1>1, <2>3, <2>4, ListaEs DEF IInv
<1>2. ASSUME IInv, SinFallos, NEW i \in Conectados(almacen),
             NEW u, u = almacen[i].cliente
      PROVE  \E c \in Clientes :
                 /\ puerto[c] = almacen[i].addr /\ Abierto(c)
                 /\ usuario[c] = u \/ (sh[c] = "servida" /\ orden[c].user = u)
  <2>0. u \in DOMAIN dir /\ dir[u].addr = almacen[i].addr /\ dir[u].addr # NoAddr
      BY <1>2, ListaEs DEF IInv, ListaDir
  <2>1. u \in Users
      BY <1>2, <2>0, CamposDir DEF IInv
  <2>2. PICK c \in Clientes : Tiene(c, u)
      BY <1>2, <2>0 DEF IInv, AcuerdoInv
  <2>3. puerto[c] = almacen[i].addr
      BY <1>2, <2>0, <2>1, <2>2 DEF IInv, AcuerdoInv, ListaDir
  <2>4. Abierto(c)
      BY <1>2, <2>1, <2>2, TieneAbierto DEF IInv
  <2> QED
      BY <2>2, <2>3, <2>4 DEF Tiene
<1>3. IInv => SessionAgrees
    BY <1>1, <1>2 DEF SessionAgrees, SinFallos
<1> QED
    BY <1>3, Invariante, PTL

\* A get_file reaches a terminal of the user it names as long as the server lists
\* that user where it said, whatever ports have changed hands in between, while
\* nothing fails but threads of the server and no name is registered a second
\* time (client.py 461-472).
THEOREM GetFileReaches == Spec => []RightPeer
<1>1. ASSUME IInv, SinFallos, NEW c \in Clientes,
             sh[c] \in {"dice", "oye"}, eco[c] = "nada", Lista(orden[c].user, Destino(c))
      PROVE  usuario[par[c]] = orden[c].user
  <2> DEFINE e == par[c]
             u == orden[c].user
  <2>1. e \in Clientes /\ puerto[e] = Destino(c) /\ Cita(e, c)
      BY <1>1 DEF IInv, CitaInv, Conversando
  <2>2. zocalo[e] = "escucha"
      BY <1>1, <2>1 DEF IInv, TomaInv, HiloInv, Cita, InCola
  <2>3. puerto[e] \in Addrs /\ puerto[e] # NoAddr
      BY <1>1, <2>1, <2>2, AlmacenAssumption
         DEF IInv, TomaInv, PuertoInv, Abierto, AlmacenAssumption
  <2>4. u \in Users /\ u \in DOMAIN dir /\ dir[u].addr = puerto[e]
      BY <1>1, <2>1, <2>3, ListaEs, CamposDir DEF IInv, ListaDir
  <2>5. PICK d \in Clientes : Tiene(d, u)
      BY <1>1, <2>3, <2>4 DEF IInv, AcuerdoInv
  <2>6. puerto[d] = puerto[e] /\ Abierto(d)
      BY <1>1, <2>4, <2>5, TieneAbierto DEF IInv, AcuerdoInv, ListaDir
  <2>7. d = e
      BY <1>1, <2>1, <2>2, <2>6 DEF IInv, TomaInv, PuertoInv, Abierto
  <2>8. ~(sh[e] = "servida" /\ orden[e].op = "connect")
      BY <1>1, <2>1, <2>2 DEF IInv, TomaInv, PasoInv
  <2> QED
      BY <2>5, <2>7, <2>8 DEF Tiene
<1>2. IInv => RightPeer
    BY <1>1 DEF RightPeer, SinFallos
<1> QED
    BY <1>2, Invariante, PTL

-----------------------------------------------------------------------------
(* Who waits for whom, whatever has failed.                                *)

\* The thread of e takes connections or reads from one.
Atento(e) == oyente[e] \in {"acepta", "lee"}

\* What is known of x when an attentive thread has its connection still to serve.
EnEspera(e, x) ==
    sh[x] = "fuera" \/ (sh[x] \in Conversando /\ par[x] = e /\ eco[x] = "nada")

\* A shell has called its own thread to end it.
Despide(c) == sh[c] \in {"dice", "une"} /\ orden[c].op = "disconnect"

\* The counterpart of CitaInv when clients have been killed and threads have ended:
\* a shell that can read nothing yet is in the queue it called, or being served, and
\* a thread that serves has nobody in its queue but such shells and killed clients.
EsperaInv ==
    /\ \A c \in Clientes : sh[c] \in Conversando => par[c] \in Clientes
    /\ \A c \in Clientes : sh[c] \in Conversando /\ eco[c] = "nada" => Cita(par[c], c)
    /\ \A e, x \in Clientes : Atento(e) /\ Cita(e, x) => EnEspera(e, x)
    /\ \A e \in Clientes : Atento(e) =>
          \A j, k \in 1 .. Len(cola[e]) : cola[e][j] = cola[e][k] => j = k
    /\ \A e \in Clientes : oyente[e] = "lee" =>
          atiende[e] \in Clientes /\ ~InCola(e, atiende[e])
    /\ \A c \in Clientes :
          sh[c] \notin Conversando \cup {"gira", "fuera"} =>
              eco[c] = "nada" /\ par[c] = NoPar /\ dicho[c] = NoName
    /\ \A c \in Clientes : sh[c] \in {"oye", "une"} => dicho[c] # NoName
    /\ \A c \in Clientes : Despide(c) =>
          par[c] = c /\ dicho[c] \notin Files \ {End} /\ (Activo(c) => eco[c] = "nada")

\* The step of a shell that has no connection afterwards and that no thread is
\* to serve.
LEMMA EsperaIgual ==
    ASSUME EsperaInv, NEW c \in Clientes, UNCHANGED <<cola, atiende>>,
           \A d \in Clientes \ {c} : Comando(d),
           \A e \in Clientes : oyente'[e] = oyente[e] \/ (e = c /\ oyente[c] = "no" /\ ~Atento(c)'),
           \A e \in Clientes : ~(Atento(e) /\ Cita(e, c)),
           sh'[c] \notin Conversando,
           sh'[c] \in {"gira", "fuera"}
               \/ (eco'[c] = "nada" /\ par'[c] = NoPar /\ dicho'[c] = NoName)
    PROVE  EsperaInv'
<1> USE DEF Comando
<1>1. \A e \in Clientes :
          Atento(e)' => Atento(e) /\ (oyente'[e] = "lee" <=> oyente[e] = "lee")
    BY DEF Atento
<1>2. \A e \in Clientes : \A x : InCola(e, x)' <=> InCola(e, x)
    BY DEF InCola
<1>3. \A e, x \in Clientes : Cita(e, x)' <=> Cita(e, x)
  <2>1. \A e \in Clientes : oyente'[e] = "lee" <=> oyente[e] = "lee"
      BY <1>1 DEF Atento
  <2> QED
      BY <1>2, <2>1 DEF Cita
<1>4. \A d \in Clientes : sh'[d] \in Conversando => par'[d] \in Clientes
    BY DEF EsperaInv
<1>5. \A d \in Clientes : sh'[d] \in Conversando /\ eco'[d] = "nada" => Cita(par[d], d)'
    BY <1>3, <1>4 DEF EsperaInv
<1>6. \A e, x \in Clientes : Atento(e)' /\ Cita(e, x)' => EnEspera(e, x)'
  <2> SUFFICES ASSUME NEW e \in Clientes, NEW x \in Clientes, Atento(e)', Cita(e, x)'
               PROVE  EnEspera(e, x)'
      OBVIOUS
  <2>1. Atento(e) /\ Cita(e, x) /\ x # c
      BY <1>1, <1>3
  <2> QED
      BY <2>1 DEF EsperaInv, EnEspera
<1>7. /\ \A e \in Clientes : Atento(e)' =>
            \A j, k \in 1 .. Len(cola'[e]) : cola'[e][j] = cola'[e][k] => j = k
      /\ \A e \in Clientes : oyente'[e] = "lee" =>
            atiende'[e] \in Clientes /\ ~InCola(e, atiende[e])'
    BY <1>1, <1>2 DEF EsperaInv, Atento
<1>8. /\ \A d \in Clientes :
            sh'[d] \notin Conversando \cup {"gira", "fuera"} =>
                eco'[d] = "nada" /\ par'[d] = NoPar /\ dicho'[d] = NoName
      /\ \A d \in Clientes : sh'[d] \in {"oye", "une"} => dicho'[d] # NoName
      /\ \A d \in Clientes : Despide(d)' =>
            par'[d] = d /\ dicho'[d] \notin Files \ {End} /\ (Activo(d)' => eco'[d] = "nada")
    BY DEF EsperaInv, Conversando, Despide, Activo
<1> QED
    BY <1>4, <1>5, <1>6, <1>7, <1>8 DEF EsperaInv

\* The step of a thread, or the end of a socket.
LEMMA EsperaHilo ==
    ASSUME EsperaInv, NEW e \in Clientes, UNCHANGED <<par, dicho>>,
           \A x \in Clientes \ {e} : sh'[x] = sh[x] /\ orden'[x] = orden[x],
           (sh'[e] = sh[e] /\ orden' = orden) \/ (sh'[e] \notin Conversando /\ ~Atento(e)'),
           sh'[e] \notin Conversando \cup {"gira", "fuera"} =>
               sh[e] \notin Conversando \cup {"gira", "fuera"},
           sh[e] = "fuera" => sh'[e] = "fuera",
           sh'[e] = "fuera" \/ sh'[e] = sh[e] \/ \A f \in Clientes : ~(Atento(f) /\ Cita(f, e)),
           \A f \in Clientes \ {e} :
               oyente'[f] = oyente[f] /\ atiende'[f] = atiende[f] /\ cola'[f] = cola[f],
           \A x \in Clientes : eco'[x] = eco[x] \/ (eco'[x] # "nada" /\ par[x] = e)
                                 \/ (eco'[x] # "nada" /\ Atento(e) /\ Cita(e, x)),
           \A x \in Clientes : Cita(e, x) /\ par[x] = e /\ sh[x] \in Conversando
                                 /\ eco'[x] = "nada" => Cita(e, x)',
           Atento(e)' => \A x \in Clientes : Cita(e, x)' =>
                             Atento(e) /\ Cita(e, x) /\ eco'[x] = eco[x],
           Atento(e)' => \A j, k \in 1 .. Len(cola'[e]) : cola'[e][j] = cola'[e][k] => j = k,
           oyente'[e] = "lee" => atiende'[e] \in Clientes /\ ~InCola(e, atiende[e])',
           \A x \in Clientes : Activo(x)' => Activo(x),
           Despide(e)' /\ Activo(e)' => eco'[e] = eco[e]
    PROVE  EsperaInv'
<1>1. \A f \in Clientes \ {e} : \A x : InCola(f, x)' <=> InCola(f, x)
    BY DEF InCola
<1>2. \A f \in Clientes \ {e}, x \in Clientes : Cita(f, x)' <=> Cita(f, x)
    BY <1>1 DEF Cita
<1>3. \A f \in Clientes \ {e} : Atento(f)' <=> Atento(f)
    BY DEF Atento
<1>4. ASSUME NEW x \in Clientes, eco'[x] # eco[x]
      PROVE  (sh[x] = "fuera" \/ par[x] = e) /\ eco'[x] # "nada"
    BY <1>4 DEF EsperaInv, EnEspera
<1>5. \A x \in Clientes : sh'[x] \in Conversando => sh'[x] = sh[x]
    OBVIOUS
<1>6. ASSUME NEW x \in Clientes, sh'[x] \in Conversando, eco'[x] = "nada"
      PROVE  Cita(par[x], x)'
  <2>1. eco[x] = "nada" /\ sh[x] \in Conversando
      BY <1>4, <1>5, <1>6
  <2>2. Cita(par[x], x) /\ par[x] \in Clientes
      BY <2>1 DEF EsperaInv
  <2>3. CASE par[x] = e
      BY <1>6, <2>1, <2>2, <2>3
  <2>4. CASE par[x] # e
      BY <1>2, <2>2, <2>4
  <2> QED
      BY <2>3, <2>4
<1>7. ASSUME NEW f \in Clientes, NEW x \in Clientes, Atento(f)', Cita(f, x)'
      PROVE  EnEspera(f, x)'
  <2>1. Atento(f) /\ Cita(f, x)
      BY <1>2, <1>3, <1>7
  <2>2. EnEspera(f, x)
      BY <2>1 DEF EsperaInv
  <2>3. CASE sh[x] = "fuera"
      BY <2>3 DEF EnEspera
  <2>4. CASE sh[x] # "fuera"
    <3>1. sh[x] \in Conversando /\ par[x] = f /\ eco[x] = "nada"
        BY <2>2, <2>4 DEF EnEspera
    <3>2. eco'[x] = eco[x]
      <4>1. CASE f = e
          BY <1>7, <4>1
      <4>2. CASE f # e
          BY <1>4, <2>4, <3>1, <4>2
      <4> QED
          BY <4>1, <4>2
    <3>3. sh'[x] = sh[x] \/ sh'[x] = "fuera"
        BY <2>1
    <3> QED
        BY <3>1, <3>2, <3>3 DEF EnEspera
  <2> QED
      BY <2>3, <2>4
<1>8. /\ \A f \in Clientes : Atento(f)' =>
            \A j, k \in 1 .. Len(cola'[f]) : cola'[f][j] = cola'[f][k] => j = k
      /\ \A f \in Clientes : oyente'[f] = "lee" =>
            atiende'[f] \in Clientes /\ ~InCola(f, atiende[f])'
    BY <1>1, <1>3 DEF EsperaInv
<1>9. ASSUME NEW x \in Clientes, sh'[x] \notin Conversando \cup {"gira", "fuera"}
      PROVE  eco'[x] = "nada" /\ par'[x] = NoPar /\ dicho'[x] = NoName
  <2>1. sh[x] \notin Conversando \cup {"gira", "fuera"}
      BY <1>9
  <2>2. eco[x] = "nada" /\ par[x] = NoPar /\ dicho[x] = NoName /\ x # par[x]
      BY <2>1, ClienteAssumption DEF EsperaInv, ClienteAssumption
  <2>3. eco'[x] = eco[x]
      BY <1>4, <1>9, <2>1, <2>2, ClienteAssumption DEF ClienteAssumption
  <2> QED
      BY <2>2, <2>3
<1>10. /\ \A x \in Clientes : sh'[x] \in Conversando => par'[x] \in Clientes
       /\ \A x \in Clientes : sh'[x] \in {"oye", "une"} => dicho'[x] # NoName
    BY <1>5 DEF EsperaInv, Conversando
<1>11. ASSUME NEW x \in Clientes, Despide(x)'
       PROVE  par'[x] = x /\ dicho'[x] \notin Files \ {End} /\ (Activo(x)' => eco'[x] = "nada")
  <2>1. Despide(x) /\ sh[x] # "fuera"
      BY <1>5, <1>11 DEF Despide, Conversando
  <2>2. par[x] = x /\ dicho[x] \notin Files \ {End} /\ (Activo(x) => eco[x] = "nada")
      BY <2>1 DEF EsperaInv
  <2>3. Activo(x)' => eco'[x] = eco[x]
      BY <1>4, <1>11, <2>1, <2>2
  <2> QED
      BY <2>2, <2>3
<1> QED
    BY <1>6, <1>7, <1>8, <1>9, <1>10, <1>11 DEF EsperaInv

\* A shell without a connection, and one that has something to read, is served
\* by nobody.
LEMMA NadieAtiende ==
    ASSUME EsperaInv, NEW c \in Clientes, sh[c] # "fuera",
           sh[c] \notin Conversando \/ eco[c] # "nada"
    PROVE  \A e \in Clientes : ~(Atento(e) /\ Cita(e, c))
BY DEF EsperaInv, EnEspera

LEMMA DejaEspera ==
    ASSUME TypeOK, OrdenInv, NEW c \in Clientes, Devuelve(c) \/ Lanza(c)
    PROVE  par'[c] = NoPar
BY DEF Devuelve, Lanza, Deja, TypeOK, OrdenInv

LEMMA EsperaShell ==
    ASSUME TypeOK, OrdenInv, OyenteInv, TomaInv, EsperaInv, NEW c \in Clientes,
           Sale(c) \/ Recibe(c) \/ Gira(c) \/ Excepcion(c) \/ LlamaFalla(c)
             \/ Oye(c) \/ OyeFalla(c) \/ OyeNada(c) \/ Une(c) \/ Sirve(c) \/ Calla(c)
    PROVE  EsperaInv'
<1> USE DEF OrdenInv, EnCurso, Pasa, servidor, tomas, escucha, entre
<1>0. sh[c] \notin Conversando \cup {"gira", "fuera"} =>
           eco[c] = "nada" /\ par[c] = NoPar /\ dicho[c] = NoName
    BY DEF EsperaInv
<1>1. ASSUME Sale(c) \/ Sirve(c) \/ Calla(c) \/ Gira(c) \/ (Recibe(c) /\ Pasa(c, "llama"))
      PROVE  EsperaInv'
  <2>1. /\ sh[c] \in {"libre", "espera", "servida", "huerfana", "muda"}
        /\ sh' \in {[sh EXCEPT ![c] = x] :
                       x \in {"sale", "servida", "muda", "gira", "fuera", "llama"}}
        /\ UNCHANGED <<orden, par, dicho, eco, oyente, cola, atiende>>
        /\ \A d \in Clientes \ {c} : codigo'[d] = codigo[d]
      BY <1>1 DEF Sale, Sirve, Calla, Gira, Recibe, RecibeConnect, Devuelve, Deja
  <2>2. \A d \in Clientes \ {c} : Comando(d)
      BY <2>1 DEF Comando
  <2>3. sh[c] \notin Conversando \cup {"gira", "fuera"} /\ sh'[c] \notin Conversando
      BY <2>1 DEF Conversando
  <2>4. \A e \in Clientes : ~(Atento(e) /\ Cita(e, c))
      BY <2>3, NadieAtiende
  <2> QED
      BY <1>0, <2>1, <2>2, <2>3, <2>4, EsperaIgual
<1>2. ASSUME RecibeConnect(c), Recibe(c), orden[c].op = "connect" PROVE EsperaInv'
  <2>1. /\ sh[c] = "servida" /\ Devuelve(c)
        /\ oyente' = [oyente EXCEPT ![c] = "arranca"]
        /\ UNCHANGED <<cola, atiende>>
      BY <1>2 DEF Recibe, RecibeConnect
  <2>2. oyente[c] = "no" /\ ~Atento(c)'
      BY <1>2, <2>1 DEF TomaInv, PasoInv, Atento
  <2>3. \A e \in Clientes : ~(Atento(e) /\ Cita(e, c))
      BY <2>1, NadieAtiende DEF Conversando
  <2> QED
      BY <2>1, <2>2, <2>3, DejaCita, DejaEspera, EsperaIgual DEF Conversando
<1>3. ASSUME \/ LlamaFalla(c) \/ Excepcion(c) \/ Oye(c) \/ OyeFalla(c)
             \/ Recibe(c) /\ Devuelve(c) /\ UNCHANGED <<usuario, escucha, cola>>
      PROVE  EsperaInv'
  <2>1. /\ Devuelve(c) \/ Lanza(c)
        /\ UNCHANGED <<oyente, cola, atiende>>
      BY <1>3 DEF Recibe, LlamaFalla, Excepcion, Oye, OyeFalla
  <2>2. sh[c] # "fuera" /\ (sh[c] \notin Conversando \/ eco[c] # "nada")
      BY <1>3 DEF Recibe, LlamaFalla, Excepcion, Oye, OyeFalla, Conversando
  <2>3. \A e \in Clientes : ~(Atento(e) /\ Cita(e, c))
      BY <2>2, NadieAtiende
  <2> QED
      BY <2>1, <2>3, DejaCita, DejaEspera, EsperaIgual DEF Conversando
<1>4. ASSUME OyeNada(c) PROVE EsperaInv'
  <2>1. \A d \in Clientes \ {c} : Comando(d)
      BY <1>4 DEF OyeNada, Comando
  <2>2. \A e \in Clientes : ~(Atento(e) /\ Cita(e, c))
      BY <1>4, NadieAtiende DEF OyeNada
  <2> QED
      BY <1>4, <2>1, <2>2, EsperaIgual DEF OyeNada, Conversando
<1>5. ASSUME Une(c) PROVE EsperaInv'
  <2>1. /\ sh[c] = "une" /\ ~Activo(c) /\ Devuelve(c)
        /\ UNCHANGED <<oyente, cola, atiende>>
      BY <1>5 DEF Une, HaTerminado
  <2>2. par[c] = c
      BY <2>1 DEF TomaInv, PasoInv, EsperaInv, Despide
  <2>3. \A e \in Clientes : ~(Atento(e) /\ Cita(e, c))
      BY <2>1, <2>2 DEF EsperaInv, EnEspera, Atento, Activo
  <2> QED
      BY <2>1, <2>3, DejaCita, DejaEspera, EsperaIgual DEF Conversando
<1>6. CASE Recibe(c)
    BY <1>1, <1>2, <1>3, <1>6 DEF Recibe
<1> QED
    BY <1>1, <1>3, <1>4, <1>5, <1>6

\* A shell that calls is not in any queue that is served yet, and a disconnect
\* calls its own thread.
LEMMA EsperaLlama ==
    ASSUME TypeOK, OrdenInv, TomaInv, EsperaInv, NEW c \in Clientes, Llama(c)
    PROVE  EsperaInv'
<1> USE DEF OrdenInv, EnCurso, Pasa, servidor, tomas, escucha, entre
<1>1. PICK e \in Clientes :
        /\ Alcanza(c, e)
        /\ cola' = [cola EXCEPT ![e] = Append(@, c)]
        /\ par' = [par EXCEPT ![c] = e]
    BY DEF Llama
<1>2. /\ sh[c] = "llama" /\ sh' = [sh EXCEPT ![c] = "dice"]
      /\ UNCHANGED <<oyente, atiende, dicho, eco, orden, codigo>>
    BY DEF Llama
<1>3. \A f \in Clientes : ~(Atento(f) /\ Cita(f, c))
    BY <1>2, NadieAtiende DEF Conversando
<1>4. DOMAIN par = Clientes /\ cola \in [Clientes -> Seq(Clientes)]
    BY DEF TypeOK
<1>5. eco[c] = "nada" /\ dicho[c] = NoName
    BY <1>2 DEF EsperaInv, Conversando
<1>6. orden[c].op = "disconnect" => e = c
    BY <1>1 DEF Alcanza, Destino, Abierto, TomaInv, PuertoInv
<1>7. /\ Len(cola'[e]) = Len(cola[e]) + 1 /\ Len(cola[e]) \in Nat
      /\ \A k \in 1 .. Len(cola[e]) : cola'[e][k] = cola[e][k]
      /\ cola'[e][Len(cola[e]) + 1] = c
      /\ \A f \in Clientes \ {e} : cola'[f] = cola[f]
    BY <1>1, <1>4
<1>8. \A f \in Clientes : \A x : InCola(f, x)' <=> InCola(f, x) \/ (f = e /\ x = c)
    BY <1>7 DEF InCola
<1>9. \A f, x \in Clientes : Cita(f, x)' <=> Cita(f, x) \/ (f = e /\ x = c)
    BY <1>2, <1>8 DEF Cita
<1>10. \A f \in Clientes : Atento(f)' <=> Atento(f)
    BY <1>2 DEF Atento
<1>11. ASSUME NEW d \in Clientes, sh'[d] \in Conversando, NEW f, par'[d] = f
       PROVE  f \in Clientes /\ (eco'[d] = "nada" => Cita(f, d)')
  <2>1. CASE d = c
      BY <1>1, <1>4, <1>9, <1>11, <2>1
  <2>2. CASE d # c
    <3>1. sh[d] \in Conversando /\ par[d] = f /\ eco'[d] = eco[d]
        BY <1>1, <1>2, <1>4, <1>11, <2>2
    <3>2. f \in Clientes /\ (eco[d] = "nada" => Cita(f, d))
        BY <3>1 DEF EsperaInv
    <3> QED
        BY <1>9, <3>1, <3>2
  <2> QED
      BY <2>1, <2>2
<1>12. ASSUME NEW f \in Clientes, NEW x \in Clientes, Atento(f)', Cita(f, x)'
       PROVE  EnEspera(f, x)'
  <2>1. CASE x = c
      BY <1>1, <1>2, <1>3, <1>4, <1>5, <1>9, <1>10, <1>12, <2>1 DEF EnEspera, Conversando
  <2>2. CASE x # c
    <3>1. EnEspera(f, x)
        BY <1>9, <1>10, <1>12, <2>2 DEF EsperaInv
    <3> QED
        BY <1>1, <1>2, <2>2, <3>1 DEF EnEspera
  <2> QED
      BY <2>1, <2>2
<1>13. ASSUME NEW f \in Clientes, Atento(f)'
       PROVE  \A j, k \in 1 .. Len(cola'[f]) : cola'[f][j] = cola'[f][k] => j = k
  <2>1. /\ \A j, k \in 1 .. Len(cola[f]) : cola[f][j] = cola[f][k] => j = k
        /\ ~InCola(f, c)
      BY <1>3, <1>10, <1>13 DEF EsperaInv, Cita
  <2>2. CASE f = e
    <3>1. \A k \in 1 .. Len(cola[e]) : cola[e][k] # c
        BY <2>1, <2>2 DEF InCola
    <3>2. \A k \in 1 .. Len(cola'[e]) : k \in 1 .. Len(cola[e]) \/ k = Len(cola[e]) + 1
        BY <1>7
    <3>3. ASSUME NEW j \in 1 .. Len(cola'[e]), NEW k \in 1 .. Len(cola'[e]),
                 cola'[e][j] = cola'[e][k]
          PROVE  j = k
      <4>1. CASE j \in 1 .. Len(cola[e]) /\ k \in 1 .. Len(cola[e])
          BY <1>7, <2>1, <2>2, <3>3, <4>1
      <4>2. CASE j = Len(cola[e]) + 1 \/ k = Len(cola[e]) + 1
          BY <1>7, <3>1, <3>2, <3>3, <4>2
      <4> QED
          BY <3>2, <4>1, <4>2
    <3> QED
        BY <2>2, <3>3
  <2>3. CASE f # e
      BY <1>7, <2>1, <2>3
  <2> QED
      BY <2>2, <2>3
<1>14. ASSUME NEW f \in Clientes, oyente'[f] = "lee"
       PROVE  atiende'[f] \in Clientes /\ ~InCola(f, atiende[f])'
  <2>1. atiende[f] \in Clientes /\ ~InCola(f, atiende[f])
      BY <1>2, <1>14 DEF EsperaInv
  <2>2. atiende[f] # c
      BY <1>2, <1>3, <1>14 DEF Atento, Cita
  <2>3. ASSUME NEW x, x = atiende[f], x # c, ~InCola(f, x) PROVE ~InCola(f, x)'
      BY <1>8, <2>3
  <2>4. ~InCola(f, atiende[f])'
    <3>1. atiende'[f] = atiende[f]
        BY <1>2
    <3> QED
        BY <2>1, <2>2, <2>3, <3>1 DEF InCola
  <2> QED
      BY <1>2, <2>1, <2>4
<1>15. \A d \in Clientes :
          /\ sh'[d] \notin Conversando \cup {"gira", "fuera"} =>
                eco'[d] = "nada" /\ par'[d] = NoPar /\ dicho'[d] = NoName
          /\ sh'[d] \in {"oye", "une"} => dicho'[d] # NoName
    BY <1>1, <1>2, <1>4 DEF EsperaInv, Conversando
<1>16. ASSUME NEW d \in Clientes, Despide(d)'
       PROVE  par'[d] = d /\ dicho'[d] \notin Files \ {End} /\ (Activo(d)' => eco'[d] = "nada")
  <2>1. CASE d = c
      BY <1>1, <1>2, <1>4, <1>5, <1>6, <1>16, <2>1, ClienteAssumption
         DEF Despide, ClienteAssumption
  <2>2. CASE d # c
      BY <1>1, <1>2, <1>4, <1>16, <2>2 DEF EsperaInv, Despide, Activo
  <2> QED
      BY <2>1, <2>2
<1>17. /\ \A d \in Clientes : sh'[d] \in Conversando => par'[d] \in Clientes
       /\ \A d \in Clientes : sh'[d] \in Conversando /\ eco'[d] = "nada" => Cita(par[d], d)'
    BY <1>11 DEF Cita, InCola
<1> QED
    BY <1>12, <1>13, <1>14, <1>15, <1>16, <1>17 DEF EsperaInv

\* A message is there to be read from now on.
LEMMA EsperaDice ==
    ASSUME TypeOK, OrdenInv, EsperaInv, NEW c \in Clientes, Dice(c)
    PROVE  EsperaInv'
<1> USE DEF OrdenInv, EnCurso, Pasa, servidor, tomas, escucha, entre
<1>1. /\ sh[c] = "dice"
      /\ sh' = [sh EXCEPT ![c] = IF orden[c].op = "disconnect" THEN "une" ELSE "oye"]
      /\ dicho' = [dicho EXCEPT ![c] = Mensaje(c)]
      /\ UNCHANGED <<oyente, atiende, cola, par, eco, orden>>
    BY DEF Dice
<1>2. Mensaje(c) # NoName
    BY <1>1, ClienteAssumption DEF Mensaje, EsOrden, ClienteAssumption
<1>3. \A d \in Clientes : sh'[d] \in {"oye", "une"} => dicho'[d] # NoName
    BY <1>1, <1>2 DEF EsperaInv, TypeOK
<1>4. \A f, x \in Clientes : Cita(f, x)' <=> Cita(f, x)
    BY <1>1 DEF Cita, InCola
<1>5. \A d \in Clientes :
          /\ sh'[d] \in Conversando <=> sh[d] \in Conversando
          /\ sh'[d] \in Conversando \cup {"gira", "fuera"}
                <=> sh[d] \in Conversando \cup {"gira", "fuera"}
          /\ sh'[d] = "fuera" <=> sh[d] = "fuera"
    BY <1>1 DEF Conversando
<1>6. ASSUME NEW d \in Clientes, Despide(d)'
       PROVE  par'[d] = d /\ dicho'[d] \notin Files \ {End} /\ (Activo(d)' => eco'[d] = "nada")
  <2>1. Despide(d)
      BY <1>1, <1>6 DEF Despide
  <2>2. d = c => dicho'[d] = End
      BY <1>1, <2>1 DEF Mensaje, Despide, TypeOK
  <2> QED
      BY <1>1, <2>1, <2>2 DEF EsperaInv, TypeOK, Activo
<1>7. \A d \in Clientes : sh'[d] \notin Conversando \cup {"gira", "fuera"} =>
          eco'[d] = "nada" /\ par'[d] = NoPar /\ dicho'[d] = NoName
    BY <1>1, <1>5 DEF EsperaInv, Conversando
<1>8. \A e, x \in Clientes : Atento(e)' /\ Cita(e, x)' => EnEspera(e, x)'
    BY <1>1, <1>4, <1>5 DEF EsperaInv, EnEspera, Atento
<1>9. /\ \A e \in Clientes : Atento(e)' =>
            \A j, k \in 1 .. Len(cola'[e]) : cola'[e][j] = cola'[e][k] => j = k
      /\ \A e \in Clientes : oyente'[e] = "lee" =>
            atiende'[e] \in Clientes /\ ~InCola(e, atiende[e])'
    BY <1>1 DEF EsperaInv, InCola, Atento
<1> QED
    BY <1>1, <1>3, <1>4, <1>5, <1>6, <1>7, <1>8, <1>9 DEF EsperaInv

\* The thread of a client takes the connections in turn, and answers whoever it
\* is reading from.
LEMMA EsperaOyente ==
    ASSUME TypeOK, OrdenInv, TomaInv, EsperaInv, NEW e \in Clientes, Oyente(e)
    PROVE  EsperaInv'
<1> USE DEF OrdenInv, Lee, servidor, tomas, escucha, entre
<1>0. /\ cola \in [Clientes -> Seq(Clientes)] /\ DOMAIN atiende = Clientes
      /\ DOMAIN eco = Clientes
    BY DEF TypeOK
<1>1. ASSUME OyenteEscucha(e) PROVE EsperaInv'
  <2>1. cola[e] = <<>>
      BY <1>1 DEF OyenteEscucha, TomaInv, HiloInv
  <2>2. /\ oyente[e] = "arranca" /\ oyente' = [oyente EXCEPT ![e] = "acepta"]
        /\ UNCHANGED <<cola, atiende, par, dicho, eco, sh, orden>>
      BY <1>1 DEF OyenteEscucha
  <2>3. \A x \in Clientes : ~Cita(e, x) /\ ~Cita(e, x)'
      BY <2>1, <2>2 DEF Cita, InCola
  <2>4. \A x \in Clientes : Activo(x)' => Activo(x)
      BY <2>2 DEF Activo
  <2>5. \A j, k \in 1 .. Len(cola'[e]) : cola'[e][j] = cola'[e][k] => j = k
      BY <2>1, <2>2
  <2>6. oyente'[e] = "acepta"
      BY <2>2
  <2> QED
      BY <2>2, <2>3, <2>4, <2>5, <2>6, EsperaHilo
<1>2. ASSUME OyenteAcepta(e) PROVE EsperaInv'
  <2>1. /\ cola[e] # <<>> /\ oyente[e] = "acepta"
        /\ oyente' = [oyente EXCEPT ![e] = "lee"]
        /\ atiende' = [atiende EXCEPT ![e] = Head(cola[e])]
        /\ cola' = [cola EXCEPT ![e] = Tail(@)]
        /\ UNCHANGED <<sh, orden, par, dicho, eco>>
      BY <1>2 DEF OyenteAcepta
  <2>2. /\ Len(cola[e]) \in Nat \ {0} /\ Len(cola'[e]) = Len(cola[e]) - 1
        /\ \A k \in 1 .. Len(cola[e]) - 1 : cola'[e][k] = cola[e][k + 1]
        /\ atiende'[e] = cola[e][1] /\ cola[e][1] \in Clientes
      BY <1>0, <2>1
  <2>3. \A x : InCola(e, x) <=> InCola(e, x)' \/ x = cola[e][1]
    <3>1. ASSUME NEW x, InCola(e, x)' PROVE InCola(e, x)
        BY <2>2, <3>1 DEF InCola
    <3>2. InCola(e, cola[e][1])
        BY <2>2 DEF InCola
    <3>3. ASSUME NEW x, InCola(e, x), x # cola[e][1] PROVE InCola(e, x)'
      <4>1. PICK k \in 1 .. Len(cola[e]) : cola[e][k] = x
          BY <3>3 DEF InCola
      <4>2. k # 1 /\ k \in Nat /\ k =< Len(cola[e])
          BY <2>2, <3>3, <4>1
      <4>3. k - 1 \in 1 .. Len(cola[e]) - 1 /\ k - 1 + 1 = k
          BY <2>2, <4>1, <4>2
      <4>4. k - 1 \in 1 .. Len(cola'[e]) /\ cola'[e][k - 1] = x
          BY <2>2, <4>1, <4>3
      <4> QED
          BY <4>4 DEF InCola
    <3> QED
        BY <3>1, <3>2, <3>3
  <2>4. Atento(e) /\ \A j, k \in 1 .. Len(cola[e]) : cola[e][j] = cola[e][k] => j = k
      BY <2>1 DEF EsperaInv, Atento
  <2>5. ~InCola(e, atiende[e])'
    <3>1. ASSUME NEW k \in 1 .. Len(cola[e]) - 1 PROVE cola[e][k + 1] # cola[e][1]
      <4>1. k + 1 \in 1 .. Len(cola[e]) /\ 1 \in 1 .. Len(cola[e]) /\ k + 1 # 1
          BY <2>2, <3>1
      <4> QED
          BY <2>4, <4>1
    <3> QED
        BY <2>2, <3>1 DEF InCola
  <2>6. \A j, k \in 1 .. Len(cola'[e]) : cola'[e][j] = cola'[e][k] => j = k
      BY <2>2, <2>4
  <2>7. \A x \in Clientes : Cita(e, x)' <=> Cita(e, x)
      BY <2>1, <2>2, <2>3 DEF Cita
  <2>8. \A x \in Clientes : Activo(x)' => Activo(x)
      BY <2>1 DEF Activo
  <2>9. /\ \A f \in Clientes \ {e} :
               oyente'[f] = oyente[f] /\ atiende'[f] = atiende[f] /\ cola'[f] = cola[f]
        /\ atiende'[e] \in Clientes
      BY <1>0, <2>1, <2>2
  <2> QED
      BY <2>1, <2>4, <2>5, <2>6, <2>7, <2>8, <2>9, EsperaHilo
<1>3. ASSUME NEW d \in Clientes, oyente[e] = "lee", atiende[e] = d
      PROVE  Atento(e) /\ Cita(e, d) /\ EnEspera(e, d) /\ ~InCola(e, d)
    BY <1>3 DEF EsperaInv, Atento, Cita
<1>4. ASSUME NEW d \in Clientes, OyenteTermina(e, d) PROVE EsperaInv'
  <2>1. /\ oyente[e] = "lee" /\ atiende[e] = d
        /\ oyente' = [oyente EXCEPT ![e] = "fin"]
        /\ cola' = [cola EXCEPT ![e] = <<>>]
        /\ eco' = [x \in Clientes |->
                     IF x = d THEN "cerrada"
                     ELSE IF par[x] = e /\ InCola(e, x) THEN "reset" ELSE eco[x]]
        /\ \A f \in Clientes \ {e} : atiende'[f] = atiende[f]
        /\ UNCHANGED <<sh, orden, par, dicho>>
      BY <1>0, <1>4 DEF OyenteTermina
  <2>2. oyente'[e] = "fin" /\ ~Atento(e)' /\ ~Activo(e)'
      BY <2>1 DEF Atento, Activo
  <2>3. \A x \in Clientes : Activo(x)' => Activo(x)
      BY <2>1 DEF Activo
  <2>4. \A x \in Clientes : eco'[x] = eco[x] \/ (eco'[x] # "nada" /\ par[x] = e)
                                 \/ (eco'[x] # "nada" /\ Atento(e) /\ Cita(e, x))
      BY <1>3, <2>1
  <2>5. \A x \in Clientes : Cita(e, x) /\ par[x] = e => eco'[x] # "nada"
      BY <2>1 DEF Cita
  <2>6. \A f \in Clientes \ {e} :
            oyente'[f] = oyente[f] /\ atiende'[f] = atiende[f] /\ cola'[f] = cola[f]
      BY <1>0, <2>1
  <2> QED
      BY <2>1, <2>2, <2>3, <2>4, <2>5, <2>6, EsperaHilo
<1>5. ASSUME NEW d \in Clientes, OyenteContesta(e, d) PROVE EsperaInv'
  <2>1. eco' = [eco EXCEPT ![d] = "codigo"]
      BY <1>5 DEF OyenteContesta
  <2>2. /\ oyente[e] = "lee" /\ atiende[e] = d /\ dicho[d] \in Files \ {End}
        /\ oyente' = [oyente EXCEPT ![e] = "acepta"]
        /\ \A f \in Clientes \ {e} : atiende'[f] = atiende[f]
        /\ UNCHANGED <<sh, orden, par, dicho, cola>>
      BY <1>0, <1>5 DEF OyenteContesta
  <2>3. Atento(e) /\ Cita(e, d) /\ ~InCola(e, d)
      BY <1>3, <2>2
  <2>4. \A x \in Clientes : Cita(e, x)' <=> InCola(e, x)
      BY <2>2 DEF Cita, InCola
  <2>5. \A x \in Clientes : eco'[x] = IF x = d THEN "codigo" ELSE eco[x]
      BY <1>0, <2>1
  <2>6. \A x \in Clientes : Cita(e, x) => x = d \/ InCola(e, x)
      BY <2>2 DEF Cita
  <2>7. \A x \in Clientes : Activo(x)' => Activo(x)
      BY <2>2 DEF Activo
  <2>8. Despide(e)' => e # d
      BY <2>2 DEF EsperaInv, Despide
  <2>9. \A j, k \in 1 .. Len(cola'[e]) : cola'[e][j] = cola'[e][k] => j = k
      BY <2>2, <2>3 DEF EsperaInv
  <2>10. /\ \A f \in Clientes \ {e} :
                oyente'[f] = oyente[f] /\ atiende'[f] = atiende[f] /\ cola'[f] = cola[f]
         /\ oyente'[e] = "acepta"
      BY <2>2
  <2>11. \A x \in Clientes : Cita(e, x)' => Cita(e, x) /\ eco'[x] = eco[x]
      BY <2>3, <2>4, <2>5 DEF Cita
  <2> QED
      BY <2>2, <2>3, <2>4, <2>5, <2>6, <2>7, <2>8, <2>9, <2>10, <2>11, EsperaHilo
<1>6. ASSUME NEW d \in Clientes, OyenteContestaANadie(e, d) \/ OyenteLeeNada(e, d)
      PROVE  EsperaInv'
  <2>1. PICK v \in {"acepta", "gira", "muerto"} : oyente' = [oyente EXCEPT ![e] = v]
      BY <1>6 DEF OyenteContestaANadie, OyenteLeeNada
  <2>2. /\ oyente[e] = "lee" /\ atiende[e] = d /\ sh[d] = "fuera"
        /\ \A f \in Clientes \ {e} : atiende'[f] = atiende[f]
        /\ UNCHANGED <<sh, orden, par, dicho, cola, eco>>
      BY <1>0, <1>6 DEF OyenteContestaANadie, OyenteLeeNada
  <2>3. Atento(e) /\ Cita(e, d) /\ ~InCola(e, d)
      BY <1>3, <2>2
  <2>4. oyente'[e] = v /\ v # "lee"
      BY <2>1
  <2>5. \A x \in Clientes : Cita(e, x)' <=> InCola(e, x)
      BY <2>2, <2>4 DEF Cita, InCola
  <2>6. \A x \in Clientes : Cita(e, x) => x = d \/ InCola(e, x)
      BY <2>2 DEF Cita
  <2>7. \A x \in Clientes : Activo(x)' => Activo(x)
      BY <2>1, <2>2 DEF Activo
  <2>8. \A j, k \in 1 .. Len(cola'[e]) : cola'[e][j] = cola'[e][k] => j = k
      BY <2>2, <2>3 DEF EsperaInv
  <2>9. \A f \in Clientes \ {e} :
            oyente'[f] = oyente[f] /\ atiende'[f] = atiende[f] /\ cola'[f] = cola[f]
      BY <2>1, <2>2
  <2>10. \A x \in Clientes : Cita(e, x) /\ sh[x] \in Conversando => Cita(e, x)'
      BY <2>2, <2>5, <2>6 DEF Conversando
  <2>11. \A x \in Clientes : Cita(e, x)' => Cita(e, x)
      BY <2>5 DEF Cita
  <2> QED
      BY <2>2, <2>3, <2>4, <2>7, <2>8, <2>9, <2>10, <2>11, EsperaHilo
<1>7. ASSUME NEW d \in Clientes, OyenteNoDescifra(e, d) PROVE EsperaInv'
  <2>1. PICK r \in {"cerrada", "reset"} : eco' = [eco EXCEPT ![d] = r]
      BY <1>7 DEF OyenteNoDescifra
  <2>2. /\ oyente[e] = "lee" /\ atiende[e] = d
        /\ oyente' = [oyente EXCEPT ![e] = "muerto"]
        /\ \A f \in Clientes \ {e} : atiende'[f] = atiende[f]
        /\ UNCHANGED <<sh, orden, par, dicho, cola>>
      BY <1>0, <1>7 DEF OyenteNoDescifra
  <2>3. Atento(e) /\ Cita(e, d) /\ ~InCola(e, d)
      BY <1>3, <2>2
  <2>4. oyente'[e] = "muerto" /\ ~Atento(e)' /\ ~Activo(e)'
      BY <2>2 DEF Atento, Activo
  <2>5. \A x \in Clientes : eco'[x] = IF x = d THEN r ELSE eco[x]
      BY <1>0, <2>1
  <2>6. \A x \in Clientes : Cita(e, x) /\ eco'[x] = "nada" => Cita(e, x)'
      BY <2>2, <2>5 DEF Cita, InCola
  <2>7. \A x \in Clientes : Activo(x)' => Activo(x)
      BY <2>2 DEF Activo
  <2>8. \A f \in Clientes \ {e} :
            oyente'[f] = oyente[f] /\ atiende'[f] = atiende[f] /\ cola'[f] = cola[f]
      BY <2>2
  <2> QED
      BY <2>2, <2>3, <2>4, <2>5, <2>6, <2>7, <2>8, EsperaHilo
<1> QED
    BY <1>1, <1>2, <1>4, <1>5, <1>6, <1>7 DEF Oyente

\* A socket is closed: by a new connect, at the end of the client, or because it
\* is killed.
LEMMA EsperaCierre ==
    ASSUME TypeOK, OrdenInv, OyenteInv, TomaInv, EsperaInv, NEW c \in Clientes,
           Ordena(c) \/ Acaba(c) \/ Muere(c)
    PROVE  EsperaInv'
<1> USE DEF OrdenInv, servidor, tomas, escucha, entre
<1>0. DOMAIN orden = Clientes
    BY DEF OrdenInv
<1>1. ASSUME Ordena(c) PROVE EsperaInv'
  <2>1. PICK o \in Ordenes : Liga(c, o, o.addr) /\ Admite(c, o)
      BY <1>1 DEF Ordena
  <2>2. /\ sh[c] = "libre" /\ sh' = [sh EXCEPT ![c] = "espera"]
        /\ UNCHANGED <<usuario, codigo, atiende, par, dicho>>
        /\ \A d \in Clientes \ {c} : orden'[d] = orden[d]
      BY <1>1 DEF Ordena
  <2>3. /\ sh[c] \notin Conversando \cup {"gira", "fuera"}
        /\ sh'[c] \notin Conversando \cup {"gira", "fuera"}
        /\ eco[c] = "nada" /\ par[c] = NoPar /\ dicho[c] = NoName
      BY <2>2 DEF Conversando, EsperaInv
  <2>4. \A f \in Clientes : ~(Atento(f) /\ Cita(f, c))
      BY <2>3, NadieAtiende
  <2>5. CASE o.op = "connect"
    <3>1. ~Activo(c)
        BY <2>1, <2>5 DEF Admite, OyenteInv
    <3>2. oyente' = [oyente EXCEPT ![c] = "no"] /\ Cuelga(c)
        BY <2>1, <2>5 DEF Liga
    <3>3. /\ \A x \in Clientes : eco'[x] = eco[x] \/ (eco'[x] # "nada" /\ par[x] = c)
          /\ \A x \in Clientes : Cita(c, x) /\ par[x] = c => eco'[x] # "nada"
          /\ cola' = [cola EXCEPT ![c] = <<>>]
        BY <3>1, <3>2 DEF Cuelga, Cita, Activo
    <3>4. oyente'[c] = "no" /\ ~Atento(c)'
        BY <3>2 DEF Atento
    <3>5. \A x \in Clientes : Activo(x)' => Activo(x)
        BY <3>2 DEF Activo
    <3>6. ~Despide(c)'
        BY <2>3 DEF Despide, Conversando
    <3>7. \A f \in Clientes \ {c} :
              oyente'[f] = oyente[f] /\ atiende'[f] = atiende[f] /\ cola'[f] = cola[f]
        BY <2>2, <3>2, <3>3
    <3> QED
        BY <2>2, <2>3, <2>4, <3>3, <3>4, <3>5, <3>6, <3>7, EsperaHilo
  <2>6. CASE o.op # "connect"
    <3>1. UNCHANGED <<oyente, cola, eco>>
        BY <2>1, <2>6 DEF Liga
    <3>2. \A d \in Clientes \ {c} : Comando(d)
        BY <2>2, <3>1 DEF Comando
    <3> QED
        BY <2>2, <2>3, <2>4, <3>1, <3>2, EsperaIgual
  <2> QED
      BY <2>5, <2>6
<1>2. ASSUME Acaba(c) PROVE EsperaInv'
  <2>1. /\ sh[c] = "sale" /\ ~Activo(c) /\ sh' = [sh EXCEPT ![c] = "fuera"] /\ Cuelga(c)
        /\ UNCHANGED <<oyente, atiende, orden, par, dicho>>
      BY <1>2 DEF Acaba
  <2>2. sh'[c] = "fuera" /\ "fuera" \notin Conversando
      BY <2>1 DEF Conversando
  <2>3. /\ \A x \in Clientes : eco'[x] = eco[x] \/ (eco'[x] # "nada" /\ par[x] = c)
        /\ \A x \in Clientes : Cita(c, x) /\ par[x] = c => eco'[x] # "nada"
        /\ cola' = [cola EXCEPT ![c] = <<>>]
      BY <2>1 DEF Cuelga, Cita, Activo
  <2>4. oyente'[c] # "lee" /\ ~Atento(c)'
      BY <2>1 DEF Atento, Activo
  <2>5. \A x \in Clientes : Activo(x)' => Activo(x)
      BY <2>1 DEF Activo
  <2>6. ~Despide(c)'
      BY <2>2 DEF Despide
  <2>7. \A f \in Clientes \ {c} :
            oyente'[f] = oyente[f] /\ atiende'[f] = atiende[f] /\ cola'[f] = cola[f]
      BY <2>1, <2>3
  <2> QED
      BY <2>1, <2>2, <2>3, <2>4, <2>5, <2>6, <2>7, EsperaHilo
<1>3. ASSUME Muere(c) PROVE EsperaInv'
  <2>1. PICK corte \in {"cerrada", "reset"} :
          eco' = [x \in Clientes |->
                    IF par[x] # c THEN eco[x]
                    ELSE IF InCola(c, x) THEN "reset"
                    ELSE IF atiende[c] = x /\ oyente[c] \in {"lee", "gira"} /\ eco[x] = "nada"
                         THEN corte ELSE eco[x]]
      BY <1>3 DEF Muere
  <2>2. /\ sh[c] # "fuera"
        /\ sh'[c] = "fuera" \/ (sh[c] = "espera" /\ sh'[c] = "huerfana")
        /\ \A x \in Clientes \ {c} : sh'[x] = sh[x]
        /\ oyente' = [oyente EXCEPT ![c] = "no"]
        /\ cola' = [cola EXCEPT ![c] = <<>>]
        /\ UNCHANGED <<atiende, orden, par, dicho>>
      BY <1>3 DEF Muere
  <2>3. \A x \in Clientes : eco'[x] = eco[x] \/ (eco'[x] # "nada" /\ par[x] = c)
      BY <2>1
  <2>4. \A x \in Clientes : Cita(c, x) /\ par[x] = c => eco'[x] # "nada"
      BY <2>1 DEF Cita
  <2>5. sh'[c] = "fuera" \/ \A f \in Clientes : ~(Atento(f) /\ Cita(f, c))
      BY <2>2, NadieAtiende DEF Conversando
  <2>6. oyente'[c] = "no" /\ ~Atento(c)'
      BY <2>2 DEF Atento
  <2>7. \A x \in Clientes : Activo(x)' => Activo(x)
      BY <2>2 DEF Activo
  <2>8. sh'[c] \notin Conversando /\ ~Despide(c)'
      BY <2>2 DEF Despide, Conversando
  <2>9. \A f \in Clientes \ {c} :
            oyente'[f] = oyente[f] /\ atiende'[f] = atiende[f] /\ cola'[f] = cola[f]
      BY <2>2
  <2>10. sh'[c] \notin Conversando \cup {"gira", "fuera"} =>
             sh[c] \notin Conversando \cup {"gira", "fuera"}
      BY <2>2 DEF Conversando
  <2> QED
      BY <2>2, <2>3, <2>4, <2>5, <2>6, <2>7, <2>8, <2>9, <2>10, EsperaHilo
<1> QED
    BY <1>1, <1>2, <1>3

LEMMA InitEspera == Init => EsperaInv
<1> SUFFICES ASSUME Init PROVE EsperaInv
    OBVIOUS
<1>1. \A c \in Clientes : /\ sh[c] = "libre" /\ eco[c] = "nada" /\ par[c] = NoPar
                          /\ dicho[c] = NoName /\ oyente[c] = "no"
    BY DEF Init
<1> QED
    BY <1>1 DEF EsperaInv, Conversando, Atento, Despide

LEMMA StepEspera == IInv /\ EsperaInv /\ [Next]_vars => EsperaInv'
<1> SUFFICES ASSUME IInv, EsperaInv, [Next]_vars PROVE EsperaInv'
    OBVIOUS
<1>0. TypeOK /\ OrdenInv /\ OyenteInv /\ TomaInv
    BY DEF IInv
<1>1. ASSUME NEW c \in Clientes, Avanza(c) PROVE EsperaInv'
  <2>1. CASE Ordena(c) \/ Acaba(c) \/ Muere(c)
      BY <1>0, <2>1, EsperaCierre
  <2>2. CASE Oyente(c)
      BY <1>0, <2>2, EsperaOyente
  <2>3. CASE Llama(c) \/ Dice(c)
      BY <1>0, <2>3, EsperaLlama, EsperaDice
  <2>4. CASE Sale(c) \/ Recibe(c) \/ Gira(c) \/ Excepcion(c) \/ LlamaFalla(c)
               \/ Oye(c) \/ OyeFalla(c) \/ OyeNada(c) \/ Une(c) \/ Sirve(c) \/ Calla(c)
      BY <1>0, <2>4, EsperaShell
  <2> QED
      BY <1>1, <2>1, <2>2, <2>3, <2>4 DEF Avanza, Shell
<1>2. ASSUME Cae \/ Levanta \/ Quieto \/ UNCHANGED vars PROVE EsperaInv'
  <2>1. UNCHANGED <<sh, orden, oyente, atiende, cola, par, dicho, eco>>
      BY <1>2 DEF Cae, Levanta, Quieto, vars, escucha, entre
  <2> QED
      BY <2>1 DEF EsperaInv, EnEspera, Atento, Despide, Activo, Cita, InCola
<1> QED
    BY <1>1, <1>2 DEF Next, Avanza

\* Every shell that waits for another client, or joins its own listening thread, is
\* in the queue of a thread that is not held up by a client that waits itself,
\* for any number of clients and ports, whatever has failed; or it has its
\* answer, or it waits for ever in one of the ways of Colgado.
THEOREM WaitersServed == Spec => []WaitersAreServed
<1>1. IInv /\ EsperaInv => WaitersAreServed
  <2> SUFFICES ASSUME IInv, EsperaInv, NEW c \in Clientes, sh[c] \in {"oye", "une"},
                      ~HaLlegado(c), ~Colgado(c), NEW e, e = par[c]
               PROVE  LeAtiende(e, c)
      BY DEF WaitersAreServed
  <2>1. eco[c] = "nada" /\ e \in Clientes
    <3>1. CASE sh[c] = "oye"
        BY <3>1 DEF HaLlegado, EsperaInv, Conversando
    <3>2. CASE sh[c] = "une"
      <4>1. Despide(c) /\ Activo(c)
          BY <3>2 DEF HaLlegado, HaTerminado, Despide, IInv, TomaInv, PasoInv
      <4> QED
          BY <4>1 DEF EsperaInv
    <3> QED
        BY <3>1, <3>2
  <2>2. Cita(e, c)
      BY <2>1 DEF EsperaInv, Conversando
  <2>3. oyente[e] \notin {"gira", "muerto"}
      BY DEF Colgado
  <2>4. CASE oyente[e] = "lee"
    <3>1. PICK d \in Clientes : d = atiende[e]
        BY <2>1, <2>4 DEF EsperaInv
    <3>2. EnEspera(e, d)
        BY <2>1, <2>4, <3>1 DEF EsperaInv, Atento, Cita
    <3>3. dicho[d] # NoName \/ sh[d] \in {"dice", "fuera"}
        BY <3>2 DEF EnEspera, Conversando, EsperaInv
    <3> QED
        BY <2>2, <2>4, <3>1, <3>3 DEF LeAtiende, Cita
  <2>5. CASE oyente[e] # "lee"
    <3>1. InCola(e, c)
        BY <2>2, <2>5 DEF Cita
    <3>2. cola[e] # <<>>
        BY <3>1 DEF InCola
    <3>3. oyente[e] = "acepta"
        BY <2>1, <2>3, <2>5, <3>2 DEF IInv, TomaInv, HiloInv
    <3> QED
        BY <3>1, <3>3 DEF LeAtiende
  <2> QED
      BY <2>4, <2>5
<1>2. Spec => []EsperaInv
    BY InitEspera, StepEspera, Invariante, PTL DEF Spec
<1> QED
    BY <1>1, <1>2, Invariante, PTL
=============================================================================
