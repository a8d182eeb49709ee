------------------------------ MODULE Cliente ------------------------------
(***************************************************************************)
(* The clients of client.py: each has a shell that runs one command at a   *)
(* time, and, while its user is connected, a thread that listens on a port *)
(* of its own and sends files to other clients.  The shells talk to the    *)
(* server, which makes of each request what module Atencion says, and to   *)
(* each other's listening threads.                                         *)
(*                                                                         *)
(* A command that is refused before anything is sent, because of _username *)
(* or because the web service or the server cannot be reached, changes     *)
(* nothing and is no step.                                                 *)
(***************************************************************************)
EXTENDS Atencion

CONSTANTS
    Clientes,    \* the client processes
    NoUser,      \* None
    NoName,      \* nothing has been sent on a connection
    NoOrden,     \* the shell runs no command
    NoPar,       \* there is no connection to another client
    End,         \* the message "end"
    Raros,       \* the names of files with bytes above 127
    Ordenes,     \* the commands the users type
    Guardados,   \* the stores the server can start with
    MaxSucesos,  \* bound: commands and failures of all the clients and the server
    MaxFallos    \* bound: failures: ends of the server, threads of it and clients

\* The requests of the commands, and whether the command was QUIT.
Operaciones == {"register", "unregister", "connect", "disconnect", "publish",
                "delete", "list_users", "list_content", "get_file"}

Orden == [op    : Operaciones,
          user  : Users, other : Users,
          file  : Files, descr : Descrs, addr : Addrs, quit : BOOLEAN]

ASSUME ClienteAssumption ==
    /\ NoUser \notin Users
    /\ NoName \notin Files \cup {End}
    /\ NoOrden \notin Ordenes
    /\ NoPar \notin Clientes
    /\ Ordenes \subseteq Orden
    /\ Raros \subseteq Files \ {End}
    /\ \A a \in Guardados : Solido(a)

VARIABLES
    arriba,    \* the server is up
    almacen,   \* its store
    usuario,   \* _username of each client
    sh,        \* where each shell is
    orden,     \* the command it is running
    codigo,    \* what the server has answered to it
    roto,      \* clients whose connection to the server has ended
    puerto,    \* the address of _socket_connect
    zocalo,    \* the state of _socket_connect
    oyente,    \* where the listening thread is
    atiende,   \* the client it is serving
    cola,      \* the connections waiting to be accepted
    par,       \* the client this one has a connection to
    dicho,     \* what it has sent on that connection
    eco,       \* what it can read from it
    averias,   \* what has gone wrong so far
    cuenta     \* commands, ends of the server and killed clients so far

servidor == <<arriba, almacen, roto>>
tomas == <<puerto, zocalo>>
escucha == <<oyente, atiende>>
entre == <<cola, par, dicho, eco>>
vars == <<arriba, almacen, usuario, sh, orden, codigo, roto, puerto, zocalo, oyente,
          atiende, cola, par, dicho, eco, averias, cuenta>>

\* The store that an earlier run has left may list users as connected (resto)
\* and have a user in two tuples (repetida).
Init ==
    /\ arriba = TRUE
    /\ almacen \in Guardados
    /\ usuario = [c \in Clientes |-> NoUser]
    /\ sh = [c \in Clientes |-> "libre"]
    /\ orden = [c \in Clientes |-> NoOrden]
    /\ codigo = [c \in Clientes |-> R!NoAns]
    /\ roto = {}
    /\ puerto = [c \in Clientes |-> NoAddr]
    /\ zocalo = [c \in Clientes |-> "no"]
    /\ oyente = [c \in Clientes |-> "no"]
    /\ atiende = [c \in Clientes |-> NoPar]
    /\ cola = [c \in Clientes |-> <<>>]
    /\ par = [c \in Clientes |-> NoPar]
    /\ dicho = [c \in Clientes |-> NoName]
    /\ eco = [c \in Clientes |-> "nada"]
    /\ averias = (IF Conectados(almacen) = {} THEN {} ELSE {"resto"})
                  \cup (IF NombresUnicos(almacen) THEN {} ELSE {"repetida"})
    /\ cuenta = [ordenes |-> 0, fallos |-> 0]

Abierto(c) == zocalo[c] \in {"ligado", "escucha"}
Activo(c) == oyente[c] \in {"arranca", "acepta", "lee", "gira"}

\* The command is over, and the shell goes to lugar.
Deja(c, lugar) ==
    /\ sh' = [sh EXCEPT ![c] = lugar]
    /\ orden' = [orden EXCEPT ![c] = NoOrden]
    /\ codigo' = [codigo EXCEPT ![c] = R!NoAns]
    /\ par' = [par EXCEPT ![c] = NoPar]
    /\ dicho' = [dicho EXCEPT ![c] = NoName]
    /\ eco' = [eco EXCEPT ![c] = "nada"]

\* The method returned: QUIT then leaves the loop.
Devuelve(c) == Deja(c, IF orden[c].quit THEN "sale" ELSE "libre")

\* The method raised: the shell prints the exception and goes on, after QUIT too.
Lanza(c) == Deja(c, "libre")

InCola(c, x) == \E k \in 1 .. Len(cola[c]) : cola[c][k] = x

\* The listening socket of c is closed: what waits in its queue is reset.
Cuelga(c) ==
    /\ cola' = [cola EXCEPT ![c] = <<>>]
    /\ eco' = [x \in Clientes |-> IF par[x] = c /\ InCola(c, x) THEN "reset" ELSE eco[x]]

Pasa(c, lugar) == sh' = [sh EXCEPT ![c] = lugar] /\ UNCHANGED <<orden, codigo>>

-----------------------------------------------------------------------------
(* Commands.  orden holds the request as the server reads it.              *)

\* The commands that are for connected clients only.
ConSesion == {"publish", "delete", "list_users", "list_content", "get_file"}

\* Defective variant: any user can be disconnected from here.
AdmiteTodo(c, o) ==
    /\ o.op = "connect" => usuario[c] = NoUser
    /\ o.op \in ConSesion => usuario[c] # NoUser

\* What each method checks of _username before it sends anything.
Admite(c, o) ==
    /\ o.op = "connect" => usuario[c] = NoUser
    /\ o.op = "disconnect" => usuario[c] = o.user
    /\ o.op \in ConSesion => usuario[c] # NoUser

\* publish, delete and the listings send _username, the others their argument.
Enviada(c, o) ==
    IF o.op \in {"publish", "delete", "list_users", "list_content"}
    THEN [o EXCEPT !.user = usuario[c]] ELSE o

\* Defective variant: the port may be that of another client.
LibreSinMas(c, a) == TRUE

Libre(c, a) == ~\E e \in Clientes \ {c} : puerto[e] = a /\ Abierto(e)

\* connect binds a socket to a port that is free; the one of an earlier
\* connect, to which nothing refers any more, is closed.
Liga(c, o, a) ==
    IF o.op = "connect"
    THEN /\ Libre(c, a)
         /\ puerto' = [puerto EXCEPT ![c] = a]
         /\ zocalo' = [zocalo EXCEPT ![c] = "ligado"]
         /\ oyente' = [oyente EXCEPT ![c] = "no"]
         /\ Cuelga(c)
    ELSE UNCHANGED <<puerto, zocalo, oyente, cola, eco>>

Ordena(c) ==
    /\ sh[c] = "libre"
    /\ arriba
    /\ cuenta.ordenes + cuenta.fallos < MaxSucesos
    /\ \E o \in Ordenes :
          /\ Admite(c, o)
          /\ Liga(c, o, o.addr)
          /\ orden' = [orden EXCEPT ![c] = Enviada(c, o)]
    /\ sh' = [sh EXCEPT ![c] = "espera"]
    /\ roto' = roto \ {c}
    /\ cuenta' = [cuenta EXCEPT !.ordenes = @ + 1]
    /\ UNCHANGED <<arriba, almacen, usuario, codigo, atiende, par, dicho, averias>>

\* QUIT with no user connected.
Sale(c) ==
    /\ sh[c] = "libre"
    /\ usuario[c] = NoUser
    /\ sh' = [sh EXCEPT ![c] = "sale"]
    /\ UNCHANGED <<servidor, usuario, orden, codigo, tomas, escucha, entre, averias, cuenta>>

\* Python ends when the listening thread has ended.
Acaba(c) ==
    /\ sh[c] = "sale"
    /\ ~Activo(c)
    /\ sh' = [sh EXCEPT ![c] = "fuera"]
    /\ zocalo' = [zocalo EXCEPT ![c] = "no"]
    /\ Cuelga(c)
    /\ UNCHANGED <<servidor, usuario, orden, codigo, puerto, escucha, par, dicho, averias, cuenta>>

-----------------------------------------------------------------------------
(* The server.                                                             *)

Falla ==
    /\ cuenta.fallos < MaxFallos
    /\ cuenta.ordenes + cuenta.fallos < MaxSucesos
    /\ cuenta' = [cuenta EXCEPT !.fallos = @ + 1]

\* A request takes effect; its client may have been killed since.  A second
\* registration of a name may be accepted (server.c 272).
Sirve(c) ==
    /\ arriba
    /\ sh[c] \in {"espera", "huerfana"}
    /\ c \notin roto
    /\ codigo' = [codigo EXCEPT ![c] = RespuestaA(almacen, orden[c])]
    /\ almacen' = IF CodigoDe(almacen, orden[c]) = 0
                  THEN AlmacenTras(almacen, orden[c]) ELSE almacen
    /\ averias' = IF Repite(almacen, orden[c]) THEN averias \cup {"repetida"} ELSE averias
    /\ sh' = [sh EXCEPT ![c] = IF sh[c] = "espera" THEN "servida" ELSE "fuera"]
    /\ UNCHANGED <<arriba, usuario, orden, roto, tomas, escucha, entre, cuenta>>

\* A thread of the server that cannot reach the RPC server never answers.
Calla(c) ==
    /\ arriba
    /\ sh[c] = "espera" /\ c \notin roto
    /\ Falla
    /\ Pasa(c, "muda")
    /\ averias' = averias \cup {"muda"}
    /\ UNCHANGED <<servidor, usuario, tomas, escucha, entre>>

\* The server ends, with its store saved or lost, and its connections with it.
Cae ==
    /\ arriba
    /\ Falla
    /\ arriba' = FALSE
    /\ almacen' \in {almacen, <<>>}
    /\ roto' = {c \in Clientes : sh[c] \in {"espera", "servida", "muda", "huerfana"}}
    /\ averias' = averias \cup {"caida"} \cup (IF almacen' = almacen THEN {} ELSE {"perdida"})
    /\ UNCHANGED <<usuario, sh, orden, codigo, tomas, escucha, entre>>

Levanta ==
    /\ ~arriba
    /\ arriba' = TRUE
    /\ UNCHANGED <<almacen, roto, usuario, sh, orden, codigo, tomas, escucha, entre, averias, cuenta>>

-----------------------------------------------------------------------------
(* What a shell does with the answer.                                      *)

\* The thread is started after the server lists the user as connected.
RecibeConnect(c) ==
    /\ usuario' = [usuario EXCEPT ![c] = orden[c].user]
    /\ oyente' = [oyente EXCEPT ![c] = "arranca"]
    /\ Devuelve(c)
    /\ UNCHANGED <<cola, atiende>>

Recibe(c) ==
    /\ sh[c] = "servida"
    /\ \/ codigo[c].code = 0 /\ orden[c].op = "connect" /\ RecibeConnect(c)
       \/ /\ codigo[c].code = 0 /\ orden[c].op \in {"disconnect", "get_file"}
          /\ Pasa(c, "llama")
          /\ UNCHANGED <<usuario, escucha, entre>>
       \/ /\ codigo[c].code # 0 \/ orden[c].op \notin {"connect", "disconnect", "get_file"}
          /\ Devuelve(c)
          /\ UNCHANGED <<usuario, escucha, cola>>
    /\ UNCHANGED <<servidor, tomas, averias, cuenta>>

\* The connection was closed before the answer: readString goes round for
\* ever on the empty string.
Gira(c) ==
    /\ c \in roto
    /\ sh[c] \in {"espera", "servida", "muda"}
    /\ Pasa(c, "gira")
    /\ UNCHANGED <<servidor, usuario, tomas, escucha, entre, averias, cuenta>>

\* The connection was reset: the shell prints the exception and goes on.
Excepcion(c) ==
    /\ c \in roto
    /\ sh[c] \in {"espera", "servida", "muda"}
    /\ Lanza(c)
    /\ UNCHANGED <<servidor, usuario, tomas, escucha, cola, averias, cuenta>>

-----------------------------------------------------------------------------
(* Connections between clients: get_file, and the stop message that        *)
(* disconnect sends to its own listening thread.                           *)

Destino(c) ==
    IF orden[c].op = "disconnect" THEN puerto[c]
    ELSE CHOOSE a \in Addrs : a \in codigo[c].items

\* A connection is taken by whoever listens on the address now.  A disconnect
\* whose own socket is closed makes none: getsockname raises.
Alcanza(c, e) ==
    /\ puerto[e] = Destino(c) /\ zocalo[e] = "escucha"
    /\ orden[c].op = "disconnect" => Abierto(c)

Llama(c) ==
    /\ sh[c] = "llama"
    /\ \E e \in Clientes :
          /\ Alcanza(c, e)
          /\ cola' = [cola EXCEPT ![e] = Append(@, c)]
          /\ par' = [par EXCEPT ![c] = e]
    /\ Pasa(c, "dice")
    /\ UNCHANGED <<servidor, usuario, tomas, escucha, dicho, eco, averias, cuenta>>

\* disconnect raises: _username stays as it is.
Despedida(c) ==
    IF orden[c].op = "disconnect" THEN averias \cup {"despedida"} ELSE averias

\* Nobody is reached: connect or getsockname raises.
LlamaFalla(c) ==
    /\ sh[c] = "llama"
    /\ ~\E e \in Clientes : Alcanza(c, e)
    /\ Lanza(c)
    /\ averias' = Despedida(c)
    /\ UNCHANGED <<servidor, usuario, tomas, escucha, cola, cuenta>>

\* Defective variants: get_file sends the user's name, disconnect sends nothing.
MensajeUsuario(c) == IF orden[c].op = "disconnect" THEN End ELSE orden[c].other
MensajeSinFin(c) == IF orden[c].op = "disconnect" THEN NoName ELSE orden[c].file

Mensaje(c) == IF orden[c].op = "disconnect" THEN End ELSE orden[c].file

Dice(c) ==
    /\ sh[c] = "dice"
    /\ eco[c] # "reset"
    /\ dicho' = [dicho EXCEPT ![c] = Mensaje(c)]
    /\ Pasa(c, IF orden[c].op = "disconnect" THEN "une" ELSE "oye")
    /\ UNCHANGED <<servidor, usuario, tomas, escucha, cola, par, eco, averias, cuenta>>

\* The peer's code, and its file.
Oye(c) ==
    /\ sh[c] = "oye"
    /\ eco[c] = "codigo"
    /\ Devuelve(c)
    /\ UNCHANGED <<servidor, usuario, tomas, escucha, cola, averias, cuenta>>

\* The connection has been reset.
OyeFalla(c) ==
    /\ sh[c] \in {"dice", "oye"}
    /\ eco[c] = "reset"
    /\ Lanza(c)
    /\ averias' = Despedida(c)
    /\ UNCHANGED <<servidor, usuario, tomas, escucha, cola, cuenta>>

\* The other end closed without an answer.
OyeNada(c) ==
    /\ sh[c] = "oye"
    /\ eco[c] = "cerrada"
    /\ Pasa(c, "gira")
    /\ UNCHANGED <<servidor, usuario, tomas, escucha, entre, averias, cuenta>>

\* Defective variant: disconnect does not wait for its thread.
SinEsperar(c) == TRUE

HaTerminado(c) == ~Activo(c)

\* join returns when the thread has ended.
Une(c) ==
    /\ sh[c] = "une"
    /\ HaTerminado(c)
    /\ usuario' = [usuario EXCEPT ![c] = NoUser]
    /\ Devuelve(c)
    /\ UNCHANGED <<servidor, tomas, escucha, cola, averias, cuenta>>

-----------------------------------------------------------------------------
(* The listening thread of client e.                                       *)

OyenteEscucha(e) ==
    /\ oyente[e] = "arranca"
    /\ oyente' = [oyente EXCEPT ![e] = "acepta"]
    /\ zocalo' = [zocalo EXCEPT ![e] = "escucha"]
    /\ UNCHANGED <<servidor, usuario, sh, orden, codigo, puerto, atiende, entre, averias, cuenta>>

OyenteAcepta(e) ==
    /\ oyente[e] = "acepta"
    /\ cola[e] # <<>>
    /\ oyente' = [oyente EXCEPT ![e] = "lee"]
    /\ atiende' = [atiende EXCEPT ![e] = Head(cola[e])]
    /\ cola' = [cola EXCEPT ![e] = Tail(@)]
    /\ UNCHANGED <<servidor, usuario, sh, orden, codigo, tomas, par, dicho, eco, averias, cuenta>>

Lee(e, d) ==
    /\ oyente[e] = "lee"
    /\ atiende[e] = d
    /\ atiende' = [atiende EXCEPT ![e] = NoPar]
    /\ UNCHANGED <<servidor, usuario, sh, orden, codigo, puerto, par, dicho, cuenta>>

\* "end" ends the thread, whoever sent it: the stop message of disconnect, or
\* a request for a file of that name.
OyenteTermina(e, d) ==
    /\ Lee(e, d)
    /\ dicho[d] = End
    /\ oyente' = [oyente EXCEPT ![e] = "fin"]
    /\ zocalo' = [zocalo EXCEPT ![e] = "no"]
    /\ cola' = [cola EXCEPT ![e] = <<>>]
    /\ eco' = [x \in Clientes |->
                 IF x = d THEN "cerrada"
                 ELSE IF par[x] = e /\ InCola(e, x) THEN "reset" ELSE eco[x]]
    /\ averias' = IF orden[d].op = "disconnect" THEN averias ELSE averias \cup {"fin"}

\* The file is there, is not there, or cannot be read: a code, 0, 1 or 2, and
\* the file.
OyenteContesta(e, d) ==
    /\ Lee(e, d)
    /\ dicho[d] \in Files \ ({End} \cup Raros)
    /\ sh[d] # "fuera"
    /\ oyente' = [oyente EXCEPT ![e] = "acepta"]
    /\ eco' = [eco EXCEPT ![d] = "codigo"]
    /\ UNCHANGED <<zocalo, cola, averias>>

\* The peer has been killed.  A write may still succeed; one that raises is
\* raised again in the handler of the exception, and ends the thread, with its
\* socket open.
OyenteContestaANadie(e, d) ==
    /\ Lee(e, d)
    /\ dicho[d] \in Files \ ({End} \cup Raros)
    /\ sh[d] = "fuera"
    /\ oyente' \in {[oyente EXCEPT ![e] = x] : x \in {"acepta", "muerto"}}
    /\ averias' = IF oyente'[e] = "muerto" THEN averias \cup {"oyente"} ELSE averias
    /\ UNCHANGED <<zocalo, cola, eco>>

\* readString decodes byte by byte and raises at the first one above 127: the
\* thread ends, with its socket open, and the connection with it.
OyenteNoDescifra(e, d) ==
    /\ Lee(e, d)
    /\ dicho[d] \in Raros
    /\ oyente' = [oyente EXCEPT ![e] = "muerto"]
    /\ \E r \in {"cerrada", "reset"} : eco' = [eco EXCEPT ![d] = r]
    /\ averias' = averias \cup {"oyente"}
    /\ UNCHANGED <<zocalo, cola>>

\* It was killed before it had sent anything: readString goes round for ever,
\* or raises.
OyenteLeeNada(e, d) ==
    /\ Lee(e, d)
    /\ dicho[d] = NoName
    /\ sh[d] = "fuera"
    /\ oyente' \in {[oyente EXCEPT ![e] = x] : x \in {"gira", "muerto"}}
    /\ averias' = averias \cup {"oyente"}
    /\ UNCHANGED <<zocalo, cola, eco>>

-----------------------------------------------------------------------------
(* A client is killed.  Its connections end; a request it has sent may     *)
(* still be served.                                                        *)

Muere(c) ==
    /\ sh[c] # "fuera" /\ sh[c] # "huerfana"
    /\ Falla
    /\ sh' = [sh EXCEPT ![c] = IF @ = "espera" /\ c \notin roto THEN "huerfana" ELSE "fuera"]
    /\ usuario' = [usuario EXCEPT ![c] = NoUser]
    /\ oyente' = [oyente EXCEPT ![c] = "no"]
    /\ zocalo' = [zocalo EXCEPT ![c] = "no"]
    /\ cola' = [cola EXCEPT ![c] = <<>>]
    /\ \E corte \in {"cerrada", "reset"} :
          eco' = [x \in Clientes |->
                    IF par[x] # c THEN eco[x]
                    ELSE IF InCola(c, x) THEN "reset"
                    ELSE IF atiende[c] = x /\ oyente[c] \in {"lee", "gira"} /\ eco[x] = "nada"
                         THEN corte ELSE eco[x]]
    /\ averias' = averias \cup {"muerta"}
    /\ UNCHANGED <<servidor, orden, codigo, puerto, atiende, par, dicho>>

-----------------------------------------------------------------------------
Shell(c) ==
    \/ Acaba(c) \/ Recibe(c) \/ Gira(c) \/ Excepcion(c)
    \/ Llama(c) \/ LlamaFalla(c) \/ Dice(c) \/ Oye(c) \/ OyeFalla(c)
    \/ OyeNada(c) \/ Une(c)

Oyente(e) ==
    \/ OyenteEscucha(e) \/ OyenteAcepta(e)
    \/ \E d \in Clientes :
          \/ OyenteTermina(e, d) \/ OyenteContesta(e, d)
          \/ OyenteContestaANadie(e, d) \/ OyenteNoDescifra(e, d)
          \/ OyenteLeeNada(e, d)

\* Whose command never ends: it has read the end of a connection (698), it
\* waits for a thread of the server that left, or it waits for a listening
\* thread that has ended or has itself read the end of a connection.
Colgado(c) ==
    \/ sh[c] \in {"gira", "muda"}
    \/ sh[c] \in {"oye", "une"} /\ oyente[par[c]] \in {"gira", "muerto"}
    \/ sh[c] = "sale" /\ Activo(c)

Acabado(c) == sh[c] \in {"libre", "fuera", "huerfana"}

\* Nothing more is typed, and whoever has not come to an end waits for ever.
Quieto ==
    /\ \A c \in Clientes : Acabado(c) \/ Colgado(c)
    /\ UNCHANGED vars

Next ==
    \/ \E c \in Clientes :
          \/ Ordena(c) \/ Sale(c) \/ Shell(c) \/ Oyente(c) \/ Sirve(c)
          \/ Calla(c) \/ Muere(c)
    \/ Cae \/ Levanta
    \/ Quieto

Spec == Init /\ [][Next]_vars

\* Every thread runs, and the server serves; nobody has to type.
Fairness ==
    \A c \in Clientes :
        WF_vars(Shell(c)) /\ WF_vars(Oyente(c)) /\ WF_vars(Sirve(c))

FairSpec == Spec /\ Fairness

-----------------------------------------------------------------------------
(* Properties                                                              *)

\* Type correctness of the attributes of client (client.py 21-32) and of what
\* goes on between the processes.
TypeOK ==
    /\ arriba \in BOOLEAN
    /\ almacen \in Seq(Tupla)
    /\ usuario \in [Clientes -> Users \cup {NoUser}]
    /\ sh \in [Clientes -> {"libre", "espera", "servida", "muda", "gira", "llama", "dice",
                            "oye", "une", "sale", "fuera", "huerfana"}]
    /\ roto \subseteq Clientes
    /\ puerto \in [Clientes -> Addrs \cup {NoAddr}]
    /\ zocalo \in [Clientes -> {"no", "ligado", "escucha"}]
    /\ oyente \in [Clientes -> {"no", "arranca", "acepta", "lee", "gira", "muerto", "fin"}]
    /\ atiende \in [Clientes -> Clientes \cup {NoPar}]
    /\ cola \in [Clientes -> Seq(Clientes)]
    /\ par \in [Clientes -> Clientes \cup {NoPar}]
    /\ dicho \in [Clientes -> Files \cup {End, NoName}]
    /\ eco \in [Clientes -> {"nada", "codigo", "cerrada", "reset"}]
    /\ averias \subseteq
          {"resto", "repetida", "muda", "caida", "perdida", "despedida", "fin",
           "oyente", "muerta"}

\* The server has done what the shell does not know of yet.
Desfase(c) ==
    \/ sh[c] = "servida"
    \/ sh[c] \in {"llama", "dice", "une"} /\ orden[c].op = "disconnect"

Lista(u, a) ==
    \E i \in Conectados(almacen) : almacen[i].cliente = u /\ almacen[i].addr = a

\* Client and server agree on who is connected from where: whoever has a
\* _username is listed with its own address and its thread is there, and whoever
\* is listed is such a client (client.py 142-148, 191-201; server.c 396-398, 841).
\* What breaks it: an end of the server, now or before it was started with a
\* store that lists users as connected; a name that is registered twice, which
\* the server accepts unless the name is in its first tuple (server.c 272); a
\* client that is killed; a disconnect that raises; and a request for a file
\* named "end", or whose name has a byte above 127, that ends the listening
\* thread (client.py 513, 701).
SessionAgrees ==
    averias \subseteq {"muda"} =>
        /\ \A c \in Clientes :
              usuario[c] # NoUser /\ ~Desfase(c) =>
                  Lista(usuario[c], puerto[c]) /\ Activo(c)
        /\ \A i \in Conectados(almacen) :
              \E c \in Clientes :
                  /\ puerto[c] = almacen[i].addr /\ Abierto(c)
                  /\ \/ usuario[c] = almacen[i].cliente
                     \/ sh[c] = "servida" /\ orden[c].user = almacen[i].cliente

\* Two terminals are never connected as the same user, but for the moment in which
\* one of them is about to finish its disconnect, whatever listening
\* threads and connections end, and although each checks its own _username
\* only (client.py 116, 172-176): the server keeps them apart, as long as
\* it keeps its store, every disconnect it has served reaches the client, and
\* no name is registered twice.  A repeated registration adds a tuple that is
\* not connected, and connect looks at the last tuple of the name (server.c
\* 272, 373-385): a second terminal is then let in.
OneSession ==
    averias \cap {"caida", "repetida", "despedida", "muerta"} = {} =>
        \A c, d \in Clientes :
            usuario[c] = usuario[d] /\ c # d =>
                usuario[c] = NoUser \/ Desfase(c) \/ Desfase(d)

\* A client without a user has no listening thread left, whatever has gone
\* wrong (client.py 198-199): the join comes before _username is cleared.
NoOrphanListener ==
    \A c \in Clientes : usuario[c] = NoUser /\ sh[c] \in {"libre", "sale"} => ~Activo(c)

\* A get_file is served by the client of the user it names (client.py 461-472):
\* as long as the server lists this user at the address it has given, the
\* connection is to a terminal connected as this user, however ports and
\* sessions have changed hands in between.  When the user has left, whoever
\* has got its port since may be asked in its place.
RightPeer ==
    averias \subseteq {"muda"} =>
        \A c \in Clientes :
            /\ sh[c] \in {"dice", "oye"} /\ orden[c].op = "get_file"
            /\ eco[c] = "nada"
            /\ Lista(orden[c].user, Destino(c))
            => usuario[par[c]] = orden[c].user

\* The listening thread of e has the connection of c in its queue or is reading
\* it, and has a next step now, or reads from a client that is about to write or
\* has been killed.
LeAtiende(e, c) ==
    \/ oyente[e] = "acepta" /\ InCola(e, c)
    \/ /\ oyente[e] = "lee"
       /\ atiende[e] = c \/ InCola(e, c)
       /\ dicho[atiende[e]] # NoName \/ sh[atiende[e]] \in {"dice", "fuera"}

\* What a shell waits for in oye and une has come.
HaLlegado(c) == IF sh[c] = "oye" THEN eco[c] # "nada" ELSE HaTerminado(c)

\* Nobody waits for somebody who waits for him, and no connection is lost,
\* whatever has failed (client.py 464-470, 193-198, 505-533): the connection of a
\* shell that reads from a listening thread, or joins its own, is in the queue
\* of that thread or being served, and the thread is never held up by a client
\* that is waiting itself, however many clients fetch files from each other while
\* they disconnect, end and take each other's ports.
WaitersAreServed ==
    \A c \in Clientes :
        sh[c] \in {"oye", "une"} => HaLlegado(c) \/ Colgado(c) \/ LeAtiende(par[c], c)

\* Every command gives the prompt back, except for those of Colgado: clients
\* that fetch files from each other, or from a client that disconnects, do
\* not block one another (client.py 461-494, 505-533).
CommandEnds == \A c \in Clientes : ~Acabado(c) ~> (Acabado(c) \/ Colgado(c))
=============================================================================
