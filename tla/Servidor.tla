------------------------------ MODULE Servidor ------------------------------
(***************************************************************************)
(* tratar_peticion and the nine handlers of server.c: one thread for each  *)
(* connection, one request for each thread, and a store that all threads   *)
(* share under almacen_mutex.  How a thread gets its connection is module  *)
(* Aceptador; the SIGINT handler and the file of the store are not here.   *)
(*                                                                         *)
(* The other end of the connection is part of the model.  A client is      *)
(* fixed when it connects: the request it means to make, how many of the   *)
(* lines of that request it sends, and what it does then (its "end").      *)
(* client.py connects before it has anything to send, so that a client     *)
(* that goes away after no line at all is an ordinary event.               *)
(***************************************************************************)
EXTENDS Atencion

CONSTANTS
    Threads,       \* the threads, one per connection
    Nobody,        \* almacen_mutex is free
    Peticiones,    \* the requests clients make
    Basura,        \* what the stack holds where a line was not received
    Finales,       \* what clients do after their last line
    RpcFalla,      \* clnt_create may fail
    NoArgs,        \* a thread that has not read its request
    NoPeticion,    \* a thread without a connection
    Guardados,     \* the stores the server may have loaded
    MaxInicial     \* the capacity main gives almacen, 50 in the code

Ops == {"register", "unregister", "connect", "publish", "delete",
        "list_users", "list_content", "disconnect", "get_file"}

Peticion == [op : Ops \cup {"otra"}, user : Users, other : Users,
             file : Files, descr : Descrs, addr : Addrs]

\* A client that stays reads its answer; one that closes or resets is gone;
\* one that stalls neither sends, reads nor closes any more.
Final == {"stays", "closes", "resets", "stalls"}

ASSUME ServidorAssumption ==
    /\ Nobody \notin Threads
    /\ Peticiones \subseteq Peticion
    /\ Basura \subseteq Peticion /\ Basura # {}
    /\ Finales \subseteq Final
    /\ RpcFalla \in BOOLEAN
    /\ NoArgs \notin Peticion
    /\ MaxInicial \in Nat \ {0}

\* What an earlier run can have left: its store, with file names unique and an
\* address for each user that is connected (Persistencia: StoreStaysSound).
ASSUME GuardadosAssumption == \A a \in Guardados : Solido(a)

VARIABLES
    up,          \* the server process is running
    almacen,     \* the store
    max_tuplas,  \* its capacity
    mutex,       \* the owner of almacen_mutex
    pc,          \* where each thread is
    req,         \* the client each thread serves
    args,        \* the request each thread has read
    idx,         \* index of the tuple of args.user, 0 for none
    idx2,        \* list_content: index of the tuple of args.other
    pos,         \* listings: the entries already visited
    count,       \* listings: the number of entries announced
    sent,        \* what the thread has sent after code 0
    resp         \* the code the handler computed

vars == <<up, almacen, max_tuplas, mutex, pc, req, args, idx, idx2, pos,
          count, sent, resp>>

\* What only the thread itself writes and reads.
local == <<idx, idx2, pos, count, sent>>
store == <<almacen, max_tuplas>>

NoResp == -2

\* The capacity load leaves after reading n tuples: it doubles as soon as
\* only one place is left.
Capacidades(n) ==
    {c \in 1 .. 2 * n + MaxInicial :
        /\ n < c
        /\ c = MaxInicial \/ c <= 2 * n
        /\ \E k \in 0 .. n : c = MaxInicial * 2^k}

Init ==
    /\ up = TRUE
    /\ almacen \in Guardados
    /\ max_tuplas \in Capacidades(Len(almacen))
    /\ mutex = Nobody
    /\ pc = [t \in Threads |-> "idle"]
    /\ req = [t \in Threads |-> NoPeticion]
    /\ args = [t \in Threads |-> NoArgs]
    /\ idx = [t \in Threads |-> 0]
    /\ idx2 = [t \in Threads |-> 0]
    /\ pos = [t \in Threads |-> 0]
    /\ count = [t \in Threads |-> 0]
    /\ sent = [t \in Threads |-> <<>>]
    /\ resp = [t \in Threads |-> NoResp]

-----------------------------------------------------------------------------
(* The protocol: the operation, the date, then the arguments, one line     *)
(* each.                                                                   *)

Campos(op) ==
    CASE op \in {"register", "unregister", "disconnect", "list_users"} ->
            <<"user">>
      [] op = "connect" -> <<"user", "addr">>
      [] op = "publish" -> <<"user", "file", "descr">>
      [] op \in {"delete", "get_file"} -> <<"user", "file">>
      [] op = "list_content" -> <<"user", "other">>
      [] OTHER -> <<>>

Lineas(op) == 2 + Len(Campos(op))

Cliente ==
    {c \in [pet : Peticiones, lines : 0 .. 5, end : Finales] :
        /\ c.lines <= Lineas(c.pet.op)
        /\ c.end = "stays" => c.lines = Lineas(c.pet.op)}

Op(t) == req[t].pet.op

\* The line with field f of thread t's request never arrives.
Falta(t, f) ==
    \E i \in DOMAIN Campos(Op(t)) : Campos(Op(t))[i] = f /\ i > req[t].lines - 2

Completa(t) == req[t].lines = Lineas(Op(t))

\* The other end is gone: a write may still be taken, may fail with an error,
\* or may raise SIGPIPE, which nobody handles.
Ido(t) == req[t].end \in {"closes", "resets"}

\* These handlers send their answer themselves, with the mutex held.
EnviaSola(op) == op \in {"list_users", "list_content", "get_file"}

\* What each handler returns when a line cannot be read.
CodigoError(op) ==
    CASE op \in {"register", "unregister", "get_file"} -> 2
      [] op \in {"connect", "list_users", "disconnect"} -> 3
      [] op \in {"publish", "delete", "list_content"} -> 4

-----------------------------------------------------------------------------
(* Steps.                                                                  *)

En(t, lugar) == up /\ pc[t] = lugar

Va(t, lugar) == pc' = [pc EXCEPT ![t] = lugar]

\* The end of the process: exit, or a signal.
Muere ==
    /\ up' = FALSE
    /\ UNCHANGED <<almacen, max_tuplas, mutex, pc, req, args, resp, local>>

\* The handler returns c and has released the mutex.
Devuelve(t, c) ==
    /\ resp' = [resp EXCEPT ![t] = c]
    /\ mutex' = Nobody
    /\ Va(t, IF EnviaSola(Op(t)) THEN "log" ELSE "reply")
    /\ UNCHANGED <<up, req>>

\* A client connects and its thread has copied the socket.
Llega(t, c) ==
    /\ En(t, "idle")
    /\ req' = [req EXCEPT ![t] = c]
    /\ Va(t, "start")
    /\ UNCHANGED <<up, store, mutex, args, resp, local>>

\* getenv and clnt_create.
CreaRpc(t) ==
    /\ En(t, "start")
    /\ Va(t, "header")
    /\ UNCHANGED <<up, store, mutex, req, args, resp, local>>

\* IP_TUPLAS is not defined or the RPC server does not answer: the thread
\* returns and its socket stays open.
RpcNoCreado(t) ==
    /\ En(t, "start")
    /\ RpcFalla
    /\ Va(t, "leaked")
    /\ UNCHANGED <<up, store, mutex, req, args, resp, local>>

\* The end of the input where the date should be is not taken for an error.
CabeceraLeida(t) ==
    \/ req[t].lines >= 2
    \/ req[t].lines = 1 /\ req[t].end = "closes"

LeeCabecera(t) ==
    /\ En(t, "header")
    /\ CabeceraLeida(t)
    /\ Op(t) # "otra"
    /\ Va(t, "lock")
    /\ UNCHANGED <<up, store, mutex, req, args, resp, local>>

\* No operation, or an error: the thread closes the socket.
CabeceraFalla(t) ==
    /\ En(t, "header")
    /\ Ido(t)
    /\ ~CabeceraLeida(t)
    /\ Va(t, "done")
    /\ UNCHANGED <<up, store, mutex, req, args, resp, local>>

\* str2int compares an unknown operation with what lies behind its table of
\* names: it returns -1 or the process dies.
Desconocida(t) ==
    /\ En(t, "header")
    /\ CabeceraLeida(t)
    /\ Op(t) = "otra"
    /\ \/ /\ resp' = [resp EXCEPT ![t] = -1]
          /\ Va(t, "reply")
          /\ UNCHANGED <<up, store, mutex, req, args, local>>
       \/ Muere

\* Defective variant: the handler starts without waiting for the mutex.
EntraSinEsperar(t) ==
    /\ En(t, "lock")
    /\ mutex' = t
    /\ Va(t, "args")
    /\ UNCHANGED <<up, store, req, args, resp, local>>

Entra(t) ==
    /\ En(t, "lock")
    /\ mutex = Nobody
    /\ mutex' = t
    /\ Va(t, "args")
    /\ UNCHANGED <<up, store, req, args, resp, local>>

\* The port of a connect has not arrived, or its client has reset the
\* connection: the result of getpeername is not looked at, and ip is then
\* what the stack holds, or the address if the reset comes later.
DireccionIncierta(t) == Falta(t, "addr") \/ req[t].end = "resets"

\* What the thread finds in its buffers: a line that did not arrive because
\* the client closed leaves its buffer as it was, and is no error.
Recibida(t, g) ==
    [req[t].pet EXCEPT
        !.user  = IF Falta(t, "user")  THEN g.user  ELSE @,
        !.other = IF Falta(t, "other") THEN g.other ELSE @,
        !.file  = IF Falta(t, "file")  THEN g.file  ELSE @,
        !.descr = IF Falta(t, "descr") THEN g.descr ELSE @,
        !.addr  = IF DireccionIncierta(t) THEN g.addr  ELSE @]

\* What may lie there.
Pila(t) == Basura \cup (IF req[t].end = "resets" THEN {req[t].pet} ELSE {})

\* Defective variant: the handler goes on whatever has been received.
LeeArgsSinMirar(t) ==
    /\ En(t, "args")
    /\ \E g \in Pila(t) : args' = [args EXCEPT ![t] = Recibida(t, g)]
    /\ Va(t, "search")
    /\ UNCHANGED <<up, store, mutex, req, resp, local>>

LeeArgs(t) ==
    /\ En(t, "args")
    /\ Completa(t) \/ req[t].end = "closes"
    /\ \E g \in Pila(t) : args' = [args EXCEPT ![t] = Recibida(t, g)]
    /\ Va(t, "search")
    /\ UNCHANGED <<up, store, mutex, req, resp, local>>

\* Defective variant: the error return forgets to release the mutex.
ArgsFallanSinSoltar(t) ==
    /\ En(t, "args")
    /\ ~Completa(t)
    /\ req[t].end = "resets"
    /\ resp' = [resp EXCEPT ![t] = CodigoError(Op(t))]
    /\ Va(t, IF EnviaSola(Op(t)) THEN "log" ELSE "reply")
    /\ UNCHANGED <<up, store, mutex, req, args, local>>

ArgsFallan(t) ==
    /\ En(t, "args")
    /\ ~Completa(t)
    /\ req[t].end = "resets"
    /\ Devuelve(t, CodigoError(Op(t)))
    /\ UNCHANGED <<store, args, local>>

\* The search loops of the handlers, in the store as it is.
Encuentra(op, u, i) == Halla(almacen, op, u, i)

Busca(t) ==
    /\ En(t, "search")
    /\ \E i, j \in 0 .. Len(almacen) :
          /\ Encuentra(Op(t), args[t].user, i)
          /\ IF Op(t) = "list_content"
             THEN Encuentra(Op(t), args[t].other, j)
             ELSE j = 0
          /\ idx' = [idx EXCEPT ![t] = i]
          /\ idx2' = [idx2 EXCEPT ![t] = j]
    /\ Va(t, "apply")
    /\ UNCHANGED <<up, store, mutex, req, args, resp, pos, count, sent>>

-----------------------------------------------------------------------------
(* The handlers, after their search.  Each returns a code and releases the *)
(* mutex.                                                                  *)

Atiende(t, op) == En(t, "apply") /\ Op(t) = op

Tupla_(t) == almacen[idx[t]]
Hay(t) == idx[t] # 0
Conectado(t) == Hay(t) /\ Tupla_(t).connected = 1

\* The handler returns a code and changes nothing.
Rechaza(t, c) == Devuelve(t, c) /\ UNCHANGED <<store, args, local>>

\* The handler returns 0 and leaves the store a.
Cambia(t, a) ==
    /\ almacen' = a
    /\ Devuelve(t, 0)
    /\ UNCHANGED <<args, local>>

s_register(t) ==
    /\ Atiende(t, "register")
    /\ \/ Hay(t) /\ Rechaza(t, 1)
       \/ /\ ~Hay(t)
          /\ max_tuplas' = Doblar(Len(almacen), max_tuplas)
          /\ Cambia(t, Append(almacen, TuplaVacia(args[t].user)))
       \/ \* realloc returns NULL, which is not checked
          ~Hay(t) /\ Len(almacen) = max_tuplas /\ Muere

\* Defective variant: a connected user can be removed.
UnregisterConectado(t) ==
    /\ Atiende(t, "unregister")
    /\ \/ ~Hay(t) /\ Rechaza(t, 1)
       \/ Hay(t) /\ Cambia(t, Quitar(almacen, idx[t])) /\ UNCHANGED max_tuplas

s_unregister(t) ==
    /\ Atiende(t, "unregister")
    /\ \/ ~Hay(t) /\ Rechaza(t, 1)
       \/ Conectado(t) /\ Rechaza(t, 2)
       \/ /\ Hay(t) /\ ~Conectado(t)
          /\ Cambia(t, Quitar(almacen, idx[t]))
          /\ UNCHANGED max_tuplas

s_connect(t) ==
    /\ Atiende(t, "connect")
    /\ \/ ~Hay(t) /\ Rechaza(t, 1)
       \/ Conectado(t) /\ Rechaza(t, 2)
       \/ /\ Hay(t) /\ ~Conectado(t)
          /\ Cambia(t, Conectar(almacen, idx[t], args[t].addr))
          /\ UNCHANGED max_tuplas

s_disconnect(t) ==
    /\ Atiende(t, "disconnect")
    /\ \/ ~Hay(t) /\ Rechaza(t, 1)
       \/ Hay(t) /\ ~Conectado(t) /\ Rechaza(t, 2)
       \/ /\ Conectado(t)
          /\ Cambia(t, Desconectar(almacen, idx[t]))
          /\ UNCHANGED max_tuplas

s_publish(t) ==
    /\ Atiende(t, "publish")
    /\ \/ ~Hay(t) /\ Rechaza(t, 1)
       \/ Hay(t) /\ ~Conectado(t) /\ Rechaza(t, 2)
       \/ Conectado(t) /\ Publicado(Tupla_(t), args[t].file) /\ Rechaza(t, 3)
       \/ /\ Conectado(t)
          /\ ~Publicado(Tupla_(t), args[t].file)
          /\ Cambia(t, Publicar(almacen, idx[t], args[t].file, args[t].descr))
          /\ UNCHANGED max_tuplas

s_delete(t) ==
    /\ Atiende(t, "delete")
    /\ \/ ~Hay(t) /\ Rechaza(t, 1)
       \/ Hay(t) /\ ~Conectado(t) /\ Rechaza(t, 2)
       \/ Conectado(t) /\ ~Publicado(Tupla_(t), args[t].file) /\ Rechaza(t, 3)
       \/ /\ Conectado(t)
          /\ \E k \in 1 .. Len(Tupla_(t).files) :
                /\ EsUltimoFichero(Tupla_(t), args[t].file, k)
                /\ Cambia(t, Borrar(almacen, idx[t], k))
          /\ UNCHANGED max_tuplas

-----------------------------------------------------------------------------
(* The handlers that send their answer with the mutex held.                *)

\* A write of the handler fails: it returns e, or the process dies.
EnvioFalla(t, e) == Ido(t) /\ (Rechaza(t, e) \/ Muere)

\* The handler sends code c and returns it.
EnviaCodigo(t, c, e) == Rechaza(t, c) \/ EnvioFalla(t, e)

\* Defective variant: the mutex is released before the entries are sent.
EmpiezaSinMutex(t, n, e) ==
    \/ /\ count' = [count EXCEPT ![t] = n]
       /\ mutex' = Nobody
       /\ Va(t, "send")
       /\ UNCHANGED <<up, store, req, args, resp, idx, idx2, pos, sent>>
    \/ EnvioFalla(t, e)

\* The handler sends code 0 and the number n of entries to come.
Empieza(t, n, e) ==
    \/ /\ count' = [count EXCEPT ![t] = n]
       /\ Va(t, "send")
       /\ UNCHANGED <<up, store, mutex, req, args, resp, idx, idx2, pos, sent>>
    \/ EnvioFalla(t, e)

s_list_users(t) ==
    /\ Atiende(t, "list_users")
    /\ \/ ~Hay(t) /\ EnviaCodigo(t, 1, 3)
       \/ Hay(t) /\ Conectados(almacen) = {} /\ EnviaCodigo(t, 2, 3)
       \/ /\ Hay(t) /\ Conectados(almacen) # {}
          /\ Empieza(t, Cardinality(Conectados(almacen)), 3)

s_list_content(t) ==
    /\ Atiende(t, "list_content")
    /\ \/ ~Hay(t) /\ EnviaCodigo(t, 1, 4)
       \/ Hay(t) /\ ~Conectado(t) /\ EnviaCodigo(t, 2, 4)
       \/ Conectado(t) /\ idx2[t] = 0 /\ EnviaCodigo(t, 3, 4)
       \/ /\ Conectado(t) /\ idx2[t] # 0
          /\ Empieza(t, Len(almacen[idx2[t]].files), 4)

\* The loop of list_users visits the tuples from pos on and sends those that
\* are connected; the one of list_content sends the first count files.
EnviaEntrada(t) ==
    /\ En(t, "send")
    /\ \/ /\ Op(t) = "list_users"
          /\ \E i \in Conectados(almacen) :
                /\ i > pos[t]
                /\ \A j \in Conectados(almacen) : j <= pos[t] \/ j >= i
                /\ pos' = [pos EXCEPT ![t] = i]
                /\ sent' = [sent EXCEPT ![t] =
                              Append(@, <<almacen[i].cliente, almacen[i].addr>>)]
          /\ UNCHANGED <<up, store, mutex, pc, req, args, resp, idx, idx2, count>>
       \/ /\ Op(t) = "list_content"
          /\ pos[t] < count[t]
          /\ LET f == almacen[idx2[t]].files[pos[t] + 1]
             IN  sent' = [sent EXCEPT ![t] = Append(@, <<f.name, f.descr>>)]
          /\ pos' = [pos EXCEPT ![t] = @ + 1]
          /\ UNCHANGED <<up, store, mutex, pc, req, args, resp, idx, idx2, count>>

QuedanEntradas(t) ==
    IF Op(t) = "list_users"
    THEN \E i \in Conectados(almacen) : i > pos[t]
    ELSE pos[t] < count[t]

\* Defective variant: a listing cut short is returned as complete.
EntradaFallaSinAviso(t) ==
    /\ En(t, "send")
    /\ QuedanEntradas(t)
    /\ EnvioFalla(t, 0)

EntradaFalla(t) ==
    /\ En(t, "send")
    /\ QuedanEntradas(t)
    /\ EnvioFalla(t, IF Op(t) = "list_users" THEN 3 ELSE 4)

TerminaLista(t) ==
    /\ En(t, "send")
    /\ ~QuedanEntradas(t)
    /\ Rechaza(t, 0)

\* The user of a get_file request is the one that offers the file.
s_get_file(t) ==
    /\ Atiende(t, "get_file")
    /\ \/ ~Conectado(t) /\ EnviaCodigo(t, 2, -1)
       \/ /\ Conectado(t)
          /\ ~Publicado(Tupla_(t), args[t].file)
          /\ EnviaCodigo(t, 1, 2)
       \/ /\ Conectado(t)
          /\ Publicado(Tupla_(t), args[t].file)
          /\ \/ /\ Devuelve(t, 0)
                /\ sent' = [sent EXCEPT ![t] = <<Tupla_(t).addr>>]
                /\ UNCHANGED <<store, args, idx, idx2, pos, count>>
             \/ EnvioFalla(t, 2)

-----------------------------------------------------------------------------
(* The end of tratar_peticion.                                             *)

\* A failed write ends the whole process, by exit or by SIGPIPE.
Responde(t) ==
    /\ En(t, "reply")
    /\ \/ /\ Va(t, "log")
          /\ UNCHANGED <<up, store, mutex, req, args, resp, local>>
       \/ Ido(t) /\ Muere

\* The call of the log server, whose failure is ignored, and closeSocket.
Registra(t) ==
    /\ En(t, "log")
    /\ Va(t, "done")
    /\ UNCHANGED <<up, store, mutex, req, args, resp, local>>

Paso(t) ==
    \/ CreaRpc(t) \/ RpcNoCreado(t)
    \/ LeeCabecera(t) \/ CabeceraFalla(t) \/ Desconocida(t)
    \/ Entra(t) \/ LeeArgs(t) \/ ArgsFallan(t) \/ Busca(t)
    \/ s_register(t) \/ s_unregister(t) \/ s_connect(t) \/ s_disconnect(t)
    \/ s_publish(t) \/ s_delete(t) \/ s_get_file(t)
    \/ s_list_users(t) \/ s_list_content(t)
    \/ EnviaEntrada(t) \/ EntradaFalla(t) \/ TerminaLista(t)
    \/ Responde(t) \/ Registra(t)

\* Thread t waits for a line, or for room to write, that its client never
\* gives it.
Atascado(t) ==
    /\ pc[t] \in {"header", "args", "send"}
    /\ req[t].end = "stalls"

\* Nothing can happen any more: the process has ended, or every thread has
\* ended, is stuck on its client or waits for the mutex of one that is.
Parado ==
    /\ \/ ~up
       \/ \A t \in Threads :
             \/ pc[t] \in {"done", "leaked"}
             \/ Atascado(t)
             \/ pc[t] = "lock" /\ mutex # Nobody /\ Atascado(mutex)
    /\ UNCHANGED vars

Next ==
    \/ \E t \in Threads :
          \/ \E c \in Cliente : Llega(t, c)
          \/ Paso(t)
    \/ Parado

Spec == Init /\ [][Next]_vars

\* Every thread is scheduled; a stalled client may leave its thread blocked in
\* a write of a listing.
Fairness ==
    \A t \in Threads :
        WF_vars((pc[t] # "send" \/ ~Atascado(t)) /\ Paso(t))

FairSpec == Spec /\ Fairness
-----------------------------------------------------------------------------
(* Properties.                                                             *)

Lugares == {"idle", "start", "header", "lock", "args", "search", "apply",
            "send", "reply", "log", "done", "leaked"}

\* Where a thread holds almacen_mutex.
Critica == {"args", "search", "apply", "send"}

\* What is sent after code 0: an entry of a listing, or an address.
Entrada ==
    (Users \X (Addrs \cup {NoAddr})) \cup (Files \X Descrs) \cup Addrs \cup {NoAddr}

\* Type correctness of the store and of what each thread keeps (server.c
\* 28-35, 137, 142 and the local variables of the handlers).
TypeOK ==
    /\ up \in BOOLEAN
    /\ almacen \in Seq(Tupla)
    /\ max_tuplas \in Nat
    /\ mutex \in Threads \cup {Nobody}
    /\ pc \in [Threads -> Lugares]
    /\ req \in [Threads -> Cliente \cup {NoPeticion}]
    /\ args \in [Threads -> Peticion \cup {NoArgs}]
    /\ idx \in [Threads -> Nat]
    /\ idx2 \in [Threads -> Nat]
    /\ pos \in [Threads -> Nat]
    /\ count \in [Threads -> Nat]
    /\ sent \in [Threads -> Seq(Entrada)]
    /\ resp \in [Threads -> -2 .. 4]

\* almacen_mutex is held exactly by the thread that is inside a handler: every
\* return of every handler has released it, the error returns included
\* (server.c 256-290 and the same in the other eight).
MutexOwner == \A t \in Threads : (mutex = t) <=> (pc[t] \in Critica)

\* The index a handler found is still the right one when it is used: no other
\* thread inserts, moves or removes tuples between the search and the update
\* or the last entry of a listing (server.c 373-398, 446-472, 742-796, ...).
IndexFresh ==
    \A t \in Threads : pc[t] \in {"apply", "send"} =>
        /\ Encuentra(Op(t), args[t].user, idx[t])
        /\ Op(t) = "list_content" => Encuentra(Op(t), args[t].other, idx2[t])

\* The array is never written past its capacity: register makes room before
\* it inserts, and load leaves room for it (server.c 278-288, 984-992).
CapacityOK == Len(almacen) <= max_tuplas

\* No user publishes the same file name twice, over any sequence of publish
\* and delete of any threads (server.c 463-472, 530-548).
FilesUnique == \A i \in 1 .. Len(almacen) : FicherosUnicos(almacen[i])

\* The listing a client gets is the store at one instant: the number announced
\* is the number sent, and what has been sent is still what the store holds
\* (server.c 592-673, 769-796).
ListingIsSnapshot ==
    \A t \in Threads :
        /\ pc[t] = "send" /\ Op(t) = "list_users" =>
              /\ count[t] = Cardinality(Conectados(almacen))
              /\ Len(sent[t]) = Cardinality({i \in Conectados(almacen) : i <= pos[t]})
              /\ \A n \in 1 .. Len(sent[t]) : \E i \in Conectados(almacen) :
                    sent[t][n] = <<almacen[i].cliente, almacen[i].addr>>
        /\ pc[t] = "send" /\ Op(t) = "list_content" =>
              /\ count[t] = Len(almacen[idx2[t]].files)
              /\ sent[t] = [n \in 1 .. pos[t] |->
                              LET f == almacen[idx2[t]].files[n]
                              IN  <<f.name, f.descr>>]
        /\ resp[t] = 0 /\ Op(t) \in {"list_users", "list_content"} =>
              Len(sent[t]) = count[t]

\* Thread t returns code c in this step.
Contesta(t, c) == resp[t] = NoResp /\ resp'[t] = c

EstaConectado(a, u) == \E i \in Conectados(a) : a[i].cliente = u

\* A connected user goes offline only through its own disconnect: no removal,
\* registration or connection of anybody takes its tuple away (server.c
\* 315-320 and 841).
ConnectedStays ==
    [][\A u \in Users :
          EstaConectado(almacen, u) /\ ~EstaConectado(almacen', u) =>
             \E t \in Threads :
                /\ Contesta(t, 0)
                /\ Op(t) = "disconnect"
                /\ args[t].user = u]_vars

Veces(a, x) == Cardinality({i \in 1 .. Len(a) : a[i] = x})
Tuplas(a) == {a[i] : i \in 1 .. Len(a)}

\* A handler leaves the tuples of all other users as they are, wherever the
\* removal of a tuple moves them (server.c 323-329).
OthersUntouched ==
    [][almacen' # almacen =>
          \E t \in Threads :
             /\ Contesta(t, 0)
             /\ \A x \in Tuplas(almacen) \cup Tuplas(almacen') :
                   x.cliente # args[t].user => Veces(almacen, x) = Veces(almacen', x)
      ]_vars

Ofrece(a, u, f) ==
    \E i \in 1 .. Len(a) : a[i].cliente = u /\ f \in {a[i].files[k] : k \in 1 .. Len(a[i].files)}

\* A published file, with its description, is there until its owner deletes
\* that file or unregisters (server.c 323-329, 546-548).
FilesSurvive ==
    [][\A u \in Users, f \in Fichero :
          Ofrece(almacen, u, f) /\ ~Ofrece(almacen', u, f) =>
             \E t \in Threads :
                /\ Contesta(t, 0)
                /\ args[t].user = u
                /\ \/ Op(t) = "unregister"
                   \/ Op(t) = "delete" /\ args[t].file = f.name]_vars

Ac == INSTANCE Actualizaciones WITH Nadie <- Nobody, Cero <- NoArgs

\* Whatever the threads do at the same time, the store changes by one update at a
\* time, made with the mutex held: one that the checks of its handler let through
\* in the store it changes, and of the user its request names (server.c 263-288,
\* 310-329, 369-398, 452-472, 515-548, 829-841).
UpdatesAreChecked ==
    [][almacen' # almacen =>
          \E t \in Threads :
             /\ mutex = t
             /\ \E c \in Ac!Cambios(almacen) :
                   /\ c.op = Op(t) /\ c.user = args[t].user
                   /\ almacen' = Ac!Hecho(almacen, c)]_vars

\* A handler answers, sends and changes what it would with nobody else about in
\* the store it finds, names that are registered twice included; or its
\* client has gone, and it changes nothing (server.c 250-940).
ServesAsAlone ==
    [][\A t \in Threads :
          pc[t] \in {"apply", "send"} /\ resp'[t] # resp[t] =>
             \/ /\ resp'[t] = CodigoDe(almacen, args[t])
                /\ almacen' = IF resp'[t] = 0 THEN AlmacenTras(almacen, args[t])
                                             ELSE almacen
                /\ resp'[t] = 0 => {sent'[t][n] : n \in 1 .. Len(sent'[t])}
                                     = ItemsDe(almacen, args[t])
             \/ Ido(t) /\ resp'[t] # 0 /\ almacen' = almacen]_vars

\* A client that sends its request and waits for the answer gets it, unless
\* the process ends, the log server cannot be reached, or some client stalls
\* and its thread keeps the mutex (server.c 134-248).
ClientAnswered ==
    \A t \in Threads :
        (pc[t] = "start" /\ req[t].end = "stays") ~>
            \/ pc[t] = "done" /\ resp[t] # NoResp
            \/ pc[t] = "leaked"
            \/ ~up
            \/ mutex # Nobody /\ Atascado(mutex)

-----------------------------------------------------------------------------
(* What the comments of server.c say and the code does not do.             *)

\* "1: si el usuario ya esta registrado" (server.c 254): no name is
\* registered twice.
UniqueNames == NombresUnicos(almacen)

\* "2: si el usuario no esta conectado" (server.c 558), of list_users.
ListUsersCodes ==
    [][\A t \in Threads, c \in 0 .. 3 :
          Contesta(t, c) /\ Op(t) = "list_users" /\ req[t].end = "stays" =>
             (c = 2 <=> /\ Registrado(almacen, args[t].user)
                        /\ ~EstaConectado(almacen, args[t].user))]_vars

\* "1: si el usuario no esta registrado" (server.c 851), of get_file.
GetFileCodes ==
    [][\A t \in Threads, c \in 0 .. 2 :
          Contesta(t, c) /\ Op(t) = "get_file" /\ req[t].end = "stays" =>
             (c = 1 <=> ~Registrado(almacen, args[t].user))]_vars

\* "Cerramos la conexion con el cliente" (server.c 245): every connection is
\* closed in the end, so that its client does not wait for ever.
ConnectionClosed ==
    \A t \in Threads : (pc[t] = "start") ~> (pc[t] = "done" \/ ~up)
=============================================================================
