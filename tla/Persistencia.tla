---------------------------- MODULE Persistencia ----------------------------
(***************************************************************************)
(* The store and its file.  load reads data_structure/almacen.txt into the *)
(* dynamic array and then empties it; the handlers update the array, each  *)
(* update as the sequence of assignments it is; close_server, the handler  *)
(* of SIGINT, writes the array back and ends the process.  It takes no     *)
(* mutex and runs in whichever thread the signal interrupts, while the     *)
(* other threads go on.  Every other end of the process leaves the file as *)
(* it is.                                                                  *)
(*                                                                         *)
(* almacen_mutex lets one update at a time run: cambio is that update and  *)
(* resto what is left of it.  Which updates there are is module            *)
(* Actualizaciones; the handlers that make them are module Servidor.       *)
(***************************************************************************)
EXTENDS Actualizaciones

CONSTANTS
    Hilos,        \* the threads, main included
    Principal,    \* the thread of main
    MaxInicial,   \* max_tuplas at the start, 50 in the code
    Guardados,    \* the files the first start can find
    MaxCambios,   \* bound: updates, in all the runs of the server
    MaxVidas      \* bound: starts of the server

ASSUME PersistenciaAssumption ==
    /\ Principal \in Hilos
    /\ Nadie \notin Hilos
    /\ Cero \notin Users
    /\ MaxInicial \in Nat \ {0}
    /\ Guardados \subseteq Seq(Tupla)
    /\ MaxCambios \in Nat
    /\ MaxVidas \in Nat

VARIABLES
    fase,         \* what main is doing
    almacen,      \* the block of tuples, max_tuplas cells
    bloque,       \* the pointer almacen: valid, moved by a realloc, or NULL
    n_elementos,
    max_tuplas,
    cambio,       \* the update in progress, its thread and its target
    resto,        \* the assignments it has still to make
    manejador,    \* close_server in each thread
    fichero,      \* the tuples in the file
    debido,       \* what the updates so far should have made of the store
    causas,       \* why this run of the server may end with another file
    tocados,      \* users of an update that a SIGINT found or that came after it
    vidas,        \* starts so far
    hechos        \* updates so far

memoria == <<almacen, bloque, n_elementos, max_tuplas>>
vars == <<fase, almacen, bloque, n_elementos, max_tuplas, cambio, resto,
          manejador, fichero, debido, causas, tocados, vidas, hechos>>

FicheroBorrado == [name |-> Cero, descr |-> Cero]
TuplaBorrada ==
    [cliente |-> Cero, files |-> <<>>, connected |-> 0, addr |-> NoAddr]

Fuera == [pc |-> "fuera", i |-> 1, escritas |-> 0]

Init ==
    /\ fase = "parado"
    /\ almacen = <<>> /\ bloque = "nulo"
    /\ n_elementos = 0 /\ max_tuplas = MaxInicial
    /\ cambio = NoCambio /\ resto = <<>>
    /\ manejador = [h \in Hilos |-> Fuera]
    /\ fichero \in Guardados
    /\ debido = fichero
    /\ causas = {} /\ tocados = {}
    /\ vidas = 0 /\ hechos = 0

Vivo == fase # "parado"
Libre(h) == manejador[h].pc = "fuera"
EnMarcha == \E h \in Hilos : ~Libre(h)

\* The tuples the server has, in their order.
Contenido == SubSeq(almacen, 1, n_elementos)

\* The process is gone, with everything but the file.
Termina ==
    /\ fase' = "parado"
    /\ almacen' = <<>> /\ bloque' = "nulo"
    /\ n_elementos' = 0 /\ max_tuplas' = MaxInicial
    /\ cambio' = NoCambio /\ resto' = <<>>
    /\ manejador' = [h \in Hilos |-> Fuera]
    /\ UNCHANGED <<debido, tocados, vidas, hechos>>

-----------------------------------------------------------------------------
(* main: malloc, load, and the accept loop.                                *)

Arranca ==
    /\ fase = "parado"
    /\ vidas < MaxVidas
    /\ fase' = "abre"
    /\ vidas' = vidas + 1
    /\ almacen' = [j \in 1 .. MaxInicial |-> TuplaBorrada]
    /\ bloque' = "propio"
    /\ debido' = fichero
    /\ causas' = {} /\ tocados' = {}
    /\ UNCHANGED <<n_elementos, max_tuplas, cambio, resto, manejador, fichero, hechos>>

Carga(f) ==
    /\ fase = f
    /\ Libre(Principal)
    /\ UNCHANGED <<cambio, resto, manejador, debido, causas, tocados, vidas, hechos>>

\* "a+" creates a file that is missing and keeps one that is there.
CargaAbre ==
    /\ Carga("abre")
    /\ fase' = "lee"
    /\ UNCHANGED <<memoria, fichero>>

\* Defective variant: the array is doubled when it is full, as in register.
DoblarLleno(n, max) == IF n = max THEN 2 * max ELSE max

\* The array is doubled one place before it is full, so that the next fread
\* has a cell to write.
DoblarAlLeer(n, max) == IF n = max - 1 THEN 2 * max ELSE max

\* Defective variant: a new block, without what the old one held.
BloqueNuevo(a, max) == [j \in 1 .. max |-> TuplaBorrada]

\* The block with more cells; what they hold is never read.
Ampliado(a, max) ==
    [j \in 1 .. max |-> IF j \in 1 .. Len(a) THEN a[j] ELSE TuplaBorrada]

\* The position in the file is n_elementos.
CargaTupla ==
    /\ Carga("lee")
    /\ n_elementos < Len(fichero)
    /\ max_tuplas' = DoblarAlLeer(n_elementos, max_tuplas)
    /\ almacen' = Ampliado([almacen EXCEPT ![n_elementos + 1] =
                                               fichero[n_elementos + 1]],
                           max_tuplas')
    /\ n_elementos' = n_elementos + 1
    /\ UNCHANGED <<fase, bloque, fichero>>

CargaFin ==
    /\ Carga("lee")
    /\ n_elementos = Len(fichero)
    /\ fase' = "vacia"
    /\ UNCHANGED <<memoria, fichero>>

CargaVacia ==
    /\ Carga("vacia")
    /\ fichero' = <<>>
    /\ fase' = "sirve"
    /\ UNCHANGED memoria

\* An error of one of the two fopen calls: main returns.
CargaFalla ==
    /\ fase \in {"abre", "vacia"}
    /\ Libre(Principal)
    /\ Termina
    /\ UNCHANGED <<fichero, causas>>

\* Any end without close_server: a signal that is not handled, exit(-1) in
\* tratar_peticion, an access through NULL, and main returning after load
\* because the socket, the name of the host, accept or pthread_create fails.
Muere ==
    /\ Vivo
    /\ Termina
    /\ causas' = IF fase = "sirve" \/ EnMarcha THEN causas \cup {"muerte"} ELSE causas
    /\ UNCHANGED fichero

-----------------------------------------------------------------------------
(* The updates of the handlers.  Empieza is the point where the checks are *)
(* done and the first assignment comes next.                               *)

\* Defective variant: the last tuple is cleared before it is copied.
PasosBorraAntes(op, lleno) ==
    CASE op = "register" ->
            IF lleno THEN <<"suelta", "asigna", "max", "inserta", "sube">>
            ELSE <<"inserta", "sube">>
      [] op = "unregister" -> <<"borra", "nombre", "copia", "baja">>
      [] op = "connect" -> <<"conectado", "direccion">>
      [] op = "disconnect" -> <<"desconectado">>
      [] op = "publish" -> <<"fichero">>
      [] op = "delete" -> <<"pisa", "limpia", "quita">>
      [] OTHER -> <<>>

\* The assignments of each update, in the order of the code.  realloc frees
\* the old block before its result is assigned; a struct tupla is copied
\* from its name on.  A published file is not counted until its last
\* assignment, which is the one that is kept.
Pasos(op, lleno) ==
    CASE op = "register" ->
            IF lleno THEN <<"suelta", "asigna", "max", "inserta", "sube">>
            ELSE <<"inserta", "sube">>
      [] op = "unregister" -> <<"nombre", "copia", "borra", "baja">>
      [] op = "connect" -> <<"conectado", "direccion">>
      [] op = "disconnect" -> <<"desconectado">>
      [] op = "publish" -> <<"fichero">>
      [] op = "delete" -> <<"pisa", "limpia", "quita">>
      [] OTHER -> <<>>

\* The block after assignment w of the update in progress.
Asigna(w) ==
    LET i == cambio.i
        n == n_elementos
    IN  CASE w = "asigna" -> Ampliado(almacen, 2 * max_tuplas)
          [] w = "inserta" -> [almacen EXCEPT ![n + 1] = TuplaVacia(cambio.user)]
          [] w = "nombre" -> [almacen EXCEPT ![i].cliente = almacen[n].cliente]
          [] w = "copia" -> [almacen EXCEPT ![i] = almacen[n]]
          [] w = "borra" -> [almacen EXCEPT ![n] = TuplaBorrada]
          [] w = "conectado" -> [almacen EXCEPT ![i].connected = 1]
          [] w = "direccion" -> [almacen EXCEPT ![i].addr = cambio.addr]
          [] w = "desconectado" -> Desconectar(almacen, i)
          [] w = "fichero" -> Publicar(almacen, i, cambio.file, cambio.descr)
          [] w = "pisa" -> [almacen EXCEPT ![i].files[cambio.k] =
                                almacen[i].files[Len(almacen[i].files)]]
          [] w = "limpia" -> [almacen EXCEPT ![i].files[Len(almacen[i].files)] =
                                  FicheroBorrado]
          [] w = "quita" -> [almacen EXCEPT ![i].files = SubSeq(@, 1, Len(@) - 1)]
          [] OTHER -> almacen

\* An update that takes place while close_server runs.
Durante == IF EnMarcha THEN {"durante"} ELSE {}

Empieza(h) ==
    /\ fase = "sirve"
    /\ bloque = "propio"
    /\ h # Principal
    /\ Libre(h)
    /\ cambio = NoCambio
    /\ hechos < MaxCambios
    /\ hechos' = hechos + 1
    /\ \E c \in Cambios(Contenido) :
          /\ cambio' = [c EXCEPT !.hilo = h]
          /\ resto' = Pasos(c.op, n_elementos = max_tuplas)
          /\ debido' = Hecho(Contenido, c)
          /\ tocados' = IF EnMarcha THEN tocados \cup {c.user} ELSE tocados
    /\ causas' = causas \cup Durante
    /\ UNCHANGED <<fase, memoria, manejador, fichero, vidas>>

\* One assignment; the last one is followed by the unlock.  Through a pointer
\* that close_server has set to NULL it would be the end of the process.
Escribe(h) ==
    /\ cambio.hilo = h
    /\ Libre(h)
    /\ bloque # "nulo"
    /\ LET w == Head(resto)
       IN  /\ almacen' = Asigna(w)
           /\ bloque' = IF w = "suelta" THEN "movido"
                        ELSE IF w = "asigna" THEN "propio" ELSE bloque
           /\ max_tuplas' = IF w = "max" THEN 2 * max_tuplas ELSE max_tuplas
           /\ n_elementos' = n_elementos + (CASE w = "sube" -> 1
                                              [] w = "baja" -> -1
                                              [] OTHER -> 0)
    /\ resto' = Tail(resto)
    /\ cambio' = IF Len(resto) = 1 THEN NoCambio ELSE cambio
    /\ causas' = causas \cup Durante
    /\ UNCHANGED <<fase, manejador, fichero, debido, tocados, vidas, hechos>>

-----------------------------------------------------------------------------
(* close_server and write_back.                                            *)

\* What a SIGINT may find: an update half done, the block moved by realloc,
\* a file not yet read to its end, another thread in close_server.
Sorprende ==
    {c \in {"a_medias", "movido", "carga", "doble"} :
        \/ c = "a_medias" /\ cambio # NoCambio
        \/ c = "movido" /\ bloque # "propio"
        \/ c = "carga" /\ fase \in {"abre", "lee"} /\ n_elementos < Len(fichero)
        \/ c = "doble" /\ EnMarcha}

\* While load runs there is no thread but main.
Sigint(h) ==
    /\ Vivo
    /\ Libre(h)
    /\ fase # "sirve" => h = Principal
    /\ manejador' = [manejador EXCEPT ![h].pc = "abre"]
    /\ causas' = causas \cup Sorprende
    /\ tocados' = IF cambio = NoCambio THEN tocados ELSE tocados \cup {cambio.user}
    /\ UNCHANGED <<fase, memoria, cambio, resto, fichero, debido, vidas, hechos>>

\* close_server takes no mutex.  printf, fopen, fwrite and free take locks of
\* the C library, and wait for ever for one that the interrupted code holds: a
\* behaviour in which this handler makes no more steps, as Spec assumes no
\* fairness.
EntraEnCierre(h) == manejador[h].pc = "abre"

\* Defective variant: what is in the file stays before what is written.
AbreParaAnadir(h) ==
    /\ EntraEnCierre(h)
    /\ manejador' = [manejador EXCEPT ![h].pc = "escribe", ![h].escritas = Len(fichero)]
    /\ UNCHANGED <<fase, memoria, cambio, resto, fichero, debido, causas, tocados,
                   vidas, hechos>>

\* "w" empties the file.
Abre(h) ==
    /\ EntraEnCierre(h)
    /\ fichero' = <<>>
    /\ manejador' = [manejador EXCEPT ![h].pc = "escribe"]
    /\ UNCHANGED <<fase, memoria, cambio, resto, debido, causas, tocados, vidas, hechos>>

\* write_back returns -1, which close_server does not look at.
AbreFalla(h) ==
    /\ EntraEnCierre(h)
    /\ manejador' = [manejador EXCEPT ![h].pc = "libera"]
    /\ causas' = causas \cup {"disco"}
    /\ UNCHANGED <<fase, memoria, cambio, resto, fichero, debido, tocados, vidas, hechos>>

\* Tuple p of the file; a gap before it reads as zeros.
EnFichero(s, p, t) ==
    [j \in 1 .. (IF p > Len(s) THEN p ELSE Len(s)) |->
        IF j = p THEN t ELSE IF j <= Len(s) THEN s[j] ELSE TuplaBorrada]

\* Defective variant: the last tuple is not written.
Quedan(m, n) == m.i < n

QuedaPorEscribir(m, n) == m.i <= n

\* stdio may keep the bytes until fclose; here they reach the file at once, which
\* makes a difference only if the process is ended before (cause muerte).
Vuelca(h) ==
    /\ manejador[h].pc = "escribe"
    /\ QuedaPorEscribir(manejador[h], n_elementos)
    /\ bloque # "nulo"
    /\ fichero' = EnFichero(fichero, manejador[h].escritas + 1, almacen[manejador[h].i])
    /\ manejador' = [manejador EXCEPT ![h].i = @ + 1, ![h].escritas = @ + 1]
    /\ UNCHANGED <<fase, memoria, cambio, resto, debido, causas, tocados, vidas, hechos>>

\* The disk is full, or the tuple is no longer at the address that is read:
\* the result of fwrite is not looked at.
VuelcaFalla(h) ==
    /\ manejador[h].pc = "escribe"
    /\ QuedaPorEscribir(manejador[h], n_elementos)
    /\ manejador' = [manejador EXCEPT ![h].i = @ + 1]
    /\ causas' = causas \cup {IF bloque = "propio" THEN "disco" ELSE "movido"}
    /\ UNCHANGED <<fase, memoria, cambio, resto, fichero, debido, tocados, vidas, hechos>>

Cierra(h) ==
    /\ manejador[h].pc = "escribe"
    /\ ~QuedaPorEscribir(manejador[h], n_elementos)
    /\ manejador' = [manejador EXCEPT ![h].pc = "libera"]
    /\ UNCHANGED <<fase, memoria, cambio, resto, fichero, debido, causas, tocados, vidas, hechos>>

\* free(almacen); almacen = NULL.
Libera(h) ==
    /\ manejador[h].pc = "libera"
    /\ manejador' = [manejador EXCEPT ![h].pc = "sale"]
    /\ almacen' = <<>> /\ bloque' = "nulo"
    /\ UNCHANGED <<fase, n_elementos, max_tuplas, cambio, resto, fichero, debido,
                   causas, tocados, vidas, hechos>>

Sale(h) ==
    /\ manejador[h].pc = "sale"
    /\ Termina
    /\ UNCHANGED <<fichero, causas>>

CloseServer(h) ==
    \/ Abre(h) \/ AbreFalla(h) \/ Vuelca(h) \/ VuelcaFalla(h)
    \/ Cierra(h) \/ Libera(h) \/ Sale(h)

\* No start is left.
Terminado ==
    /\ fase = "parado" /\ vidas = MaxVidas
    /\ UNCHANGED vars

Next ==
    \/ Arranca
    \/ CargaAbre \/ CargaTupla \/ CargaFin \/ CargaVacia \/ CargaFalla
    \/ Muere
    \/ \E h \in Hilos : Empieza(h) \/ Escribe(h) \/ Sigint(h) \/ CloseServer(h)
    \/ Terminado

Spec == Init /\ [][Next]_vars

-----------------------------------------------------------------------------
(* Properties                                                              *)

FicheroEscrito == [name : Files \cup {Cero}, descr : Descrs \cup {Cero}]

\* Tuples as they may be after an interruption: cleared, or with a cleared file.
Celda == [cliente   : Users \cup {Cero},
          files     : Seq(FicheroEscrito),
          connected : {0, 1},
          addr      : Addrs \cup {NoAddr}]

Cambio == [hilo : Hilos \cup {Nadie},
           op   : {"nada", "register", "unregister", "connect", "disconnect",
                   "publish", "delete"},
           user : Users \cup {Cero}, i : Nat, k : Nat,
           file : Files \cup {Cero}, descr : Descrs \cup {Cero},
           addr : Addrs \cup {NoAddr}]

Asignaciones ==
    {"suelta", "asigna", "max", "inserta", "sube", "nombre", "copia", "borra", "baja",
     "conectado", "direccion", "desconectado", "fichero", "pisa", "limpia", "quita"}

\* Type correctness of the store and of its file (server.c 31-35, 954-1024).
TypeOK ==
    /\ fase \in {"parado", "abre", "lee", "vacia", "sirve"}
    /\ almacen \in Seq(Celda)
    /\ bloque \in {"propio", "movido", "nulo"}
    /\ n_elementos \in Nat /\ max_tuplas \in Nat
    /\ cambio \in Cambio
    /\ resto \in Seq(Asignaciones)
    /\ manejador \in [Hilos -> [pc : {"fuera", "abre", "escribe", "libera", "sale"},
                                i : Nat, escritas : Nat]]
    /\ fichero \in Seq(Celda) /\ debido \in Seq(Celda)
    /\ causas \subseteq {"muerte", "durante", "a_medias", "movido", "carga",
                         "doble", "disco"}
    /\ tocados \subseteq Users \cup {Cero}
    /\ vidas \in 0 .. MaxVidas /\ hechos \in 0 .. MaxCambios

\* No read of the file and no insertion writes past the end of the block,
\* wherever the file ends against the two doublings (server.c 278-282, 984-992).
BlockFits ==
    bloque # "nulo" =>
        /\ n_elementos <= Len(almacen)
        /\ fase \in {"abre", "lee"} => n_elementos < Len(almacen)
        /\ resto # <<>> /\ Head(resto) = "inserta" => n_elementos < Len(almacen)

\* Between updates the array is what the updates should have made of the
\* file that was read, although each of them is several assignments and the
\* array may have been doubled and moved (server.c 278-288, 321-329, 396-398,
\* 470-472, 546-548, 841, 984-992).
MemoryRight ==
    fase = "sirve" /\ cambio = NoCambio /\ bloque = "propio" => Contenido = debido

\* While nothing has come at a bad moment there is no point, from the start
\* of load to the exit of close_server, at which the store is neither whole in
\* memory nor whole in the file: load empties the file only after it has read
\* all of it (995), close_server frees the array only after it has written all
\* of it (947-948).
SomewhereWhole ==
    causas = {} /\ cambio = NoCambio =>
        \/ fichero = debido
        \/ bloque = "propio" /\ Contenido = debido

TuplaDe(s, u) == {s[i] : i \in {j \in 1 .. Len(s) : EsUltimo(s, u, j)}}

\* A SIGINT that stops an update half done costs at most the user of that
\* update: every other one is found in the file by the searches of the next run
\* as it was, because a removal copies before it counts down (321-329) and an
\* insertion counts up last (287-288).
OthersSurviveInterruption ==
    \A h \in Hilos :
        manejador[h].pc = "sale" /\ causas \subseteq {"a_medias"} /\ NombresUnicos(debido) =>
            \A u \in Users \ tocados : TuplaDe(fichero, u) = TuplaDe(debido, u)

\* The comment of write_back (server.c 1005-1006) says that it writes the store
\* to the file when the server is closed.  Stopped by one SIGINT while it
\* serves requests, the server should leave every user in the file that no
\* update in progress was about.
StopKeepsOthers ==
    \A h \in Hilos :
        manejador[h].pc = "sale" /\ causas \subseteq {"a_medias", "durante"} =>
            \A u \in Users \ tocados : Registrado(debido, u) => Registrado(fichero, u)

-----------------------------------------------------------------------------
(* While nothing comes at a bad moment the server and its file are one     *)
(* store that survives stops and starts.                                   *)

Almacenado ==
    IF bloque = "nulo" \/ (fase # "sirve" /\ ~EnMarcha) THEN fichero
    ELSE IF cambio # NoCambio THEN debido ELSE Contenido

P == INSTANCE Perdurable WITH store <- Almacenado, vivo <- Vivo

ImplementsPerdurable ==
    P!Init /\ [][causas' = {} => P!Next \/ UNCHANGED P!vars]_vars

\* A store that the handlers can work with stays one, in memory and in the file,
\* over any updates, stops and starts: no user lists a file twice, and whoever is
\* connected has an address, although connect sets connected before it copies the
\* address and a delete has the last file twice for a while (server.c 396-398,
\* 470-472, 546-548, 954-1024).
StoreStaysSound ==
    [][causas' = {} /\ Solido(Almacenado) => Solido(Almacenado')]_vars
=============================================================================
