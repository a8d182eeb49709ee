# A verification development of the file-sharing service

The repository is a directory service for exchanging files between users, with
a concurrent server in C (`server.c`, `communications.c`), a client in Python
(`client.py`), an RPC service that logs the operations (`operaciones_*.c`), and
a web service that tells the date (`web_service.py`).  This directory holds TLA+
modules that model it, TLC configurations that check them on small instances,
and proofs for the TLA+ proof system.

    tlc -config aceptador.cfg Aceptador          the accept loop
    tlc -config servidor.cfg MCServidor          the server, and the other servidor_*.cfg
    tlc -config persistencia.cfg MCPersistencia  the store and its file, and persistencia_sigint.cfg
    tlc -config cliente.cfg MCCliente            the clients
    tlc -config comunicaciones.cfg MCComunicaciones   a connection, byte by byte
    tlapm ServidorProofs.tla                     and the other modules with Proofs in their name

## 1. Inventory

| Part | State | Operations | Modelled by |
|---|---|---|---|
| accept loop: `main` 108-129, head of `tratar_peticion` 134-141 | `sc`, `contador`, `thid`, `sync_mutex`, `sync_cond`, `sync_copied` | accept, create a thread, wait until it has copied `sc` | `Aceptador` |
| request threads: `tratar_peticion`, `s_*` | the mutex `almacen_mutex`; per thread its arguments, indices, counters and answer | read a request, lock, read the arguments, search, check, update or send, unlock, reply, log, close | `Servidor`; one handler alone, in `Atencion` |
| the store | `almacen`, `n_elementos`, `max_tuplas`; per tuple `files`, `file_count`, `connected`, `ip`, `puerto` | searches, insert, remove by moving the last one, publish, delete | `Almacen` |
| persistence: `load`, `write_back`, `close_server` | `data_structure/almacen.txt` | read and truncate at the start, write on SIGINT | `Persistencia` |
| lines: `communications.c` | none | `readLine`, `writeLine`, `sendMessage` | `Comunicaciones`; their results, in `Servidor` |
| client: `client.py` | `_username`, `_socket_connect`, `_thread` | one method per operation, the listening thread, the shell | `Cliente`; as a counterpart, in `Servidor` |
| RPC log: `operaciones_server.c` | none | print one line per request | one step of `Servidor` |
| web service, generated stubs, build files | none | | not modelled |

How they interact.  A client opens one connection per command, sends the
operation, the date and the arguments as lines that end in a zero byte, and reads
the answer.  `main` hands each connection to a new detached thread through the
global `sc`.  The threads share the store under one mutex, which each handler
takes before it reads its arguments and releases at each of its returns; the
handlers of the listings and of `get_file` also send their answer before they
release it.  After the reply the thread calls the RPC log and closes.

What is hard: the hand-over of `sc`, which is passed by address; a mutex with
more than thirty places of release; input and output to a client with the mutex
held; clients that leave before, in or after a request; writes that kill the process;
searches whose index is used later; removal that moves other elements; arrays at
their limits; the file that is empty while the server runs.  `PROJECT.json`
lists each hazard at its line, with the properties for it.

What makes each part correct:

- accept loop: every connection has exactly one thread, its own; no wakeup is
  lost; `main` returns to accept; the index stays in its array (it does not).
- handlers: each answers and changes what it would alone, and as long as names are unique the
  answer and the effect of each request are those of a directory
  that serves requests one at a time; an index is valid until it is used; a listing is the
  store at one instant; the mutex is always released; a waiting client is
  answered.
- store: it fits its capacity, file names are unique, removal touches nobody else,
  names are unique (they are not).
- persistence: the store is whole in memory or in the file at every point, and what an
  interrupted stop can lose is bounded (it is not: see below).
- clients: what a client believes of its connection agrees with the server, no two
  terminals are one user, a file comes from the user that was asked for, and a
  command terminates.
- lines: they arrive whole and in order; only a sender that dies cuts one.

## 2. Modules

**`Aceptador`** numbers connections in the order of their acceptance.  `mpc` and
`pc` are the places of `main` and of the threads; every blocking call is an
action of its own (`MainLocks`, `ThreadLocks`), and `pthread_cond_wait` is three: to
release and sleep (`MainWaits`), to be woken by the signal (`ThreadCopies`) or by nothing
(`MainSpuriousWakeup`), and to take the mutex again (`MainRelocks`).  `accept` and
`pthread_create` may fail, which ends the process.

**`Almacen`** has no state: it holds the operators for `struct tupla`, the
searches and the updates.  The three searches of the code are different:
`EstaEnUso` (register, which looks at the first tuple only), `EsPrimero`
(unregister, which stops at the first match) and `EsUltimo` (the others, which
keep the last one).  They agree as long as names are unique.  A sequence stands for
an array with its counter; `ip` and `puerto`, which are always used together, are
one address.

**`Atencion`** has no state either: what a handler makes of one request in a given store with nobody
else about, which is its search (`Halla`), its code, what it sends and the store it leaves, with a name
registered twice as well as without.  `Servidor` has the handlers as they run; that they come to this
is `ServesAsAlone`.  `Cliente` takes its server from here, repeated names included (`Repite`).

**`Actualizaciones`** has no state either: `Cambios` is the set of the updates that the checks
of the handlers let through in a store, `Hecho` what each of them makes of it.  `Servidor`
and `Persistencia` meet here, and each proves what the other takes for granted.  The assignments of
`Persistencia` are those of an update of `Cambios`, one at a time; that the concurrent handlers
make no other change, and make each under the mutex, is `UpdatesAreChecked` of `Servidor`.  `Servidor` starts with a
store that is `Solido` (no file twice in a tuple, an address for who is connected);
that a store stays so in memory and in the file, over updates, stops and starts, is `StoreStaysSound` of
`Persistencia`.  A SIGINT upon an update is the exception: it can leave a user
connected without an address (between 396 and 397) or a file twice (546), and what `Servidor` shows does not cover
the run after it.

**`Servidor`** composes the store with the threads.  Each thread goes through

    idle -> start -> header -> lock -> args -> search -> apply [-> send] [-> reply] -> log -> done

`Llega` gives it a client, `CreaRpc` is lines 143-166, `LeeCabecera` 167-192, `Entra` the
lock at the head of every handler, `LeeArgs` and `ArgsFallan` the `readLine`
calls of the arguments, `Busca` the search loops, and one action per handler is
everything after them up to the return.  `EnviaEntrada`, one entry for each step,
`EntradaFalla` and `TerminaLista` are the loops of the listings, `Responde` lines
230-239 and `Registra` the RPC call and the close.

A client is a record: its request, the number of lines it sends, and its end.
One that `stays` reads the answer; one that `closes` makes the next `readLine`
return 0, which the handlers do not take for an error, so that the argument is
what the buffer held (`Recibida` takes it from the constant `Basura`); one that
`resets` makes it return -1; one that `stalls` leaves the thread waiting.
The `ip` of a connect is what the stack holds, too, if the client has reset the connection before `getpeername`,
whose result nobody looks at (`DireccionIncierta`, `Pila`).
A write to a client that is gone may succeed, fail, or kill the process with
SIGPIPE, which the server does not handle; a failed reply exits (237).
A line cut short by the end of the input is a complete line with another
value and needs no case of its own.  The buffer that was never written is modelled as
holding a valid name; one without a terminating zero is undefined and is not followed.
The thirty-odd places at which a handler unlocks and returns share one operator, `Devuelve`: that each of them does
unlock was compared with the source by hand, and a model in which one of them does not fails `MutexOwner`.

**`Respuestas`** and **`Directorio`** are the abstract specification: a function from the registered users
to an address and a set of files, and an answer for each request, computed in
one step.  Its codes are those the code sends, not those its comments give.  A client's request arrives whole
or in part (`said`).  A thread reads a request that has all that has arrived; what has arrived is the
whole request, or its client is gone, and then the thread may also give up without effect.  So a request
that a client has cut short by closing can still be served, completed with anything: the code does that
(communications.c 172-175), and the specification promises no more of it.
**`ServidorDirectorio`** maps the server to it: the store is read as that
function, the lines that reach the server as what has arrived, `args` as the request, and `resp` with `sent` as the answer.
The step in which a handler
returns is the step of `Serve`; a client that arrives is `Arrive`, the arguments are read in `Read`, and every other step
changes nothing in the directory, except that a request is given up or rejected.

**`Persistencia`** is the life of the server around the store: `fase` is where `main`
is (stopped, the four parts of `load`, serving), `almacen` the block of memory with all its
cells, `bloque` whether the pointer is valid, moved by a `realloc` or NULL.  An update is
the sequence of assignments it is in the code (`Pasos`, `Asigna`), since a signal may stop
a thread between two of them; which update may begin is taken from the checks of the
handlers (`Actualizaciones`).  `manejador` is `close_server` in each thread: SIGINT may interrupt any
thread that is not in it already, other threads go on, and a second SIGINT runs it
twice at a time.  It takes no mutex; `printf`, `fopen` and `free` take locks of the C library, which the code it has
interrupted may hold, and then it waits for ever: as there is no fairness here, a handler that stops anywhere is among
the behaviours, and no property says that it ends.  Every `fwrite` is in the file at once: what stdio holds back until `fclose`
makes a difference only to a process that ends, or a second `close_server` that truncates, while `write_back` runs, and
those are among the `causas`.  `Muere` is every other end: `exit(-1)`, SIGPIPE, NULL, a return of `main`.
Four variables record and decide nothing: `debido` is what the updates should have made
of the file that was read, `causas` what has come at a bad moment in this run of the
server, `tocados` the users of the updates a SIGINT came upon, and `hechos` counts updates.
**`Perdurable`** is the abstract specification: one store, which updates change and
stops and starts do not.

**`Cliente`** is several clients with the server of `Atencion`, reduced to serve a
request in one step in the store as it is (`Sirve`), to lose a thread (`Calla`), or to end with its connections and
perhaps with its store (`Cae`).  Each client has a shell (`sh` is its place in the command, `orden` and
`codigo` its request and answer), `usuario` for `_username`, the socket it listens on (`puerto`,
`zocalo`), and the thread that listens (`oyente`, `atiende`).  A connection between two clients is
its place in the queue of the one that listens (`cola`) and, at the one that calls, what has been said
(`dicho`) and what can be read (`eco`).  A command either returns (`Devuelve`), which
for QUIT leaves the loop, or raises (`Lanza`), after which the shell goes on, QUIT or not.
`Gira` and `OyeNada` are `readString` at the end of a connection, which never returns.
`Alcanza` is what a call finds: `disconnect` asks its own socket for the port with `getsockname`, which raises when the
listening thread has closed it, whoever has the port by then; `get_file` reaches whoever listens at the address.
`OyenteNoDescifra` is a listening thread that is asked for a file whose name has a byte above 127 (`Raros`): `readString` decodes
one byte at a time (701), outside any `try` of `listen` (511), so that the thread ends with its socket open.
`averias` records what has gone wrong; "resto" is there from the start when the server
has read a store that lists users as connected, as `load` keeps the flag a client left set, and "repetida" is a name that
was registered twice, in this run of the server or before.

**`Comunicaciones`** is one direction of one connection in bytes.  The sender has a
text and its terminator to write (`resta`: `buffer` and `l` of `sendMessage`) and writes
any part of it that the sockets have room for; the reader runs one of the three functions,
as the sequence `lectores` says: three `readLine` for a request, three `readString` for
an answer, `readString` and `readString_binary` for a file.  `readString` raises at a byte above 127 (`NoDescifra`).  **`Lineas`** is its abstract
specification, a channel of texts.

**`MCServidor`**, **`MCPersistencia`**, **`MCCliente`** and **`MCComunicaciones`** give the constants values for TLC.
**`AlmacenProofs`**, **`AceptadorProofs`**, **`ServidorProofs`**, **`ServidorAccionesProofs`**,
**`ServidorDirectorioProofs`**, **`PersistenciaProofs`**, **`ClienteProofs`** and
**`ComunicacionesProofs`** hold the proofs.  Operators marked
*Defective variant* are no part of the model: each is a plausible mistake in the
operator it stands before, and shows which property would notice it.

## 3. Runs

| Run | Instance | States | What it shows |
|---|---|---|---|
| `aceptador` | 5 connections | 653 | types, `OwnConnection`, `NoLostWakeup`, `ScNotOverwritten`; under fairness every connection is taken and `main` gets back to accept |
| `aceptador_thid` | `thid` of 2 | | violated: `ThidInBounds` |
| `servidor` | 2 threads, 13 requests, 7 stores | 43 thousand | `IndexFresh`, `CapacityOK`, `FilesUnique`, `ListingIsSnapshot`, `ConnectedStays`, `OthersUntouched`, `FilesSurvive`, `UpdatesAreChecked`, `ServesAsAlone`, `ImplementsDirectorio` |
| `servidor_clientes` | 2 threads, 5 requests with every length and end, RPC failures | 285 thousand | `MutexOwner`, `ClientAnswered`, `ImplementsDirectorio` |
| `servidor_nombres` | | | violated: `UniqueNames` |
| `servidor_list_users` | | | violated: `ListUsersCodes` |
| `servidor_get_file` | | | violated: `GetFileCodes` |
| `servidor_conexion` | | | violated: `ConnectionClosed` |
| `persistencia` | 2 threads, 2 starts, 2 updates, room for 1 tuple, an empty file and one of 2 tuples | 3.3 million | `BlockFits`, `MemoryRight`, `SomewhereWhole`, `OthersSurviveInterruption`, `ImplementsPerdurable`, `StoreStaysSound` |
| `persistencia_sigint` | 2 starts, 2 updates | | violated: `StopKeepsOthers` |
| `cliente` | 2 clients, 2 users, 2 ports, 2 starting stores, 4 events: commands of 9 kinds and at most 2 failures | 416 thousand | `SessionAgrees`, `OneSession`, `NoOrphanListener`, `RightPeer`, `WaitersAreServed`; under fairness `CommandEnds` |
| `comunicaciones` | 3 protocols, texts of up to 4 bytes, a buffer of 3, sockets that hold 3 | 71 thousand | `ImplementsLineas`; under fairness `EverythingArrives` |

**Bounds, and why they are enough.**  A thread serves one request and ends, as in the
code.  Handlers run under one mutex, so that a violation of a property about two
handlers needs two threads; longer histories come from `Guardados`,
the stores that an earlier run can have saved: none, one or two users, connected or
not, with and without files, and in `servidor` one with a name
registered twice.  Every request kind meets every one of them in every
interleaving with every other kind.  `MaxInicial = 1` stands for the 50 of the code so
that arrays are doubled, and `Capacidades` gives the capacities `load` can
leave for a store of that length.  `MaxConns = 5` lets connections overlap; an iteration
of `main` concerns two threads at most, and the proofs hold for any number.
The model has at most 256 file names: with more, `s_publish` would write past
`files` (470), which is listed as a hazard.  `servidor`
has symmetry in the threads and checks no liveness; the other runs have none.

In `persistencia` room for one tuple makes `load` double twice and `register` double
too, two updates make a removal follow or meet another update, and a second start reads what the
first left; `almacen_mutex` lets one update run at a time, so that one thread beside
`main` is enough to have an update go on during `close_server`.  In `cliente` two
clients have two ports, so that one can get the port of the other.  Four events are enough for a session to end while
another client is about to call it, and for a name to be registered again while it is connected and then to be connected from the other
terminal; two failures can follow each other.  One of the two starting stores lists a user as connected that has no client,
and the user whose name is registered again is in the second tuple.  That a user and its port are taken again while a `get_file`
is under way needs a fifth command, and that a
disconnect finds the port of its dead listening thread taken by another client a third client and six,
more than the run has: the run shows `RightPeer` of sessions that last or end, and
`GetFileReaches` proves it for any number of clients, ports and commands.
In `comunicaciones` the texts are empty, shorter than the buffer, of its length and longer, and
three bytes of sockets make every write that is longer than that a short one.

**Fairness.**  The scheduler runs every thread, hence weak fairness of each thread's
steps; a thread needs `almacen_mutex` once, and since the number of threads is
finite weak fairness is enough for it to get it.  Nothing is assumed of a client
that stalls: the thread that writes a listing to it may block for ever.
In `Aceptador` spurious wakeups may come for ever and each one takes `sync_mutex`
for a moment, so that threads get that mutex under strong fairness, that is,
if the mutex does not starve them.  `ClientAnswered` names its exceptions: the process has
ended, the RPC server could not be reached, or a stalled client's thread holds the mutex.  That last
one is a limit of the code: one client that stops in mid-request stops all.

In `Cliente` every thread of a client runs and the server serves the requests it has
read; nobody has to type, and no client or server has to fail or to come back.  `CommandEnds`
names its exceptions in `Colgado`: a shell or a listening thread in `readString` at the end of a
connection, a listening thread that ended with its socket open, a thread of the server that
left, and a QUIT whose listening thread goes on.  In `Comunicaciones` both ends
go on until they are killed.  `Persistencia` has no fairness.

**Deadlock** is checked in every run.  `Stopped`, `Parado`, `Terminado` and `Quieto` are the states in
which the system may really stop: the process has ended, all work is done, or the
only thing left is to wait for a stalled client or, in `Cliente`, for what `Colgado` names.

**What is lost, and when.**  `persistencia` gives the answer for every end of the server.
Without any of the `causas`, nothing (`ImplementsPerdurable`, `SomewhereWhole`).  A SIGINT that stops
an update half done costs at most the user it is about (`OthersSurviveInterruption`); one during which
other threads go on may cost others (`StopKeepsOthers`).  A SIGINT before the end of `load`, a
second one, and files that cannot be written may cost anything; an end
without `close_server` leaves the file empty, everything being in memory only.

**Disagreements found** (`findings` in `PROJECT.json`):

1. `register` compares with the first tuple only (272), so a name can be registered twice.
2. `list_users` answers 2 only if nobody is connected (603), not if the user is not (558).
3. `get_file` sends 2 for an unknown user and 1 for a missing file (875-921), against 851.
4. A thread without RPC client returns without closing its connection (147-166).
5. `thid` is indexed by a counter that is never reset (116, 128).
6. `close_server` takes no mutex (947), so that a removal that goes on while it writes takes
   a user out of the file that nobody removed, against 1005.

Met in `Cliente`, and there exceptions of the properties: a `disconnect` that raises
after the server has served it keeps `_username` (189-199), so that a terminal can later disconnect
another terminal's session in spite of 172-173; a file of the name "end" stops the listening
thread that is asked for it (513), and one whose name has a byte above 127 kills it (511, 701); and after a name has been registered
twice two terminals can be connected as its user, since connect looks at the last tuple (`server.c` 272, 373-385).

`ImplementsDirectorio` is stated under `UniqueNames` because of the first.

## 4. Proofs

All are checked by `tlapm`, for every value of the constants that satisfies the
named assumptions, which are types of the constants and little more:
`AceptadorAssumption`; `AlmacenAssumption`; `ServidorAssumption` and
`GuardadosAssumption` (a mutex owner that is no thread, and saved stores whose file names are
unique and in which a connected user has an address, `Solido`, which `StoreIsSound` proves of the file of a clean stop); `PersistenciaAssumption` (`main` is a thread, the capacity is at least 1, and
the first file holds tuples); `ClienteAssumption` (types and markers, and saved stores that are `Solido`); `ComunicacionesAssumption` (a buffer and sockets of at least one
byte, and `readString_binary` only as the last reader of a connection, to whose end it reads,
client.py 469-476).

*Accept loop.*  `OwnConnection` is not inductive: that a thread which has still to copy
finds its own connection in `sc` depends on where `main` is.  The invariant adds that
only the thread numbered `contador` can be between its creation and its copy, and
only while `main` is between create and proceed; that the flag is set only after
that copy; and who owns `sync_mutex` at each place.
Theorems: `TypeCorrect`, `ConnectionsHandedOver`, `WakeupsNotLost`, `ScKept`.

*Store.*  `QuitarProps` and `QuitarOrigen` say what removal by moving the last element
leaves and where it comes from; `QuitarNombres` and `QuitarFicheros` conclude that it keeps
names unique, `PublicarFicheros` the same for publication.  They need
no induction: each step moves one element.

*Server.*  `IInv` is the conjunction of `CtlInv` (at each place the mutex is held or
not), `ThreadInv` (types of what a thread has read and found), `StoreInv` (types,
`CapacityOK`, `FilesUnique`) and `IndexFresh`.  `IndexFresh` needs the mutex: the store
changes only in a step of a thread at `apply` (`StoreKept`), a thread at `apply` or
`send` owns the mutex, and so the index of every other one is out of the critical
section.  `StoreStep` in its turn needs `IndexFresh`, to know that a handler's update goes to a
tuple that exists.  The names need not be unique for any of it.  `IInv2` adds `ListInv`, that a listing of contents
has a tuple to list and announced its length, which makes each entry it sends
a file of the store, and the types of the answers.  Theorems: `MutexReleased`, `SearchesStayValid`,
`StoreFits`, `FileNamesUnique`, `TypeCorrect`.

*What a step of the server may do.*  `IInv3` adds `NuevoInv`, that a thread whose handler has not
returned has answered nothing, so that the step that changes the store is the one that answers.
`Cambios` then says that such a step answers 0 and is `Alta` (a new last tuple), `Baja` (the tuple of
a user that is not connected is overwritten by the last one) or `Retoca` (one tuple of the user of the request is rewritten),
and the three action properties follow from what each of the three leaves: `Queda` for what
stays connected and published, `VecesAlQuitar` for how often a tuple is in the array when another one is removed.
`CambiosRevisados` says which update of `Actualizaciones` the step is; there `IndexFresh` gives that the tuple
is the one of the user, and for a registration that the name is still free in the sense of line 272, at the
moment of the insertion.
`IInv4` adds `InstantaneaInv`: the entries sent so far are those of the
store up to `pos`, which stays so because the listing thread owns the mutex.  Theorems: `OnlineUntilDisconnect`,
`PublishedUntilDeleted`, `OthersLeftAlone`, `UpdatesChecked`, `ListingConsistent`.

*What a handler promises.*  `Atencion` says what a handler does to a store with nobody else about: `CodigoDe`,
`AlmacenTras`, `ItemsDe`, with the searches as the code has them.  `DirectorioAlta`, `DirectorioBaja`,
`DirectorioCambiado`, `FicherosAlta` and `FicherosBaja` say what the updates of the two arrays are in the directory when
names are unique; from them `Prometido` concludes that a request that does not register a taken name a second time
gets the answer of the directory, leaves the directory it should, and the store sound.  `SolidoTras` is what is left of it
when names repeat: the store stays sound.

*The server and the directory.*  `IInv5` adds `PedidoInv`: which threads have read a request, that its
operation is the one its client asked for, and that who is connected has an address, without which a connected tuple
would be offline in the directory.  Each step of a handler is then one of four (`HandlerSolo`): it returns what it
would alone (`Atendida`), it returns an error because its client is gone (`Cede`), it goes on (`Sigue`), or
the process ends.  That is `HandlersServeAsAlone`, which needs no unique names: what the handler has found and
checked is still so when it acts, since the searches are of the store it holds the mutex of (`CodigoVisto`).
With `Prometido` the first of the four is `Serve` and the second `GiveUp`.  `RecibidaEnviada` says that the request a thread works on
completes what has arrived, and `CompletaONo` that it is just what has arrived unless a
line is missing; then the client is gone.  Each other step is `Arrive`, `Read`, `Reject` or nothing
(`PasoAdmitido`).  Theorem: `ServerIsDirectory`, the refinement.

*Persistence.*  None of the four properties is inductive.  `ControlInv` says where `main`, the
threads and the pointer may be together: while `load` runs there is no other thread and no
update, and the pointer is NULL exactly when some thread is about to exit.  `RestoInv` says
that what is left of an update is one of sixteen tails, `Cola(W)` for the next
assignment `W`, so that a proof about an update is one about its next assignment (`ColaProps`).
`BloqueInv` ties `n_elementos`, `max_tuplas` and the block, `load` being one cell ahead.  `Falta`, the
heart of `MemoriaInv`, says for each `W` what the assignments that are left make of
the array, and that this is `debido`; `EscribeAlta` and `EscribeOtra` show that each assignment takes it
to the next one, with `InsertaFinal`, `CopiaYBaja`, `NombreAntes` and `BorraEnTres` for how the assignments
of a registration, a removal and a deletion add up.  `VolcadoInv` is about `close_server` when `causas` is
empty: the file is the first `i - 1` tuples of `debido`.  Theorems: `TypeCorrect`, `StoreFits`,
`MemoryIsRight`, `WholeSomewhere`, and the refinement `StoreSurvives`: by `AlmacenadoEsDebido` the abstract store
is `debido`, which only `Empieza` changes, by an update of `Perdurable` (`HechoActualiza`).  `StoreIsSound` follows the same way: every update leaves a
sound store sound (`HechoSolido`, which needs the check of publish), and a start or a stop leaves `debido` as it is.

For a SIGINT that comes upon an update `IInv2` adds `ObjetoInv`, which says for each `W` whose
name stands in the tuple the update is about, and `InterrupcionInv`, the counterpart of
`VolcadoInv` when `causas` is {"a_medias"}: the file is the first `i - 1` tuples of the array as the update has
left it.  `AMedias` is then the argument: whatever is left to assign, the searches find for every other
user in the array the tuple that they would find after the update.  The removal is the hard
case, with the name of the last user twice in the array after "nombre", and its whole tuple after
"copia"; it works because the searches keep the last one they find (`TuplaDeQuitar`,
`TuplaDeCopia`).  Theorem: `OneUserAtMost`.

*Clients.*  `AlmacenInv` is that the store of the server is sound, and its names unique as long as none has been
registered twice; until then `SirvePromete` gives the answers and effects of the directory `dir` it makes up, by `Prometido`.
`OrdenInv` is what is known of a command in progress, `OyenteInv` is `NoOrphanListener`, which
is inductive with it.  `SesionInv` is about `Tiene(c, u)`: the server has u connected for client c, which is
so from the moment it serves the connect, before the client knows, to the moment it
serves the disconnect (`DeBaja`), while the client still has `_username`.  Unless the server has fallen, a name is registered
twice, a client has been killed or a `disconnect` has raised after it was served (`SinAverias`), at most one client has a user, and
the server has that user connected.  Theorems: `UserInOneSession`, `ListenerEnds`.

The other two properties need what is known of the sockets.  `TomaInv` says which states of a socket, of its
thread and of its queue go together, that no two open sockets are on one port, and what a connect in
progress has done so far.  While nothing has gone wrong but threads of the server that do not answer (`SinFallos`: no
listening thread has died of a name it cannot decode either),
`CitaInv` follows a call from one client to another: it waits or is served at the client it was made
to, once, until there is something to read from it, and that client is still on the port that was
called.  `AcuerdoInv` is that the server lists a user exactly while some client `Tiene` it, at
the port of that client's socket; this is where the serve of a connect and of a disconnect meet the
steps of the shell that come before and after.  `TypeOK` is part of the invariant: the types of the
queues depend on it.  Theorems: `TypeCorrect`, `SessionsAgree`, `GetFileReaches`.

That nobody waits in a circle (`WaitersAreServed`) has to hold when clients have been killed and listening threads
have ended in the middle of a request, where `CitaInv` says nothing.  `EsperaInv` is what is left of it then: a shell
that has nothing to read yet is in the queue it called or being served (`Cita`); the queue of a
thread that serves holds nobody twice and nobody but shells that wait and clients that were killed; and who
calls its own thread does so to end it.  No circle closes because a shell
says its message before it reads or joins: the client that a thread is held up by is about to speak, or has gone, and
then the thread sees the end of the connection.  Each step moves one connection: into a queue
(`EsperaLlama`), from the queue to the thread (`EsperaOyente`), or away when the socket is closed (`EsperaCierre`).
Theorem: `WaitersServed`.

*Communications.*  `TypeOK` is inductive as it is: the turn of the reader decides which function reads, and
only `readLine`, which stops adding at `N - 1` bytes, has a bound on its buffer.  Theorem: `TypeCorrect`.

That the texts arrive in order (`TextsArrive`, the refinement of `Lineas`) needs to know where in
the stream each of them is.  `FlujoInv` says that there are places `p`, counted from the first byte
not yet read (`Sigue`), such that each text that has been begun and not been returned lies behind `p[k]`,
followed by its terminator; the place of the current one is not positive, being
the number of bytes read of it (`Colocados`).  After a reset nothing is left to place.  `FinInv` says how the
connection can have ended.  A write moves bytes between two parts of that stream and
changes no place (`EscribeSigue`); a read adds the byte that is next in the current text
(`ByteEnSuSitio`) or finds its terminator, and then what has been stored is the text or as
much of it as the buffer holds (`ByteDelTexto`, `GuardaLeido`); at the end of the connection it is
a first part of the text its sender died on (`LeeFinalCortado`).  The assumption on
`readString_binary` is needed: a text without a terminator has no end but that of the connection.

*Model-checked only.*  The liveness properties `EveryConnectionServed`, `MainReturnsToAccept`,
`ClientAnswered`, `CommandEnds` and `EverythingArrives` (fairness is out of the prover's reach).  Every other invariant, action property and refinement that a passing run
checks is a theorem.

## 5. Not modelled

Formats of lines, the date, messages on the terminal, the set-up of sockets, the parsing of a
command line; `clientSocket` and `recvMessage`, which nothing calls.  Texts that hold the byte that ends
them are not sent (no client can), and a tuple is written in whole assignments: a signal inside a
`memcpy` is taken before or after it.  `web_service.py` is stateless; the `operaciones_*` stubs are
generated; what the log service prints is read by nobody, and its order is free.  What is undefined in the
code is not followed: file 257 of a user, a `thid` outside its array, a buffer without a terminator, and
the search of `str2int` past its table.

## 6. Plan

Done: `Aceptador`, `Almacen`, `Respuestas` and `Directorio`, `Atencion`, `Servidor` with its refinement; `Persistencia` with
`Perdurable`; `Cliente`; `Comunicaciones` with `Lineas`.  What would add most next:

1. `Cliente` composed with `Servidor` in place of `Atencion`: so far each client meets a server that serves a
   request in one step, and the server (`ServesAsAlone`) clients of which only the request counts.
2. `Persistencia` composed with `Servidor` in one state, so that the run after an interrupted update can be
   followed: the two meet in `Actualizaciones` so far, which does not cover it.
3. The limit of 256 files, with the layout of `struct tupla` beyond it.
