------------------------------ MODULE Atencion ------------------------------
(***************************************************************************)
(* What a handler of server.c makes of one request in a given store with   *)
(* nobody else about: its search, its code, what it sends, and the store   *)
(* it leaves.  Module Servidor has the handlers as they run, beside others *)
(* and in front of clients that leave; its property ServesAsAlone says     *)
(* that they come to this, and module Cliente uses it for the server.      *)
(*                                                                         *)
(* A request is a record with the fields op, user, other, file, descr and  *)
(* addr, of which its operation uses some.                                 *)
(***************************************************************************)
EXTENDS Almacen

R == INSTANCE Respuestas

\* The search loops of the handlers; 0 stands for no match.
Halla(a, op, u, i) ==
    \/ op = "register" /\ i = IF EstaEnUso(a, u) THEN 1 ELSE 0
    \/ op = "unregister" /\ EsPrimero(a, u, i)
    \/ op \notin {"register", "unregister"} /\ EsUltimo(a, u, i)
    \/ op # "register" /\ i = 0 /\ ~Registrado(a, u)

Hallada(a, op, u) == CHOOSE i \in 0 .. Len(a) : Halla(a, op, u, i)

\* The checks of the handlers, of the tuple they have found.
CodigoDe(a, r) ==
    LET i == Hallada(a, r.op, r.user)
    IN  R!CodeOf(r.op, i # 0, i # 0 /\ a[i].connected = 1,
                 i # 0 /\ Publicado(a[i], r.file), Conectados(a) # {},
                 Registrado(a, r.other))

\* The store after a request that is answered with 0.
AlmacenTras(a, r) ==
    LET i == Hallada(a, r.op, r.user)
    IN  CASE r.op = "register" -> Append(a, TuplaVacia(r.user))
          [] r.op = "unregister" -> Quitar(a, i)
          [] r.op = "connect" -> Conectar(a, i, r.addr)
          [] r.op = "disconnect" -> Desconectar(a, i)
          [] r.op = "publish" -> Publicar(a, i, r.file, r.descr)
          [] r.op = "delete" ->
                Borrar(a, i, CHOOSE k \in 1 .. Len(a[i].files) :
                                EsUltimoFichero(a[i], r.file, k))
          [] OTHER -> a

\* What follows code 0.
ItemsDe(a, r) ==
    CASE r.op = "list_users" -> {<<a[i].cliente, a[i].addr>> : i \in Conectados(a)}
      [] r.op = "list_content" ->
            LET s == a[Hallada(a, r.op, r.other)].files
            IN  {<<s[k].name, s[k].descr>> : k \in 1 .. Len(s)}
      [] r.op = "get_file" -> {a[Hallada(a, r.op, r.user)].addr}
      [] OTHER -> {}

RespuestaA(a, r) ==
    LET c == CodigoDe(a, r)
    IN  [code |-> c, items |-> IF c = 0 THEN ItemsDe(a, r) ELSE {}]

\* register does not notice that the name is taken: it looks at the first
\* tuple only.
Repite(a, r) ==
    r.op = "register" /\ Registrado(a, r.user) /\ ~EstaEnUso(a, r.user)

-----------------------------------------------------------------------------
(* The store as the directory of module Respuestas.                        *)

\* The file table of tuple t as a function from names to descriptions.
FicherosDe(t) ==
    [f \in {t.files[k].name : k \in 1 .. Len(t.files)} |->
        t.files[CHOOSE k \in 1 .. Len(t.files) : t.files[k].name = f].descr]

\* The address of a tuple that is not connected is not visible.
EntradaDe(t) ==
    [addr  |-> IF t.connected = 1 THEN t.addr ELSE NoAddr,
     files |-> FicherosDe(t)]

DirectorioDe(a) ==
    [u \in {a[i].cliente : i \in 1 .. Len(a)} |->
        EntradaDe(a[CHOOSE i \in 1 .. Len(a) : a[i].cliente = u])]
=============================================================================
