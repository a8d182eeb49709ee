--------------------------- MODULE Actualizaciones ---------------------------
(***************************************************************************)
(* The updates of the store: those that the checks of the handlers let     *)
(* through in a given store, and what each of them makes of it.  Module    *)
(* Servidor has the handlers, module Persistencia the assignments.         *)
(***************************************************************************)
EXTENDS Almacen

CONSTANTS
    Nadie,   \* the thread of no update
    Cero     \* the empty string of a cleared struct

NoCambio == [hilo |-> Nadie, op |-> "nada", user |-> Cero, i |-> 0, k |-> 0,
             file |-> Cero, descr |-> Cero, addr |-> NoAddr]

Registros(a) ==
    {[NoCambio EXCEPT !.op = "register", !.user = u] :
        u \in {v \in Users : ~EstaEnUso(a, v)}}

Bajas(a) ==
    {[NoCambio EXCEPT !.op = "unregister", !.user = a[i].cliente, !.i = i] :
        i \in {j \in 1 .. Len(a) : a[j].connected = 0}}

Conexiones(a) ==
    {[NoCambio EXCEPT !.op = "connect", !.user = a[p[1]].cliente, !.i = p[1],
                      !.addr = p[2]] :
        p \in {j \in 1 .. Len(a) : a[j].connected = 0} \X Addrs}

Desconexiones(a) ==
    {[NoCambio EXCEPT !.op = "disconnect", !.user = a[i].cliente, !.i = i] :
        i \in {j \in 1 .. Len(a) : a[j].connected = 1}}

Publicaciones(a) ==
    {[NoCambio EXCEPT !.op = "publish", !.user = a[p[1]].cliente, !.i = p[1],
                      !.file = p[2], !.descr = p[3]] :
        p \in {q \in (1 .. Len(a)) \X Files \X Descrs :
                  a[q[1]].connected = 1 /\ ~Publicado(a[q[1]], q[2])}}

Borrados(a) ==
    UNION {{[NoCambio EXCEPT !.op = "delete", !.user = a[i].cliente, !.i = i, !.k = k] :
        k \in {m \in 1 .. Len(a[i].files) : a[i].connected = 1}} : i \in 1 .. Len(a)}

\* The updates of store a.
Cambios(a) ==
    Registros(a) \cup Bajas(a) \cup Conexiones(a) \cup Desconexiones(a)
    \cup Publicaciones(a) \cup Borrados(a)

\* The store after update c of store a.
Hecho(a, c) ==
    CASE c.op = "register" -> Append(a, TuplaVacia(c.user))
      [] c.op = "unregister" -> Quitar(a, c.i)
      [] c.op = "connect" -> Conectar(a, c.i, c.addr)
      [] c.op = "disconnect" -> Desconectar(a, c.i)
      [] c.op = "publish" -> Publicar(a, c.i, c.file, c.descr)
      [] c.op = "delete" -> Borrar(a, c.i, c.k)
      [] OTHER -> a
==============================================================================
