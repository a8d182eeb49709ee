----------------------------- MODULE Perdurable -----------------------------
(***************************************************************************)
(* What persistence promises: one store that updates change while the      *)
(* server is up and that stops and starts of the server leave alone.       *)
(***************************************************************************)
EXTENDS Almacen

VARIABLES
    store,   \* the tuples, in their order
    vivo     \* the server is up

vars == <<store, vivo>>

Init == store \in Seq(Tupla) /\ vivo = FALSE

Actualiza ==
    /\ vivo
    /\ \/ \E u \in Users : store' = Append(store, TuplaVacia(u))
       \/ \E i \in 1 .. Len(store) :
             \/ store' = Quitar(store, i)
             \/ \E addr \in Addrs : store' = Conectar(store, i, addr)
             \/ store' = Desconectar(store, i)
             \/ \E f \in Files, d \in Descrs : store' = Publicar(store, i, f, d)
             \/ \E k \in 1 .. Len(store[i].files) : store' = Borrar(store, i, k)
    /\ UNCHANGED vivo

Arranca == ~vivo /\ vivo' = TRUE /\ UNCHANGED store

Para == vivo /\ vivo' = FALSE /\ UNCHANGED store

Next == Actualiza \/ Arranca \/ Para

Spec == Init /\ [][Next]_vars
=============================================================================
