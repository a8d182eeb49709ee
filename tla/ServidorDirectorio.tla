------------------------- MODULE ServidorDirectorio -------------------------
(***************************************************************************)
(* The server implements the directory of module Directorio as long as no  *)
(* name is registered twice: a request takes effect in the step in which   *)
(* its handler returns, a listing in the step that ends it.                *)
(***************************************************************************)
EXTENDS Servidor

RespuestaDe(t) ==
    [code  |-> resp[t],
     items |-> IF resp[t] = 0 THEN {sent[t][n] : n \in 1 .. Len(sent[t])} ELSE {}]

\* The fields of a request whose lines arrive: the operation is the first line,
\* the date the second, and the arguments follow.  The address is not known for
\* sure of a client that resets.
Llegan(c) ==
    LET campos == {Campos(c.pet.op)[i] : i \in 1 .. c.lines - 2}
    IN  (IF c.lines > 0 THEN {"op"} ELSE {})
        \cup (IF c.end = "resets" THEN campos \ {"addr"} ELSE campos)

Enviado(t) ==
    IF pc[t] = "idle" THEN [f \in {} |-> NoAddr]
    ELSE [f \in Llegan(req[t]) |-> req[t].pet[f]]

Dir == INSTANCE Directorio WITH
    dir <- DirectorioDe(almacen),
    said <- [t \in Threads |-> Enviado(t)],
    ask <- args,
    ans <- [t \in Threads |-> RespuestaDe(t)],
    gone <- {t \in Threads : pc[t] # "idle" /\ Ido(t)}

\* Every step of the server is a step of the directory or changes nothing in
\* it, while names are unique: no interleaving of handlers, and no client that
\* goes away, produces an answer or an effect the directory would not give to
\* a request that was sent.  For one that its client cut short by closing, that
\* is a request that begins with what was sent and goes on as the stack has it
\* (communications.c 171-177, server.c 446-472): its effect is that of nothing
\* anybody asked for, and all that is shown of it is that it is one request.
ImplementsDirectorio ==
    /\ UniqueNames => Dir!Init
    /\ [][UniqueNames /\ UniqueNames' => UNCHANGED Dir!vars \/ Dir!Next]_vars
=============================================================================
