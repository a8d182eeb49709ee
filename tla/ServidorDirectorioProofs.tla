---------------------- MODULE ServidorDirectorioProofs ----------------------
(***************************************************************************)
(* The concurrent server implements the directory, for any threads,        *)
(* clients and stores.  Each handler does what it would do with nobody     *)
(* else about, repeated names or not; while no name is registered twice    *)
(* that is what the directory answers, and every step of every thread is   *)
(* a step of module Directorio, or changes nothing in it.                  *)
(***************************************************************************)
EXTENDS ServidorDirectorio, ServidorAccionesProofs

-----------------------------------------------------------------------------
(* What the threads have read.                                             *)

\* A thread has no request until it has read one, and then the operation is
\* the one its client asked for; who is connected has an address.  Nothing is
\* read but the first line has arrived.
PedidoInv ==
    /\ \A t \in Threads :
          /\ pc[t] \in {"idle", "start", "header", "lock", "args"} => args[t] = NoArgs
          /\ pc[t] \in {"search", "apply", "send"} => args[t].op = Op(t)
          /\ pc[t] \in {"lock", "args"} => req[t].lines > 0
    /\ \A i \in 1 .. Len(almacen) : ConDireccion(almacen[i])

LEMMA RecibidaOp ==
    ASSUME NEW t \in Threads, req[t] \in Cliente, NEW g
    PROVE  Recibida(t, g).op = Op(t)
<1>1. req[t].pet \in Peticion
    BY ServidorAssumption DEF ServidorAssumption, Cliente
<1> QED
    BY <1>1 DEF Recibida, Peticion, Op

LEMMA PedidoPropio ==
    ASSUME CtlInv, ThreadInv, PedidoInv, NEW t \in Threads, Avanza(t)
    PROVE  /\ \/ LeeArgs(t)
              \/ /\ args' = args
                 /\ pc'[t] \in {"idle", "start", "header", "lock", "args"} =>
                       pc[t] \in {"idle", "start", "header", "lock", "args"}
                 /\ pc'[t] \in {"search", "apply", "send"} =>
                       pc[t] \in {"search", "apply", "send"} /\ req' = req
           /\ pc'[t] \in {"lock", "args"} =>
                 LeeCabecera(t) \/ (pc[t] \in {"lock", "args"} /\ req' = req)
<1> DEFINE Propios ==
           /\ \/ LeeArgs(t)
              \/ /\ args' = args
                 /\ pc'[t] \in {"idle", "start", "header", "lock", "args"} =>
                       pc[t] \in {"idle", "start", "header", "lock", "args"}
                 /\ pc'[t] \in {"search", "apply", "send"} =>
                       pc[t] \in {"search", "apply", "send"} /\ req' = req
           /\ pc'[t] \in {"lock", "args"} =>
                 LeeCabecera(t) \/ (pc[t] \in {"lock", "args"} /\ req' = req)
<1> USE DEF CtlInv, ThreadInv, En, Va, local, store
<1>1. ASSUME NEW c \in Cliente, Llega(t, c) PROVE Propios
    BY <1>1 DEF Llega
<1>2. ASSUME CreaRpc(t) PROVE Propios
    BY <1>2 DEF CreaRpc
<1>3. ASSUME RpcNoCreado(t) PROVE Propios
    BY <1>3 DEF RpcNoCreado
<1>4. ASSUME LeeCabecera(t) PROVE Propios
    BY <1>4 DEF LeeCabecera
<1>5. ASSUME CabeceraFalla(t) PROVE Propios
    BY <1>5 DEF CabeceraFalla
<1>6. ASSUME Desconocida(t) PROVE Propios
    BY <1>6 DEF Desconocida, Muere
<1>7. ASSUME Entra(t) PROVE Propios
    BY <1>7 DEF Entra
<1>8. ASSUME LeeArgs(t) PROVE Propios
    BY <1>8 DEF LeeArgs
<1>9. ASSUME ArgsFallan(t) PROVE Propios
    BY <1>9 DEF ArgsFallan, Devuelve
<1>10. ASSUME Busca(t) PROVE Propios
    BY <1>10 DEF Busca
<1>11. ASSUME s_register(t) PROVE Propios
    BY <1>11 DEF s_register, Atiende, Rechaza, Cambia, Devuelve, Muere
<1>12. ASSUME s_unregister(t) PROVE Propios
    BY <1>12 DEF s_unregister, Atiende, Rechaza, Cambia, Devuelve
<1>13. ASSUME s_connect(t) PROVE Propios
    BY <1>13 DEF s_connect, Atiende, Rechaza, Cambia, Devuelve
<1>14. ASSUME s_disconnect(t) PROVE Propios
    BY <1>14 DEF s_disconnect, Atiende, Rechaza, Cambia, Devuelve
<1>15. ASSUME s_publish(t) PROVE Propios
    BY <1>15 DEF s_publish, Atiende, Rechaza, Cambia, Devuelve
<1>16. ASSUME s_delete(t) PROVE Propios
    BY <1>16 DEF s_delete, Atiende, Rechaza, Cambia, Devuelve
<1>17. ASSUME s_get_file(t) PROVE Propios
    BY <1>17 DEF s_get_file, Atiende, EnviaCodigo, EnvioFalla, Rechaza,
           Devuelve, Muere
<1>18. ASSUME s_list_users(t) PROVE Propios
    BY <1>18 DEF s_list_users, Atiende, EnviaCodigo, Empieza, EnvioFalla,
           Rechaza, Devuelve, Muere
<1>19. ASSUME s_list_content(t) PROVE Propios
    BY <1>19 DEF s_list_content, Atiende, EnviaCodigo, Empieza, EnvioFalla,
           Rechaza, Devuelve, Muere
<1>20. ASSUME EnviaEntrada(t) PROVE Propios
    BY <1>20 DEF EnviaEntrada
<1>21. ASSUME EntradaFalla(t) PROVE Propios
    BY <1>21 DEF EntradaFalla, EnvioFalla, Rechaza, Devuelve, Muere
<1>22. ASSUME TerminaLista(t) PROVE Propios
    BY <1>22 DEF TerminaLista, Rechaza, Devuelve
<1>23. ASSUME Responde(t) PROVE Propios
    BY <1>23 DEF Responde, Muere
<1>24. ASSUME Registra(t) PROVE Propios
    BY <1>24 DEF Registra
<1> QED
    BY <1>1, <1>2, <1>3, <1>4, <1>5, <1>6, <1>7, <1>8, <1>9, <1>10,
       <1>11, <1>12, <1>13, <1>14, <1>15, <1>16, <1>17, <1>18, <1>19,
       <1>20, <1>21, <1>22, <1>23, <1>24 DEF Paso, Avanza

LEMMA DireccionStep ==
    ASSUME IInv3, NEW t \in Threads, Avanza(t),
           \A i \in 1 .. Len(almacen) : ConDireccion(almacen[i])
    PROVE  \A i \in 1 .. Len(almacen') : ConDireccion(almacen'[i])
<1>1. CASE almacen' = almacen
    BY <1>1
<1>2. CASE almacen' # almacen
    <2>0. almacen \in Seq(Tupla) /\ Len(almacen) \in Nat
        BY LenProperties DEF IInv3, IInv2, IInv, StoreInv
    <2>1. Alta(t) \/ Baja(t) \/ Retoca(t)
        BY <1>2, Cambios DEF IInv3, IInv2
    <2>2. CASE Alta(t)
        <3> DEFINE x == TuplaVacia(args[t].user)
        <3>1. ConDireccion(x)
            BY DEF TuplaVacia, ConDireccion
        <3>2. almacen' = Append(almacen, x)
            BY <2>2 DEF Alta
        <3> HIDE DEF x
        <3>3. /\ Len(almacen') = Len(almacen) + 1
              /\ \A j \in 1 .. Len(almacen) : almacen'[j] = almacen[j]
              /\ almacen'[Len(almacen) + 1] = x
            BY <2>0, <3>2
        <3> QED
            BY <2>0, <3>1, <3>3
    <2>3. CASE Baja(t)
        <3> DEFINE i == idx[t]
        <3>1. i \in 1 .. Len(almacen) /\ almacen' = Quitar(almacen, i)
            BY <2>3 DEF Baja
        <3> HIDE DEF i
        <3>2. /\ Len(almacen') = Len(almacen) - 1
              /\ \A j \in 1 .. Len(almacen) - 1 :
                    almacen'[j] = IF j = i THEN almacen[Len(almacen)] ELSE almacen[j]
            BY <2>0, <3>1, QuitarProps
        <3>3. Len(almacen) \in 1 .. Len(almacen)
            BY <2>0, <3>1
        <3> QED
            BY <2>0, <3>2, <3>3
    <2>4. CASE Retoca(t)
        <3>1. PICK i \in 1 .. Len(almacen), x \in Tupla :
                 /\ almacen' = [almacen EXCEPT ![i] = x]
                 /\ ConDireccion(almacen[i]) => ConDireccion(x)
            BY <2>4 DEF Retoca
        <3>2. /\ Len(almacen') = Len(almacen)
              /\ \A j \in 1 .. Len(almacen) :
                    almacen'[j] = IF j = i THEN x ELSE almacen[j]
            BY <2>0, <3>1, ExceptSeq
        <3> QED
            BY <3>1, <3>2
    <2> QED
        BY <2>1, <2>2, <2>3, <2>4
<1> QED
    BY <1>1, <1>2

LEMMA PedidoStep ==
    ASSUME IInv3, PedidoInv, NEW t \in Threads, Avanza(t)
    PROVE  PedidoInv'
<1>0. IInv /\ CtlInv /\ ThreadInv
    BY DEF IInv3, IInv2, IInv
<1>1. \A i \in 1 .. Len(almacen') : ConDireccion(almacen'[i])
    BY DireccionStep DEF PedidoInv
<1>2. ASSUME NEW s \in Threads
      PROVE  /\ pc'[s] \in {"idle", "start", "header", "lock", "args"} =>
                   args'[s] = NoArgs
             /\ pc'[s] \in {"search", "apply", "send"} => args'[s].op = Op(s)'
             /\ pc'[s] \in {"lock", "args"} => req'[s].lines > 0
    <2>1. CASE s # t
        <3>1. /\ pc'[s] = pc[s] /\ args'[s] = args[s] /\ Op(s)' = Op(s)
              /\ req'[s] = req[s]
            BY <1>0, <2>1, Frame DEF Op
        <3> QED
            BY <3>1 DEF PedidoInv
    <2>2. CASE s = t /\ LeeArgs(t)
        <3>1. req[t] \in Cliente /\ pc[t] = "args"
            BY <1>0, <2>2 DEF LeeArgs, En, ThreadInv
        <3>2. PICK g \in Pila(t) : args' = [args EXCEPT ![t] = Recibida(t, g)]
            BY <2>2 DEF LeeArgs
        <3>3. args'[t].op = Op(t) /\ req' = req /\ pc'[t] = "search"
            BY <1>0, <2>2, <3>1, <3>2, RecibidaOp DEF LeeArgs, ThreadInv, CtlInv, Va
        <3> QED
            BY <2>2, <3>3 DEF Op
    <2>3. CASE s = t /\ ~LeeArgs(t)
        <3>1. /\ pc'[s] \in {"idle", "start", "header", "lock", "args"} =>
                    args'[s] = NoArgs
              /\ pc'[s] \in {"search", "apply", "send"} => args'[s].op = Op(s)'
            BY <1>0, <2>3, PedidoPropio DEF PedidoInv, Op
        <3>2. LeeCabecera(t) => req' = req /\ req[t] \in Cliente /\ req[t].lines >= 1
            BY <1>0 DEF LeeCabecera, CabeceraLeida, En, ThreadInv, Cliente
        <3>3. pc'[s] \in {"lock", "args"} => req'[s].lines > 0
            BY <1>0, <2>3, <3>2, PedidoPropio DEF PedidoInv, ThreadInv, Cliente
        <3> QED
            BY <3>1, <3>3
    <2> QED
        BY <2>1, <2>2, <2>3
<1> QED
    BY <1>1, <1>2 DEF PedidoInv

IInv5 == IInv4 /\ PedidoInv

LEMMA InitIInv5 == Init => IInv5
<1> SUFFICES ASSUME Init PROVE IInv5
    OBVIOUS
<1>1. PedidoInv
    BY GuardadosAssumption
    DEF GuardadosAssumption, Solido, Init, PedidoInv, ConDireccion
<1> QED
    BY <1>1, InitIInv4 DEF IInv5

LEMMA StepIInv5 == IInv5 /\ [Next]_vars => IInv5'
<1> SUFFICES ASSUME IInv5, [Next]_vars PROVE IInv5'
    OBVIOUS
<1>1. IInv4'
    BY StepIInv4 DEF IInv5
<1>2. ASSUME NEW t \in Threads, Avanza(t) PROVE PedidoInv'
    BY <1>2, PedidoStep DEF IInv5, IInv4
<1>3. ASSUME UNCHANGED vars PROVE PedidoInv'
    BY <1>3 DEF vars, local, IInv5, PedidoInv, Op, ConDireccion
<1>4. PedidoInv'
    BY <1>2, <1>3 DEF Next, Avanza, Parado
<1> QED
    BY <1>1, <1>4 DEF IInv5

-----------------------------------------------------------------------------
(* The directory, in the words of module Directorio.                       *)

D == DirectorioDe(almacen)
Resp == [t \in Threads |-> RespuestaDe(t)]
Said == [t \in Threads |-> Enviado(t)]
Idos == {t \in Threads : pc[t] # "idle" /\ Ido(t)}

LEMMA MismaPromesa ==
    ASSUME NEW d, NEW r
    PROVE  /\ Dir!Code(d, r) = R!Code(d, r)
           /\ Dir!Items(d, r) = R!Items(d, r)
           /\ Dir!Effect(d, r) = R!Effect(d, r)
           /\ Dir!IsDirectory(d) <=> R!IsDirectory(d)
<1>1. Dir!Code(d, r) = R!Code(d, r)
    BY DEF Dir!Code, R!Code, Dir!CodeOf, R!CodeOf, Dir!Known, R!Known,
           Dir!Online, R!Online, Dir!Offers, R!Offers
<1>2. Dir!Items(d, r) = R!Items(d, r)
    BY DEF Dir!Items, R!Items, Dir!Known, R!Known, Dir!Online, R!Online
<1>3. Dir!Effect(d, r) = R!Effect(d, r)
    BY DEF Dir!Effect, R!Effect, Dir!Put, R!Put
<1>4. Dir!IsDirectory(d) <=> R!IsDirectory(d)
    BY DEF Dir!IsDirectory, R!IsDirectory
<1> QED
    BY <1>1, <1>2, <1>3, <1>4

-----------------------------------------------------------------------------
(* What has arrived of a request.                                          *)

\* A field has arrived or is missing.
LEMMA LlegaOFalta ==
    ASSUME NEW t \in Threads, req[t] \in Cliente, Op(t) \in Ops, NEW f
    PROVE  f \in {Campos(Op(t))[i] : i \in 1 .. req[t].lines - 2}
              <=> f \in Dir!Arguments(Op(t)) /\ ~Falta(t, f)
<1> DEFINE n == req[t].lines
<1>1. n \in 0 .. 5 /\ n <= Lineas(Op(t))
    BY DEF Cliente, Op
<1>2. n \in Nat
    BY <1>1
<1> HIDE DEF n
<1>3. CASE Op(t) \in {"register", "unregister", "disconnect", "list_users"}
    <2>1. Campos(Op(t)) = <<"user">> /\ Dir!Arguments(Op(t)) = {"user"}
        BY <1>3 DEF Campos, Dir!Arguments
    <2>2. n <= 3
        BY <1>1, <2>1 DEF Lineas
    <2> QED
        BY <1>2, <2>1, <2>2 DEF Falta, n
<1>4. CASE Op(t) = "connect"
    <2>1. Campos(Op(t)) = <<"user", "addr">> /\ Dir!Arguments(Op(t)) = {"user", "addr"}
        BY <1>4 DEF Campos, Dir!Arguments
    <2>2. n <= 4
        BY <1>1, <2>1 DEF Lineas
    <2> QED
        BY <1>2, <2>1, <2>2 DEF Falta, n
<1>5. CASE Op(t) = "publish"
    <2>1. /\ Campos(Op(t)) = <<"user", "file", "descr">>
          /\ Dir!Arguments(Op(t)) = {"user", "file", "descr"}
        BY <1>5 DEF Campos, Dir!Arguments
    <2>2. n <= 5
        BY <1>1, <2>1 DEF Lineas
    <2> QED
        BY <1>2, <2>1, <2>2 DEF Falta, n
<1>6. CASE Op(t) \in {"delete", "get_file"}
    <2>1. Campos(Op(t)) = <<"user", "file">> /\ Dir!Arguments(Op(t)) = {"user", "file"}
        BY <1>6 DEF Campos, Dir!Arguments
    <2>2. n <= 4
        BY <1>1, <2>1 DEF Lineas
    <2> QED
        BY <1>2, <2>1, <2>2 DEF Falta, n
<1>7. CASE Op(t) = "list_content"
    <2>1. Campos(Op(t)) = <<"user", "other">> /\ Dir!Arguments(Op(t)) = {"user", "other"}
        BY <1>7 DEF Campos, Dir!Arguments
    <2>2. n <= 4
        BY <1>1, <2>1 DEF Lineas
    <2> QED
        BY <1>2, <2>1, <2>2 DEF Falta, n
<1> QED
    BY <1>3, <1>4, <1>5, <1>6, <1>7 DEF Ops

\* The request is complete exactly when no field is missing.
LEMMA CompletaONo ==
    ASSUME NEW t \in Threads, req[t] \in Cliente, Op(t) \in Ops
    PROVE  /\ Completa(t) => \A f : ~Falta(t, f)
           /\ ~Completa(t) => \E f \in Dir!Arguments(Op(t)) : Falta(t, f)
<1> DEFINE n == req[t].lines
           m == Len(Campos(Op(t)))
<1>1. n \in 0 .. 5 /\ n <= 2 + m
    BY DEF Cliente, Op, Lineas
<1>2. /\ m \in Nat \ {0} /\ DOMAIN Campos(Op(t)) = 1 .. m
      /\ Campos(Op(t))[m] \in Dir!Arguments(Op(t))
    <2>1. CASE Op(t) \in {"register", "unregister", "disconnect", "list_users"}
        <3>1. Campos(Op(t)) = <<"user">> /\ Dir!Arguments(Op(t)) = {"user"}
            BY <2>1 DEF Campos, Dir!Arguments
        <3> QED
            BY <3>1
    <2>2. CASE Op(t) = "connect"
        <3>1. Campos(Op(t)) = <<"user", "addr">> /\ Dir!Arguments(Op(t)) = {"user", "addr"}
            BY <2>2 DEF Campos, Dir!Arguments
        <3> QED
            BY <3>1
    <2>3. CASE Op(t) = "publish"
        <3>1. /\ Campos(Op(t)) = <<"user", "file", "descr">>
              /\ Dir!Arguments(Op(t)) = {"user", "file", "descr"}
            BY <2>3 DEF Campos, Dir!Arguments
        <3> QED
            BY <3>1
    <2>4. CASE Op(t) \in {"delete", "get_file"}
        <3>1. Campos(Op(t)) = <<"user", "file">> /\ Dir!Arguments(Op(t)) = {"user", "file"}
            BY <2>4 DEF Campos, Dir!Arguments
        <3> QED
            BY <3>1
    <2>5. CASE Op(t) = "list_content"
        <3>1. Campos(Op(t)) = <<"user", "other">> /\ Dir!Arguments(Op(t)) = {"user", "other"}
            BY <2>5 DEF Campos, Dir!Arguments
        <3> QED
            BY <3>1
    <2> QED
        BY <2>1, <2>2, <2>3, <2>4, <2>5 DEF Ops
<1>3. Completa(t) <=> n = 2 + m
    BY DEF Completa, Lineas
<1> HIDE DEF m
<1>4. Completa(t) => \A f : ~Falta(t, f)
    BY <1>1, <1>2, <1>3 DEF Falta
<1>5. ASSUME ~Completa(t) PROVE Falta(t, Campos(Op(t))[m])
    <2>1. m \in DOMAIN Campos(Op(t)) /\ m > n - 2
        BY <1>1, <1>2, <1>3, <1>5
    <2> QED
        BY <2>1 DEF Falta
<1> QED
    BY <1>2, <1>4, <1>5

LEMMA DominioEnviado ==
    ASSUME NEW t \in Threads, pc[t] # "idle"
    PROVE  /\ DOMAIN Said[t] = Llegan(req[t])
           /\ \A f \in Llegan(req[t]) : Said[t][f] = req[t].pet[f]
<1>1. Said[t] = [f \in Llegan(req[t]) |-> req[t].pet[f]]
    BY DEF Said, Enviado
<1> QED
    BY <1>1

\* The operation has arrived with the first line.
LEMMA OpEnviada ==
    ASSUME NEW t \in Threads, pc[t] # "idle", req[t].lines > 0
    PROVE  "op" \in DOMAIN Said[t] /\ Said[t].op = Op(t)
<1>1. "op" \in Llegan(req[t])
    BY DEF Llegan
<1> QED
    BY <1>1, DominioEnviado DEF Op

\* What is read of a request has all that arrived of it, and it has all that
\* its operation needs unless its client is gone.
LEMMA RecibidaEnviada ==
    ASSUME NEW t \in Threads, pc[t] # "idle", req[t] \in Cliente, Op(t) \in Ops,
           NEW g
    PROVE  /\ Dir!Completes(Recibida(t, g), Said[t])
           /\ Completa(t) /\ req[t].end # "resets" =>
                 Dir!Arguments(Op(t)) \subseteq DOMAIN Said[t]
           /\ ~Completa(t) => ~(Dir!Arguments(Op(t)) \subseteq DOMAIN Said[t])
<1> DEFINE campos == {Campos(Op(t))[i] : i \in 1 .. req[t].lines - 2}
           p == req[t].pet
           r == Recibida(t, g)
<1>1. p \in Peticion
    BY ServidorAssumption DEF ServidorAssumption, Cliente
<1>2. /\ \A f : f \in Llegan(req[t]) =>
                f = "op" \/ (f \in campos /\ (f = "addr" => req[t].end # "resets"))
      /\ req[t].end # "resets" => campos \subseteq Llegan(req[t])
    BY DEF Llegan, Op
<1>3. /\ \A f : f \in campos <=> f \in Dir!Arguments(Op(t)) /\ ~Falta(t, f)
    BY LlegaOFalta
<1>4. /\ r.op = p.op
      /\ ~Falta(t, "user") => r.user = p.user
      /\ ~Falta(t, "other") => r.other = p.other
      /\ ~Falta(t, "file") => r.file = p.file
      /\ ~Falta(t, "descr") => r.descr = p.descr
      /\ ~Falta(t, "addr") /\ req[t].end # "resets" => r.addr = p.addr
    BY <1>1 DEF Recibida, DireccionIncierta, Peticion
<1>5. Dir!Arguments(Op(t)) \subseteq {"user", "other", "file", "descr", "addr"}
    <2>1. Op(t) \in {"register", "unregister", "disconnect", "list_users"}
             => Dir!Arguments(Op(t)) = {"user"}
        BY DEF Dir!Arguments
    <2>2. Op(t) = "connect" => Dir!Arguments(Op(t)) = {"user", "addr"}
        BY DEF Dir!Arguments
    <2>3. Op(t) = "publish" => Dir!Arguments(Op(t)) = {"user", "file", "descr"}
        BY DEF Dir!Arguments
    <2>4. Op(t) \in {"delete", "get_file"} => Dir!Arguments(Op(t)) = {"user", "file"}
        BY DEF Dir!Arguments
    <2>5. Op(t) = "list_content" => Dir!Arguments(Op(t)) = {"user", "other"}
        BY DEF Dir!Arguments
    <2> QED
        BY <2>1, <2>2, <2>3, <2>4, <2>5 DEF Ops
<1> HIDE DEF campos, r, p
<1>6. ASSUME NEW f \in Llegan(req[t]) PROVE r[f] = p[f]
    <2>1. f \in {"op", "user", "other", "file", "descr", "addr"}
        BY <1>2, <1>3, <1>5
    <2>2. f # "op" => ~Falta(t, f)
        BY <1>2, <1>3
    <2>3. f = "addr" => req[t].end # "resets"
        BY <1>2
    <2> QED
        BY <1>4, <2>1, <2>2, <2>3
<1>7. Dir!Completes(r, Said[t])
    BY <1>6, DominioEnviado DEF Dir!Completes, p
<1>8. Completa(t) /\ req[t].end # "resets" =>
         Dir!Arguments(Op(t)) \subseteq DOMAIN Said[t]
    BY <1>2, <1>3, CompletaONo, DominioEnviado
<1>9. ~Completa(t) => ~(Dir!Arguments(Op(t)) \subseteq DOMAIN Said[t])
    <2> SUFFICES ASSUME ~Completa(t)
                 PROVE  ~(Dir!Arguments(Op(t)) \subseteq DOMAIN Said[t])
        OBVIOUS
    <2>1. PICK f \in Dir!Arguments(Op(t)) : Falta(t, f)
        BY CompletaONo
    <2>2. f \notin campos /\ f # "op"
        BY <1>3, <1>5, <2>1
    <2> QED
        BY <1>2, <2>1, <2>2, DominioEnviado
<1> QED
    BY <1>7, <1>8, <1>9 DEF r

-----------------------------------------------------------------------------
(* A handler does what it would with nobody else about.                    *)

LEMMA Partes ==
    ASSUME IInv5
    PROVE  /\ IInv /\ CtlInv /\ ThreadInv /\ StoreInv /\ IndexFresh /\ DataInv
           /\ NuevoInv /\ PedidoInv /\ ListInv /\ InstantaneaInv /\ FilesUnique
           /\ almacen \in Seq(Tupla)
    BY DEF IInv5, IInv4, IInv3, IInv2, IInv, StoreInv

\* The code the store asks for.
Debido(t) == CodigoDe(almacen, args[t])

\* The handler returns it, and sends and changes what it should.
Atendida(t) ==
    /\ Devuelve(t, Debido(t))
    /\ args' = args
    /\ almacen' = IF Debido(t) = 0 THEN AlmacenTras(almacen, args[t]) ELSE almacen
    /\ Debido(t) = 0 =>
          {sent'[t][n] : n \in 1 .. Len(sent'[t])} = ItemsDe(almacen, args[t])

\* The code with which a handler that sends more than a code gives up.
Renuncia(t, e) ==
    \/ Op(t) = "list_users" /\ e = 3
    \/ Op(t) = "list_content" /\ e = 4
    \/ Op(t) = "get_file" /\ e \in {-1, 2}

\* The handler gives up, because its client is gone.
Cede(t) == Ido(t) /\ \E e : e # 0 /\ Renuncia(t, e) /\ Rechaza(t, e)

\* The handler goes on.
Sigue(t) ==
    /\ pc'[t] = "send"
    /\ UNCHANGED <<almacen, args, req, resp>>

\* The search of the thread is the one the request asks for.
LEMMA Busqueda ==
    ASSUME IInv5, NEW t \in Threads, pc[t] \in {"apply", "send"}
    PROVE  /\ args[t] \in Peticion /\ args[t].op = Op(t)
           /\ Hallada(almacen, Op(t), args[t].user) = idx[t]
           /\ Op(t) = "list_content" =>
                 /\ Hallada(almacen, Op(t), args[t].other) = idx2[t]
                 /\ Registrado(almacen, args[t].other) <=> idx2[t] # 0
           /\ Hay(t) => idx[t] \in 1 .. Len(almacen) /\ Tupla_(t) \in Tupla
<1>1. args[t] \in Peticion /\ args[t].op = Op(t)
    BY Partes DEF ThreadInv, PedidoInv
<1>2. Encuentra(Op(t), args[t].user, idx[t]) /\ idx[t] \in Nat
    BY Partes DEF IndexFresh, ThreadInv
<1>3. Hallada(almacen, Op(t), args[t].user) = idx[t]
    BY <1>2, Partes, HalladaEs DEF Encuentra
<1>4. ASSUME Op(t) = "list_content"
      PROVE  /\ Hallada(almacen, Op(t), args[t].other) = idx2[t]
             /\ Registrado(almacen, args[t].other) <=> idx2[t] # 0
    <2>1. Halla(almacen, "list_content", args[t].other, idx2[t])
        BY <1>4, Partes DEF IndexFresh, Encuentra
    <2>2. Registrado(almacen, args[t].other) <=> idx2[t] # 0
        BY <2>1, Partes, LenProperties DEF Halla, EsUltimo, Registrado
    <2> QED
        BY <1>4, <2>1, <2>2, Partes, HalladaEs
<1>5. Hay(t) => idx[t] \in 1 .. Len(almacen) /\ Tupla_(t) \in Tupla
    BY <1>2, Partes, EncuentraTupla DEF Hay, Tupla_
<1> QED
    BY <1>1, <1>3, <1>4, <1>5

\* The code, by what the handler looks at.
LEMMA CodigoVisto ==
    ASSUME IInv5, NEW t \in Threads, pc[t] \in {"apply", "send"}
    PROVE  /\ Op(t) = "register" => Debido(t) = IF Hay(t) THEN 1 ELSE 0
           /\ Op(t) \in {"unregister", "connect"} =>
                 Debido(t) = IF ~Hay(t) THEN 1 ELSE IF Conectado(t) THEN 2 ELSE 0
           /\ Op(t) = "disconnect" =>
                 Debido(t) = IF ~Hay(t) THEN 1 ELSE IF ~Conectado(t) THEN 2 ELSE 0
           /\ Op(t) = "publish" =>
                 Debido(t) = IF ~Hay(t) THEN 1 ELSE IF ~Conectado(t) THEN 2
                             ELSE IF Publicado(Tupla_(t), args[t].file) THEN 3 ELSE 0
           /\ Op(t) = "delete" =>
                 Debido(t) = IF ~Hay(t) THEN 1 ELSE IF ~Conectado(t) THEN 2
                             ELSE IF ~Publicado(Tupla_(t), args[t].file) THEN 3 ELSE 0
           /\ Op(t) = "list_users" =>
                 Debido(t) = IF ~Hay(t) THEN 1
                             ELSE IF Conectados(almacen) = {} THEN 2 ELSE 0
           /\ Op(t) = "list_content" =>
                 Debido(t) = IF ~Hay(t) THEN 1 ELSE IF ~Conectado(t) THEN 2
                             ELSE IF idx2[t] = 0 THEN 3 ELSE 0
           /\ Op(t) = "get_file" =>
                 Debido(t) = IF ~Conectado(t) THEN 2
                             ELSE IF ~Publicado(Tupla_(t), args[t].file) THEN 1 ELSE 0
<1> DEFINE h == Hay(t)
           o == Conectado(t)
           p == Hay(t) /\ Publicado(Tupla_(t), args[t].file)
           n == Conectados(almacen) # {}
           v == Registrado(almacen, args[t].other)
<1>1. Debido(t) = R!CodeOf(Op(t), h, o, p, n, v)
    <2>1. args[t].op = Op(t) /\ Hallada(almacen, args[t].op, args[t].user) = idx[t]
        BY Busqueda
    <2> QED
        BY <2>1 DEF Debido, CodigoDe, Hay, Conectado, Tupla_
<1>2. Op(t) = "list_content" => (v <=> idx2[t] # 0)
    BY Busqueda
<1>3. o => h
    BY DEF Conectado
<1>4. h => (p <=> Publicado(Tupla_(t), args[t].file))
    OBVIOUS
<1> HIDE DEF h, o, p, n, v
<1>5. Op(t) = "register" => Debido(t) = IF h THEN 1 ELSE 0
    BY <1>1 DEF R!CodeOf
<1>6. Op(t) \in {"unregister", "connect"} =>
         Debido(t) = IF ~h THEN 1 ELSE IF o THEN 2 ELSE 0
    BY <1>1 DEF R!CodeOf
<1>7. Op(t) = "disconnect" => Debido(t) = IF ~h THEN 1 ELSE IF ~o THEN 2 ELSE 0
    BY <1>1 DEF R!CodeOf
<1>8. Op(t) = "publish" =>
         Debido(t) = IF ~h THEN 1 ELSE IF ~o THEN 2 ELSE IF p THEN 3 ELSE 0
    BY <1>1 DEF R!CodeOf
<1>9. Op(t) = "delete" =>
         Debido(t) = IF ~h THEN 1 ELSE IF ~o THEN 2 ELSE IF ~p THEN 3 ELSE 0
    BY <1>1 DEF R!CodeOf
<1>10. Op(t) = "list_users" => Debido(t) = IF ~h THEN 1 ELSE IF ~n THEN 2 ELSE 0
    BY <1>1 DEF R!CodeOf
<1>11. Op(t) = "list_content" =>
          Debido(t) = IF ~h THEN 1 ELSE IF ~o THEN 2 ELSE IF ~v THEN 3 ELSE 0
    BY <1>1 DEF R!CodeOf
<1>12. Op(t) = "get_file" => Debido(t) = IF ~o THEN 2 ELSE IF ~p THEN 1 ELSE 0
    BY <1>1 DEF R!CodeOf
<1> USE DEF h, o, n
<1>13. Op(t) = "publish" =>
          Debido(t) = IF ~Hay(t) THEN 1 ELSE IF ~Conectado(t) THEN 2
                      ELSE IF Publicado(Tupla_(t), args[t].file) THEN 3 ELSE 0
    BY <1>4, <1>8
<1>14. Op(t) = "delete" =>
          Debido(t) = IF ~Hay(t) THEN 1 ELSE IF ~Conectado(t) THEN 2
                      ELSE IF ~Publicado(Tupla_(t), args[t].file) THEN 3 ELSE 0
    BY <1>4, <1>9
<1>15. Op(t) = "list_users" =>
          Debido(t) = IF ~Hay(t) THEN 1
                      ELSE IF Conectados(almacen) = {} THEN 2 ELSE 0
    BY <1>10
<1>16. Op(t) = "list_content" =>
          Debido(t) = IF ~Hay(t) THEN 1 ELSE IF ~Conectado(t) THEN 2
                      ELSE IF idx2[t] = 0 THEN 3 ELSE 0
    BY <1>2, <1>11
<1>17. Op(t) = "get_file" =>
          Debido(t) = IF ~Conectado(t) THEN 2
                      ELSE IF ~Publicado(Tupla_(t), args[t].file) THEN 1 ELSE 0
    BY <1>3, <1>4, <1>12
<1> QED
    BY <1>5, <1>6, <1>7, <1>13, <1>14, <1>15, <1>16, <1>17

LEMMA RechazadaAtendida ==
    ASSUME NEW t \in Threads, NEW c, Rechaza(t, c), c # 0, c = Debido(t)
    PROVE  Atendida(t)
    BY DEF Rechaza, store, Atendida

LEMMA CambiadaAtendida ==
    ASSUME IInv5, NEW t \in Threads, pc[t] = "apply",
           Op(t) \in {"register", "unregister", "connect", "disconnect",
                      "publish", "delete"},
           NEW a, Cambia(t, a), Debido(t) = 0, a = AlmacenTras(almacen, args[t])
    PROVE  Atendida(t)
<1>1. Devuelve(t, 0) /\ args' = args /\ almacen' = a /\ sent' = sent
    BY DEF Cambia, local
<1>2. args[t].op = Op(t)
    BY Busqueda
<1>3. ItemsDe(almacen, args[t]) = {}
    BY <1>2 DEF ItemsDe
<1>4. sent'[t] = <<>>
    BY <1>1, Partes DEF NuevoInv, Previos
<1>5. {sent'[t][n] : n \in 1 .. Len(sent'[t])} = {}
    <2>1. Len(<<>>) = 0
        BY EmptySeq
    <2> QED
        BY <1>4, <2>1
<1> QED
    BY <1>1, <1>3, <1>5 DEF Atendida

LEMMA EnvioCede ==
    ASSUME NEW t \in Threads, NEW e, EnvioFalla(t, e), e # 0, Renuncia(t, e)
    PROVE  Cede(t) \/ Muere
    BY DEF EnvioFalla, Cede

LEMMA CodigoEnviado ==
    ASSUME NEW t \in Threads, NEW c, NEW e, EnviaCodigo(t, c, e), c # 0, e # 0,
           c = Debido(t), Renuncia(t, e)
    PROVE  Atendida(t) \/ Cede(t) \/ Muere
    BY RechazadaAtendida, EnvioCede DEF EnviaCodigo

LEMMA ListaEmpezada ==
    ASSUME IInv5, NEW t \in Threads,
           NEW n, NEW e, Empieza(t, n, e), e # 0, Renuncia(t, e)
    PROVE  Sigue(t) \/ Cede(t) \/ Muere
<1>1. CASE EnvioFalla(t, e)
    BY <1>1, EnvioCede
<1>2. CASE ~EnvioFalla(t, e)
    BY <1>2, Partes DEF Empieza, Va, store, Sigue, CtlInv
<1> QED
    BY <1>1, <1>2

-----------------------------------------------------------------------------
(* The handlers one by one.                                                *)

LEMMA CodigoSolo ==
    ASSUME IInv5, NEW t \in Threads,
           s_register(t) \/ s_unregister(t) \/ s_connect(t) \/ s_disconnect(t)
    PROVE  Atendida(t) \/ Muere
<1> DEFINE i == Hallada(almacen, args[t].op, args[t].user)
<1>0. pc[t] = "apply"
    BY DEF s_register, s_unregister, s_connect, s_disconnect, Atiende, En
<1>1. args[t].op = Op(t) /\ i = idx[t]
    BY <1>0, Busqueda
<1>2. CASE s_register(t)
    <2>1. Op(t) = "register"
        BY <1>2 DEF s_register, Atiende
    <2>2. Debido(t) = IF Hay(t) THEN 1 ELSE 0
        BY <1>0, <2>1, CodigoVisto
    <2>3. AlmacenTras(almacen, args[t]) = Append(almacen, TuplaVacia(args[t].user))
        BY <1>1, <2>1 DEF AlmacenTras
    <2>4. CASE Hay(t) /\ Rechaza(t, 1)
        BY <2>2, <2>4, RechazadaAtendida
    <2>5. CASE ~Hay(t) /\ Cambia(t, Append(almacen, TuplaVacia(args[t].user)))
        BY <1>0, <2>1, <2>2, <2>3, <2>5, CambiadaAtendida
    <2> QED
        BY <1>2, <2>4, <2>5 DEF s_register
<1>3. CASE s_unregister(t)
    <2>1. Op(t) = "unregister"
        BY <1>3 DEF s_unregister, Atiende
    <2>2. Debido(t) = IF ~Hay(t) THEN 1 ELSE IF Conectado(t) THEN 2 ELSE 0
        BY <1>0, <2>1, CodigoVisto
    <2>3. AlmacenTras(almacen, args[t]) = Quitar(almacen, idx[t])
        BY <1>1, <2>1 DEF AlmacenTras
    <2>4. CASE ~Hay(t) /\ Rechaza(t, 1)
        BY <2>2, <2>4, RechazadaAtendida
    <2>5. CASE Conectado(t) /\ Rechaza(t, 2)
        BY <2>2, <2>5, RechazadaAtendida DEF Conectado
    <2>6. CASE Hay(t) /\ ~Conectado(t) /\ Cambia(t, Quitar(almacen, idx[t]))
        BY <1>0, <2>1, <2>2, <2>3, <2>6, CambiadaAtendida
    <2> QED
        BY <1>3, <2>4, <2>5, <2>6 DEF s_unregister
<1>4. CASE s_connect(t)
    <2>1. Op(t) = "connect"
        BY <1>4 DEF s_connect, Atiende
    <2>2. Debido(t) = IF ~Hay(t) THEN 1 ELSE IF Conectado(t) THEN 2 ELSE 0
        BY <1>0, <2>1, CodigoVisto
    <2>3. AlmacenTras(almacen, args[t]) = Conectar(almacen, idx[t], args[t].addr)
        BY <1>1, <2>1 DEF AlmacenTras
    <2>4. CASE ~Hay(t) /\ Rechaza(t, 1)
        BY <2>2, <2>4, RechazadaAtendida
    <2>5. CASE Conectado(t) /\ Rechaza(t, 2)
        BY <2>2, <2>5, RechazadaAtendida DEF Conectado
    <2>6. CASE /\ Hay(t) /\ ~Conectado(t)
               /\ Cambia(t, Conectar(almacen, idx[t], args[t].addr))
        BY <1>0, <2>1, <2>2, <2>3, <2>6, CambiadaAtendida
    <2> QED
        BY <1>4, <2>4, <2>5, <2>6 DEF s_connect
<1>5. CASE s_disconnect(t)
    <2>1. Op(t) = "disconnect"
        BY <1>5 DEF s_disconnect, Atiende
    <2>2. Debido(t) = IF ~Hay(t) THEN 1 ELSE IF ~Conectado(t) THEN 2 ELSE 0
        BY <1>0, <2>1, CodigoVisto
    <2>3. AlmacenTras(almacen, args[t]) = Desconectar(almacen, idx[t])
        BY <1>1, <2>1 DEF AlmacenTras
    <2>4. CASE ~Hay(t) /\ Rechaza(t, 1)
        BY <2>2, <2>4, RechazadaAtendida
    <2>5. CASE Hay(t) /\ ~Conectado(t) /\ Rechaza(t, 2)
        BY <2>2, <2>5, RechazadaAtendida
    <2>6. CASE Conectado(t) /\ Cambia(t, Desconectar(almacen, idx[t]))
        BY <1>0, <2>1, <2>2, <2>3, <2>6, CambiadaAtendida DEF Conectado
    <2> QED
        BY <1>5, <2>4, <2>5, <2>6 DEF s_disconnect
<1> QED
    BY <1>2, <1>3, <1>4, <1>5

LEMMA FicherosSolo ==
    ASSUME IInv5, NEW t \in Threads, s_publish(t) \/ s_delete(t)
    PROVE  Atendida(t)
<1> DEFINE i == Hallada(almacen, args[t].op, args[t].user)
           f == args[t].file
<1>0. pc[t] = "apply"
    BY DEF s_publish, s_delete, Atiende, En
<1>1. args[t].op = Op(t) /\ i = idx[t]
    BY <1>0, Busqueda
<1>2. CASE s_publish(t)
    <2>1. Op(t) = "publish"
        BY <1>2 DEF s_publish, Atiende
    <2>2. Debido(t) = IF ~Hay(t) THEN 1 ELSE IF ~Conectado(t) THEN 2
                      ELSE IF Publicado(Tupla_(t), f) THEN 3 ELSE 0
        BY <1>0, <2>1, CodigoVisto
    <2>3. AlmacenTras(almacen, args[t]) = Publicar(almacen, idx[t], f, args[t].descr)
        BY <1>1, <2>1 DEF AlmacenTras
    <2>4. CASE ~Hay(t) /\ Rechaza(t, 1)
        BY <2>2, <2>4, RechazadaAtendida
    <2>5. CASE Hay(t) /\ ~Conectado(t) /\ Rechaza(t, 2)
        BY <2>2, <2>5, RechazadaAtendida
    <2>6. CASE Conectado(t) /\ Publicado(Tupla_(t), f) /\ Rechaza(t, 3)
        BY <2>2, <2>6, RechazadaAtendida DEF Conectado
    <2>7. CASE /\ Conectado(t) /\ ~Publicado(Tupla_(t), f)
               /\ Cambia(t, Publicar(almacen, idx[t], f, args[t].descr))
        BY <1>0, <2>1, <2>2, <2>3, <2>7, CambiadaAtendida DEF Conectado
    <2> QED
        BY <1>2, <2>4, <2>5, <2>6, <2>7 DEF s_publish
<1>3. CASE s_delete(t)
    <2>1. Op(t) = "delete"
        BY <1>3 DEF s_delete, Atiende
    <2>2. Debido(t) = IF ~Hay(t) THEN 1 ELSE IF ~Conectado(t) THEN 2
                      ELSE IF ~Publicado(Tupla_(t), f) THEN 3 ELSE 0
        BY <1>0, <2>1, CodigoVisto
    <2>4. CASE ~Hay(t) /\ Rechaza(t, 1)
        BY <2>2, <2>4, RechazadaAtendida
    <2>5. CASE Hay(t) /\ ~Conectado(t) /\ Rechaza(t, 2)
        BY <2>2, <2>5, RechazadaAtendida
    <2>6. CASE Conectado(t) /\ ~Publicado(Tupla_(t), f) /\ Rechaza(t, 3)
        BY <2>2, <2>6, RechazadaAtendida DEF Conectado
    <2>7. ASSUME Conectado(t), NEW k \in 1 .. Len(Tupla_(t).files),
                 EsUltimoFichero(Tupla_(t), f, k),
                 Cambia(t, Borrar(almacen, idx[t], k))
          PROVE  Atendida(t)
        <3>1. Hay(t) /\ Publicado(Tupla_(t), f)
            BY <2>7 DEF Conectado, EsUltimoFichero, Publicado
        <3>2. Tupla_(t).files \in Seq(Fichero)
            BY <1>0, <3>1, Busqueda DEF Tupla
        <3> DEFINE m == CHOOSE j \in 1 .. Len(Tupla_(t).files) :
                           EsUltimoFichero(Tupla_(t), f, j)
        <3>3. EsUltimoFichero(Tupla_(t), f, m)
            BY <2>7
        <3>4. m = k
            <4> HIDE DEF m
            <4> QED
                BY <2>7, <3>2, <3>3, UltimoFicheroUnico
        <3>5. AlmacenTras(almacen, args[t]) = Borrar(almacen, idx[t], m)
            BY <1>1, <2>1 DEF AlmacenTras, Tupla_
        <3> HIDE DEF m
        <3> QED
            BY <1>0, <2>1, <2>2, <2>7, <3>1, <3>4, <3>5, CambiadaAtendida
    <2> QED
        BY <1>3, <2>4, <2>5, <2>6, <2>7 DEF s_delete
<1> QED
    BY <1>2, <1>3

LEMMA GetFileSolo ==
    ASSUME IInv5, NEW t \in Threads, s_get_file(t)
    PROVE  Atendida(t) \/ Cede(t) \/ Muere
<1> DEFINE f == args[t].file
<1>1. pc[t] = "apply" /\ Op(t) = "get_file"
    BY DEF s_get_file, Atiende, En
<1>2. /\ args[t].op = "get_file"
      /\ Hallada(almacen, args[t].op, args[t].user) = idx[t]
    BY <1>1, Busqueda
<1>3. Debido(t) = IF ~Conectado(t) THEN 2
                  ELSE IF ~Publicado(Tupla_(t), f) THEN 1 ELSE 0
    BY <1>1, CodigoVisto
<1>4. Renuncia(t, -1) /\ Renuncia(t, 2)
    BY <1>1 DEF Renuncia
<1>5. CASE ~Conectado(t) /\ EnviaCodigo(t, 2, -1)
    BY <1>3, <1>4, <1>5, CodigoEnviado
<1>6. CASE Conectado(t) /\ ~Publicado(Tupla_(t), f) /\ EnviaCodigo(t, 1, 2)
    BY <1>3, <1>4, <1>6, CodigoEnviado
<1>7. CASE /\ Conectado(t) /\ Publicado(Tupla_(t), f)
           /\ Devuelve(t, 0)
           /\ sent' = [sent EXCEPT ![t] = <<Tupla_(t).addr>>]
           /\ UNCHANGED <<store, args, idx, idx2, pos, count>>
    <2>1. Debido(t) = 0
        BY <1>3, <1>7
    <2>2. ItemsDe(almacen, args[t]) = {Tupla_(t).addr}
        BY <1>2 DEF ItemsDe, Tupla_
    <2>3. sent'[t] = <<Tupla_(t).addr>>
        BY <1>7, Partes DEF DataInv
    <2>4. {sent'[t][n] : n \in 1 .. Len(sent'[t])} = {Tupla_(t).addr}
        BY <2>3
    <2>5. AlmacenTras(almacen, args[t]) = almacen
        BY <1>2 DEF AlmacenTras
    <2> QED
        BY <1>7, <2>1, <2>2, <2>4, <2>5 DEF Atendida, store
<1>8. CASE EnvioFalla(t, 2)
    BY <1>4, <1>8, EnvioCede
<1> QED
    BY <1>5, <1>6, <1>7, <1>8 DEF s_get_file

LEMMA ListUsersSolo ==
    ASSUME IInv5, NEW t \in Threads, s_list_users(t)
    PROVE  Atendida(t) \/ Cede(t) \/ Sigue(t) \/ Muere
<1>1. pc[t] = "apply" /\ Op(t) = "list_users"
    BY DEF s_list_users, Atiende, En
<1>2. Debido(t) = IF ~Hay(t) THEN 1 ELSE IF Conectados(almacen) = {} THEN 2 ELSE 0
    BY <1>1, CodigoVisto
<1>3. Renuncia(t, 3)
    BY <1>1 DEF Renuncia
<1>4. CASE ~Hay(t) /\ EnviaCodigo(t, 1, 3)
    BY <1>2, <1>3, <1>4, CodigoEnviado
<1>5. CASE Hay(t) /\ Conectados(almacen) = {} /\ EnviaCodigo(t, 2, 3)
    BY <1>2, <1>3, <1>5, CodigoEnviado
<1>6. CASE Empieza(t, Cardinality(Conectados(almacen)), 3)
    BY <1>3, <1>6, ListaEmpezada
<1> QED
    BY <1>4, <1>5, <1>6 DEF s_list_users

LEMMA ListContentSolo ==
    ASSUME IInv5, NEW t \in Threads, s_list_content(t)
    PROVE  Atendida(t) \/ Cede(t) \/ Sigue(t) \/ Muere
<1>1. pc[t] = "apply" /\ Op(t) = "list_content"
    BY DEF s_list_content, Atiende, En
<1>2. Debido(t) = IF ~Hay(t) THEN 1 ELSE IF ~Conectado(t) THEN 2
                  ELSE IF idx2[t] = 0 THEN 3 ELSE 0
    BY <1>1, CodigoVisto
<1>3. Renuncia(t, 4)
    BY <1>1 DEF Renuncia
<1>4. CASE ~Hay(t) /\ EnviaCodigo(t, 1, 4)
    BY <1>2, <1>3, <1>4, CodigoEnviado
<1>5. CASE Hay(t) /\ ~Conectado(t) /\ EnviaCodigo(t, 2, 4)
    BY <1>2, <1>3, <1>5, CodigoEnviado
<1>6. CASE Conectado(t) /\ idx2[t] = 0 /\ EnviaCodigo(t, 3, 4)
    BY <1>2, <1>3, <1>6, CodigoEnviado DEF Conectado
<1>7. CASE Empieza(t, Len(almacen[idx2[t]].files), 4)
    BY <1>3, <1>7, ListaEmpezada
<1> QED
    BY <1>4, <1>5, <1>6, <1>7 DEF s_list_content

\* The end of a listing: all that was to be sent has been.
LEMMA ListaAtendida ==
    ASSUME IInv5, NEW t \in Threads, pc[t] = "send", Rechaza(t, 0), Debido(t) = 0,
           args[t].op \in {"list_users", "list_content"},
           {sent[t][n] : n \in 1 .. Len(sent[t])} = ItemsDe(almacen, args[t])
    PROVE  Atendida(t)
<1>1. Devuelve(t, 0) /\ args' = args /\ almacen' = almacen /\ sent' = sent
    BY DEF Rechaza, store, local
<1>2. AlmacenTras(almacen, args[t]) = almacen
    BY DEF AlmacenTras
<1> QED
    BY <1>1, <1>2 DEF Atendida

LEMMA TerminaUsuarios ==
    ASSUME IInv5, NEW t \in Threads, TerminaLista(t), Op(t) = "list_users"
    PROVE  Atendida(t)
<1>1. pc[t] = "send" /\ Rechaza(t, 0)
    BY DEF TerminaLista, En
<1>2. args[t].op = "list_users"
    BY <1>1, Busqueda
<1>3. /\ Hay(t) /\ Conectados(almacen) # {}
      /\ \A n \in 1 .. Len(sent[t]) :
            \E i \in Conectados(almacen) : sent[t][n] = Par(i)
      /\ \A i \in Conectados(almacen) : i <= pos[t] =>
            \E n \in 1 .. Len(sent[t]) : sent[t][n] = Par(i)
    BY <1>1, Partes DEF InstantaneaInv, Usuarios
<1>4. \A i \in Conectados(almacen) : i <= pos[t]
    <2>1. \A i \in Conectados(almacen) : i \in Nat
        BY Partes, LenProperties DEF Conectados
    <2>2. pos[t] \in Nat
        BY Partes DEF DataInv
    <2> QED
        BY <2>1, <2>2 DEF TerminaLista, QuedanEntradas
<1>5. Debido(t) = 0
    BY <1>1, <1>3, CodigoVisto
<1> DEFINE E == {sent[t][n] : n \in 1 .. Len(sent[t])}
           L == {Par(i) : i \in Conectados(almacen)}
<1>6. E = L
    <2>1. ASSUME NEW e \in E PROVE e \in L
        BY <1>3
    <2>2. ASSUME NEW e \in L PROVE e \in E
        BY <1>3, <1>4
    <2> HIDE DEF E, L
    <2> QED
        BY <2>1, <2>2
<1>7. L = ItemsDe(almacen, args[t])
    BY <1>2 DEF ItemsDe, Par
<1> QED
    BY <1>1, <1>2, <1>5, <1>6, <1>7, ListaAtendida

LEMMA TerminaContenido ==
    ASSUME IInv5, NEW t \in Threads, TerminaLista(t), Op(t) = "list_content"
    PROVE  Atendida(t)
<1> DEFINE s == almacen[idx2[t]].files
<1>1. pc[t] = "send" /\ Rechaza(t, 0)
    BY DEF TerminaLista, En
<1>2. /\ args[t].op = "list_content"
      /\ Hallada(almacen, args[t].op, args[t].other) = idx2[t]
    BY <1>1, Busqueda
<1>3. /\ Conectado(t) /\ idx2[t] # 0
      /\ count[t] = Len(s) /\ pos[t] <= count[t]
      /\ sent[t] = [n \in 1 .. pos[t] |-> Fila(s[n])]
    BY <1>1, Partes DEF InstantaneaInv, Contenido
<1>4. pos[t] = Len(s) /\ Len(s) \in Nat
    <2>1. almacen[idx2[t]] \in Tupla
        BY <1>1, <1>3, Partes, Indice2Valido
    <2>2. Len(s) \in Nat /\ pos[t] \in Nat
        BY <2>1, LenProperties, Partes DEF DataInv, Tupla
    <2>3. ~(pos[t] < count[t])
        BY DEF TerminaLista, QuedanEntradas
    <2> QED
        BY <1>3, <2>2, <2>3
<1>5. Debido(t) = 0
    BY <1>1, <1>3, CodigoVisto DEF Conectado
<1>6. ItemsDe(almacen, args[t]) = {Fila(s[k]) : k \in 1 .. Len(s)}
    BY <1>2 DEF ItemsDe, Fila
<1>7. {sent[t][n] : n \in 1 .. Len(sent[t])} = {Fila(s[k]) : k \in 1 .. Len(s)}
    <2> HIDE DEF s
    <2>1. Len(sent[t]) = Len(s) /\ \A n \in 1 .. Len(s) : sent[t][n] = Fila(s[n])
        BY <1>3, <1>4
    <2> QED
        BY <2>1
<1> QED
    BY <1>1, <1>2, <1>5, <1>6, <1>7, ListaAtendida

\* A step of thread t between its search and the end of its handler.
LEMMA HandlerSolo ==
    ASSUME IInv5, NEW t \in Threads, Avanza(t), pc[t] \in {"apply", "send"}
    PROVE  Atendida(t) \/ Cede(t) \/ Sigue(t) \/ Muere
<1>1. CASE pc[t] = "apply"
    <2>1. \/ s_register(t) \/ s_unregister(t) \/ s_connect(t) \/ s_disconnect(t)
          \/ s_publish(t) \/ s_delete(t) \/ s_get_file(t)
          \/ s_list_users(t) \/ s_list_content(t)
        BY <1>1 DEF Avanza, Paso, Llega, CreaRpc, RpcNoCreado, LeeCabecera,
                    CabeceraFalla, Desconocida, Entra, LeeArgs, ArgsFallan, Busca,
                    EnviaEntrada, EntradaFalla, TerminaLista, Responde, Registra, En
    <2> QED
        BY <2>1, CodigoSolo, FicherosSolo, GetFileSolo, ListUsersSolo, ListContentSolo
<1>2. CASE pc[t] = "send"
    <2>1. EnviaEntrada(t) \/ EntradaFalla(t) \/ TerminaLista(t)
        BY <1>2 DEF Avanza, Paso, Llega, CreaRpc, RpcNoCreado, LeeCabecera,
                    CabeceraFalla, Desconocida, Entra, LeeArgs, ArgsFallan, Busca,
                    s_register, s_unregister, s_connect, s_disconnect, s_publish,
                    s_delete, s_get_file, s_list_users, s_list_content, Atiende,
                    Responde, Registra, En
    <2>2. Op(t) \in {"list_users", "list_content"}
        BY <1>2, Partes DEF ListInv
    <2>3. CASE EnviaEntrada(t)
        BY <1>2, <2>3 DEF EnviaEntrada, Sigue, store
    <2>4. CASE EntradaFalla(t)
        <3> DEFINE e == IF Op(t) = "list_users" THEN 3 ELSE 4
        <3>1. EnvioFalla(t, e)
            BY <2>4 DEF EntradaFalla
        <3>2. Renuncia(t, e) /\ e # 0
            BY <2>2 DEF Renuncia
        <3> QED
            BY <3>1, <3>2, EnvioCede
    <2>5. CASE TerminaLista(t)
        BY <2>2, <2>5, TerminaUsuarios, TerminaContenido
    <2> QED
        BY <2>1, <2>3, <2>4, <2>5
<1> QED
    BY <1>1, <1>2

LEMMA Invariante5 == Spec => []IInv5
<1>1. Init => IInv5
    BY InitIInv5
<1>2. IInv5 /\ [Next]_vars => IInv5'
    BY StepIInv5
<1> QED
    BY <1>1, <1>2, PTL DEF Spec

\* Beside any other threads, in front of any clients and in any store, names
\* registered twice included, a handler answers, sends and changes what it would
\* with nobody else about, or its client is gone and it changes nothing
\* (server.c 250-940).
THEOREM HandlersServeAsAlone == Spec => ServesAsAlone
<1> DEFINE Solo(t) ==
        pc[t] \in {"apply", "send"} /\ resp'[t] # resp[t] =>
           \/ /\ resp'[t] = CodigoDe(almacen, args[t])
              /\ almacen' = IF resp'[t] = 0 THEN AlmacenTras(almacen, args[t])
                                           ELSE almacen
              /\ resp'[t] = 0 => {sent'[t][n] : n \in 1 .. Len(sent'[t])}
                                   = ItemsDe(almacen, args[t])
           \/ Ido(t) /\ resp'[t] # 0 /\ almacen' = almacen
<1>1. ASSUME IInv5, [Next]_vars, NEW t \in Threads PROVE Solo(t)
    <2> SUFFICES ASSUME pc[t] \in {"apply", "send"}, resp'[t] # resp[t]
                 PROVE  Solo(t)
        OBVIOUS
    <2>1. Avanza(t)
        <3>1. \E s \in Threads : Avanza(s)
            BY <1>1 DEF Next, Avanza, Parado, vars
        <3>2. PICK s \in Threads : Avanza(s)
            BY <3>1
        <3> QED
            BY <1>1, <3>2, Partes, Ajenos
    <2>2. \A c : Devuelve(t, c) => resp'[t] = c
        BY <1>1, Partes DEF Devuelve, DataInv
    <2>3. CASE Atendida(t)
        BY <2>2, <2>3 DEF Atendida, Debido
    <2>4. CASE Cede(t)
        BY <2>2, <2>4 DEF Cede, Rechaza, store
    <2>5. CASE Sigue(t) \/ Muere
        BY <2>5 DEF Sigue, Muere
    <2> QED
        BY <1>1, <2>1, <2>3, <2>4, <2>5, HandlerSolo
<1>2. IInv5 /\ [Next]_vars => \A t \in Threads : Solo(t)
    BY <1>1
<1> QED
    BY <1>2, Invariante5, PTL DEF Spec, ServesAsAlone

-----------------------------------------------------------------------------
(* The steps of the directory.                                             *)

\* A thread whose handler has not returned has given no answer.
LEMMA SinRespuesta ==
    ASSUME NuevoInv, NEW t \in Threads, pc[t] \in Previos \cup {"send"}
    PROVE  resp[t] = NoResp /\ Resp[t] = Dir!NoAns
<1>1. resp[t] = NoResp
    BY DEF NuevoInv
<1>2. RespuestaDe(t) = [code |-> NoResp, items |-> {}]
    BY <1>1 DEF RespuestaDe, NoResp
<1> QED
    BY <1>1, <1>2 DEF Resp, Dir!NoAns, Dir!NoResp, NoResp

LEMMA RespCambia ==
    ASSUME DataInv, NEW t \in Threads, Avanza(t)
    PROVE  Resp' = [Resp EXCEPT ![t] = RespuestaDe(t)']
<1>1. \A s \in Threads : s # t => RespuestaDe(s)' = RespuestaDe(s)
    BY Ajenos DEF RespuestaDe
<1> QED
    BY <1>1 DEF Resp

LEMMA RespIgual ==
    ASSUME DataInv, NEW t \in Threads, Avanza(t), resp'[t] = resp[t],
           resp[t] # 0 \/ sent'[t] = sent[t]
    PROVE  Resp' = Resp
<1>1. RespuestaDe(t)' = RespuestaDe(t)
    BY DEF RespuestaDe
<1>2. \A s \in Threads : s # t => RespuestaDe(s)' = RespuestaDe(s)
    BY Ajenos DEF RespuestaDe
<1>3. \A s \in Threads : RespuestaDe(s)' = RespuestaDe(s)
    BY <1>1, <1>2
<1> QED
    BY <1>3 DEF Resp

LEMMA ClienteIgual ==
    ASSUME CtlInv, ThreadInv, NEW t \in Threads, Avanza(t), req'[t] = req[t],
           pc[t] # "idle", pc'[t] # "idle"
    PROVE  Idos' = Idos /\ Said' = Said
<1>1. \A s \in Threads : s # t => pc'[s] = pc[s] /\ req'[s] = req[s]
    BY Frame
<1>2. \A s \in Threads : (pc'[s] # "idle" /\ Ido(s)') <=> (pc[s] # "idle" /\ Ido(s))
    BY <1>1 DEF Ido
<1>3. \A s \in Threads : Enviado(s)' = Enviado(s)
    BY <1>1 DEF Enviado
<1> QED
    BY <1>2, <1>3 DEF Idos, Said

\* A step that answers nothing and leaves the store changes nothing.
LEMMA Quieto ==
    ASSUME CtlInv, ThreadInv, DataInv, NuevoInv, NEW t \in Threads, Avanza(t),
           pc[t] # "idle", pc'[t] # "idle", resp'[t] = resp[t],
           resp[t] # 0 \/ sent'[t] = sent[t],
           UNCHANGED <<almacen, args, req>>
    PROVE  UNCHANGED Dir!vars
<1>1. Resp' = Resp
    BY RespIgual
<1>2. Idos' = Idos /\ Said' = Said
    BY ClienteIgual
<1> QED
    BY <1>1, <1>2 DEF Dir!vars, Resp, Idos, Said

\* The answer of the handler that returns c.
LEMMA Devuelta ==
    ASSUME CtlInv, ThreadInv, DataInv, NuevoInv, NEW t \in Threads, Avanza(t),
           pc[t] # "idle", NEW c, Devuelve(t, c), args' = args
    PROVE  /\ Resp' = [Resp EXCEPT ![t] =
                         [code  |-> c,
                          items |-> IF c = 0
                                    THEN {sent'[t][n] : n \in 1 .. Len(sent'[t])}
                                    ELSE {}]]
           /\ Idos' = Idos /\ Said' = Said
<1>1. /\ resp'[t] = c /\ req' = req
      /\ pc'[t] \in {"log", "reply"}
    BY DEF Devuelve, Va, CtlInv, DataInv
<1>2. Idos' = Idos /\ Said' = Said
    BY <1>1, ClienteIgual
<1>3. RespuestaDe(t)' = [code  |-> c,
                         items |-> IF c = 0
                                   THEN {sent'[t][n] : n \in 1 .. Len(sent'[t])}
                                   ELSE {}]
    BY <1>1 DEF RespuestaDe
<1> QED
    BY <1>2, <1>3, RespCambia

LEMMA ArgsLeidos ==
    ASSUME ThreadInv, NEW t \in Threads, pc[t] \in {"search", "apply", "send"}
    PROVE  args[t] \in Peticion /\ args[t] # NoArgs
    BY ServidorAssumption DEF ThreadInv, ServidorAssumption

\* While names stay unique, what the handler owes is what the directory gives.
LEMMA Servida ==
    ASSUME IInv5, UniqueNames, UniqueNames', NEW t \in Threads, Avanza(t),
           pc[t] \in {"apply", "send"}, Atendida(t)
    PROVE  Dir!Serve(t)
<1> DEFINE r == args[t]
           c == Debido(t)
           E == {sent'[t][n] : n \in 1 .. Len(sent'[t])}
<1>0. CtlInv /\ ThreadInv /\ DataInv /\ NuevoInv
    BY Partes
<1>1. r # NoArgs /\ r \in Peticion /\ r.op = Op(t)
    BY <1>0, ArgsLeidos, Busqueda
<1>2. Resp[t] = Dir!NoAns
    BY <1>0, SinRespuesta DEF Previos
<1>3. Solido(almacen)
    BY Partes DEF Solido, FilesUnique, PedidoInv, ConDireccion
<1>4. Op(t) \in Ops
    <2>1. CASE pc[t] = "send"
        BY <2>1, Partes DEF ListInv, Ops
    <2>2. CASE pc[t] = "apply"
        BY <2>2 DEF Avanza, Paso, Llega, CreaRpc, RpcNoCreado, LeeCabecera,
                    CabeceraFalla, Desconocida, Entra, LeeArgs, ArgsFallan, Busca,
                    EnviaEntrada, EntradaFalla, TerminaLista, Responde, Registra,
                    s_register, s_unregister, s_connect, s_disconnect, s_publish,
                    s_delete, s_get_file, s_list_users, s_list_content, Atiende,
                    En, Ops
    <2> QED
        BY <2>1, <2>2
<1>5. Aplicable(r)
    BY <1>1, <1>4 DEF Aplicable, Peticion, Ops, R!Operations
<1>6. ~Repite(almacen, r)
    <2> SUFFICES ASSUME r.op = "register", Registrado(almacen, r.user),
                        ~EstaEnUso(almacen, r.user)
                 PROVE  FALSE
        BY DEF Repite
    <2>1. ~Hay(t)
        <3>1. Encuentra("register", r.user, idx[t])
            BY <1>1, Partes DEF IndexFresh
        <3> QED
            BY <3>1 DEF Encuentra, Halla, Hay
    <2>2. c = 0
        BY <1>1, <2>1, CodigoVisto
    <2>3. almacen' = Append(almacen, TuplaVacia(r.user))
        BY <2>2 DEF Atendida, AlmacenTras
    <2>4. PICK j \in 1 .. Len(almacen) : almacen[j].cliente = r.user
        BY DEF Registrado
    <2>5. TuplaVacia(r.user) \in Tupla /\ TuplaVacia(r.user).cliente = r.user
        BY <1>1, EmptySeq DEF TuplaVacia, Tupla, Peticion
    <2>6. almacen \in Seq(Tupla) /\ Len(almacen) \in Nat
        BY Partes, LenProperties
    <2>7. /\ Len(almacen') = Len(almacen) + 1
          /\ almacen'[j] = almacen[j]
          /\ almacen'[Len(almacen) + 1] = TuplaVacia(r.user)
        BY <2>3, <2>5, <2>6, AppendProperties
    <2>8. j = Len(almacen) + 1
        BY <2>4, <2>5, <2>6, <2>7 DEF UniqueNames, NombresUnicos
    <2> QED
        BY <2>6, <2>8
<1>7. /\ c = R!Code(D, r)
      /\ c = 0 => /\ ItemsDe(almacen, r) = R!Items(D, r)
                  /\ DirectorioDe(AlmacenTras(almacen, r)) = R!Effect(D, r)
    BY <1>3, <1>5, <1>6, Prometido DEF UniqueNames, D, Debido
<1>8. /\ c = Dir!Code(D, r)
      /\ c = 0 => E = Dir!Items(D, r)
      /\ DirectorioDe(almacen') = IF c = 0 THEN Dir!Effect(D, r) ELSE D
    BY <1>7, MismaPromesa DEF Atendida, D
<1> DEFINE x == [code |-> c, items |-> IF c = 0 THEN E ELSE {}]
<1>9. Resp' = [Resp EXCEPT ![t] = x] /\ Idos' = Idos /\ Said' = Said
    BY <1>0, Devuelta DEF Atendida
<1>10. x = Dir!Answer(D, r)
    BY <1>8 DEF Dir!Answer
<1> HIDE DEF x, c, E
<1>11. Resp' = [Resp EXCEPT ![t] = Dir!Answer(D, r)]
    BY <1>9, <1>10
<1>12. D' = IF Dir!Code(D, r) = 0 THEN Dir!Effect(D, r) ELSE D
    BY <1>8 DEF D
<1>13. args' = args
    BY DEF Atendida
<1> QED
    BY <1>1, <1>2, <1>9, <1>11, <1>12, <1>13 DEF Dir!Serve, D, Resp, Idos, Said

\* The handler gives up: its client has gone.
LEMMA Abandonada ==
    ASSUME IInv5, NEW t \in Threads, Avanza(t), Ido(t), NEW e, Rechaza(t, e), e # 0,
           \/ /\ pc[t] = "args" /\ e \in {2, 3, 4}
              /\ ~Completa(t)
           \/ pc[t] \in {"apply", "send"} /\ Renuncia(t, e)
    PROVE  Dir!GiveUp(t)
<1>0. CtlInv /\ ThreadInv /\ DataInv /\ NuevoInv /\ PedidoInv
    BY Partes
<1>1. Resp[t] = Dir!NoAns
    BY <1>0, SinRespuesta DEF Previos
<1>2. Devuelve(t, e) /\ args' = args /\ almacen' = almacen
    BY DEF Rechaza, store
<1>3. /\ Resp' = [Resp EXCEPT ![t] = [code |-> e, items |-> {}]]
      /\ Idos' = Idos /\ Said' = Said
    BY <1>0, <1>2, Devuelta
<1>4. t \in {s \in Threads : pc[s] # "idle" /\ Ido(s)}
    OBVIOUS
<1>5. pc[t] = "args" => args[t] = NoArgs
    BY <1>0 DEF PedidoInv
<1>6. pc[t] # "args" => args[t] # NoArgs /\ args[t].op = Op(t)
    BY <1>0, ArgsLeidos DEF PedidoInv
<1>7. ASSUME NEW C, e \in C PROVE Dir!Fail(t, C)
    BY <1>1, <1>2, <1>3, <1>7 DEF Dir!Fail, Resp, Idos, Said
<1>8. CASE pc[t] = "args"
    <2>1. Dir!Fail(t, {2, 3, 4})
        BY <1>7, <1>8 DEF Renuncia
    <2>2. req[t] \in Cliente /\ Op(t) \in Ops /\ req[t].lines > 0
        BY <1>0, <1>8 DEF ThreadInv, PedidoInv
    <2>3. "op" \in DOMAIN Said[t] /\ Said[t].op = Op(t)
        BY <1>8, <2>2, OpEnviada
    <2>4. ~(Dir!Arguments(Op(t)) \subseteq DOMAIN Said[t])
        BY <1>8, <2>2, RecibidaEnviada
    <2>5. ~Dir!Whole(Said[t])
        BY <2>3, <2>4 DEF Dir!Whole
    <2> QED
        BY <1>4, <1>5, <1>8, <2>1, <2>5 DEF Dir!GiveUp, Said
<1>9. CASE pc[t] # "args"
    <2>1. CASE Op(t) = "list_users" /\ e = 3
        <3>1. Dir!Fail(t, {3})
            BY <1>7, <2>1
        <3> QED
            BY <1>4, <1>6, <1>9, <2>1, <3>1 DEF Dir!GiveUp
    <2>2. CASE Op(t) = "list_content" /\ e = 4
        <3>1. Dir!Fail(t, {4})
            BY <1>7, <2>2
        <3> QED
            BY <1>4, <1>6, <1>9, <2>2, <3>1 DEF Dir!GiveUp
    <2>3. CASE Op(t) = "get_file" /\ e \in {-1, 2}
        <3>1. Dir!Fail(t, {-1, 2})
            BY <1>7, <2>3
        <3> QED
            BY <1>4, <1>6, <1>9, <2>3, <3>1 DEF Dir!GiveUp
    <2> QED
        BY <1>9, <2>1, <2>2, <2>3 DEF Renuncia
<1> QED
    BY <1>8, <1>9

\* The death of the process leaves the directory as it was.
LEMMA MuereQuieto ==
    ASSUME Muere
    PROVE  UNCHANGED Dir!vars
<1>1. UNCHANGED <<almacen, args, pc, req, resp, sent>>
    BY DEF Muere, local
<1> QED
    BY <1>1 DEF Dir!vars, RespuestaDe, Ido, Enviado

\* What a step of thread t may be in the directory.
Admite(t) ==
    \/ Dir!Arrive(t)
    \/ \E r \in Peticion : Dir!Read(t, r)
    \/ Dir!Serve(t)
    \/ Dir!Reject(t)
    \/ Dir!GiveUp(t)
    \/ UNCHANGED Dir!vars

LEMMA HandlerAdmitido ==
    ASSUME IInv5, UniqueNames, UniqueNames', NEW t \in Threads, Avanza(t),
           pc[t] \in {"apply", "send"}
    PROVE  Admite(t)
<1>1. CASE Atendida(t)
    BY <1>1, Servida DEF Admite
<1>2. CASE Cede(t)
    BY <1>2, Abandonada DEF Cede, Admite
<1>3. CASE Sigue(t)
    <2>1. resp[t] # 0 /\ pc[t] # "idle" /\ pc'[t] # "idle"
        BY <1>3, Partes DEF NuevoInv, NoResp, Previos, Sigue
    <2>2. UNCHANGED Dir!vars
        BY <1>3, <2>1, Partes, Quieto DEF Sigue
    <2> QED
        BY <2>2 DEF Admite
<1>4. CASE Muere
    BY <1>4, MuereQuieto DEF Admite
<1> QED
    BY <1>1, <1>2, <1>3, <1>4, HandlerSolo

-----------------------------------------------------------------------------
(* The other steps of a thread.                                            *)

LEMMA LlegaViene ==
    ASSUME IInv5, NEW t \in Threads, Avanza(t), NEW c \in Cliente, Llega(t, c)
    PROVE  Admite(t)
<1>1. /\ pc[t] = "idle" /\ pc'[t] = "start" /\ req'[t] = c
      /\ UNCHANGED <<almacen, args, resp, sent>>
    BY Partes DEF Llega, En, Va, CtlInv, ThreadInv, store, local
<1>2. Resp' = Resp
    BY <1>1, Partes, RespIgual
<1>3. \A s \in Threads : s # t => pc'[s] = pc[s] /\ req'[s] = req[s]
    BY Partes, Frame
<1>4. \A s \in Threads : s # t =>
         /\ (pc'[s] # "idle" /\ Ido(s)') <=> (pc[s] # "idle" /\ Ido(s))
         /\ Enviado(s)' = Enviado(s)
    BY <1>3 DEF Ido, Enviado
<1>5. Idos' \in {Idos, Idos \cup {t}}
    BY <1>1, <1>4 DEF Idos
<1>6. Said' = [Said EXCEPT ![t] = Said'[t]]
    BY <1>4 DEF Said
<1>7. Said[t] = Dir!Nothing
    BY <1>1 DEF Said, Enviado, Dir!Nothing
<1>8. args[t] = NoArgs /\ Resp[t] = Dir!NoAns
    BY <1>1, Partes, SinRespuesta DEF PedidoInv, Previos
<1>9. c.pet \in Peticion
    BY ServidorAssumption DEF ServidorAssumption, Cliente
<1>10. Dir!Completes(c.pet, Said'[t])
    <2>1. Said'[t] = [f \in Llegan(c) |-> c.pet[f]]
        BY <1>1 DEF Said, Enviado, Llegan
    <2> QED
        BY <2>1 DEF Dir!Completes
<1>11. D' = D
    BY <1>1 DEF D
<1>12. Dir!Arrive(t)
    BY <1>1, <1>2, <1>5, <1>6, <1>7, <1>8, <1>9, <1>10, <1>11
    DEF Dir!Arrive, D, Resp, Idos, Said
<1> QED
    BY <1>12 DEF Admite

LEMMA LeeArgsLee ==
    ASSUME IInv5, NEW t \in Threads, Avanza(t), LeeArgs(t)
    PROVE  Admite(t)
<1>1. /\ pc[t] = "args" /\ pc'[t] = "search"
      /\ UNCHANGED <<almacen, req, resp, sent>>
    BY Partes DEF LeeArgs, En, Va, CtlInv, store, local
<1>2. req[t] \in Cliente /\ Op(t) \in Ops /\ req[t].lines > 0
    BY <1>1, Partes DEF ThreadInv, PedidoInv
<1>3. PICK g \in Pila(t) : args' = [args EXCEPT ![t] = Recibida(t, g)]
    BY DEF LeeArgs
<1>4. Recibida(t, g) \in Peticion
    BY <1>2, RecibidaType
<1>5. args[t] = NoArgs
    BY <1>1, Partes DEF PedidoInv
<1>6. Resp[t] = Dir!NoAns
    BY <1>1, Partes, SinRespuesta DEF Previos
<1>7. Resp' = Resp /\ Idos' = Idos /\ Said' = Said
    BY <1>1, Partes, RespIgual, ClienteIgual
<1>8. "op" \in DOMAIN Said[t] /\ Said[t].op = Op(t)
    BY <1>1, <1>2, OpEnviada
<1>9. Dir!Named(Said[t])
    BY <1>2, <1>8 DEF Dir!Named, Dir!Operations, Ops
<1>10. Dir!Completes(Recibida(t, g), Said[t])
    BY <1>1, <1>2, RecibidaEnviada
<1>11. Dir!Whole(Said[t]) \/ t \in Idos
    <2>1. CASE Ido(t)
        BY <1>1, <2>1 DEF Idos
    <2>2. CASE ~Ido(t)
        <3>1. Completa(t) /\ req[t].end # "resets"
            BY <2>2 DEF LeeArgs, Ido
        <3>2. Dir!Arguments(Op(t)) \subseteq DOMAIN Said[t]
            BY <1>1, <1>2, <3>1, RecibidaEnviada
        <3> QED
            BY <1>8, <1>9, <3>2 DEF Dir!Whole
    <2> QED
        BY <2>1, <2>2
<1>12. Dir!Read(t, Recibida(t, g))
    BY <1>1, <1>3, <1>5, <1>6, <1>7, <1>9, <1>10, <1>11
    DEF Dir!Read, Resp, Idos, Said
<1> QED
    BY <1>4, <1>12 DEF Admite

LEMMA DesconocidaNiega ==
    ASSUME IInv5, NEW t \in Threads, Avanza(t), Desconocida(t)
    PROVE  Admite(t)
<1>1. pc[t] = "header" /\ Op(t) = "otra" /\ CabeceraLeida(t)
    BY DEF Desconocida, En
<1>2. CASE Muere
    BY <1>2, MuereQuieto DEF Admite
<1>3. CASE ~Muere
    <2>1. /\ resp' = [resp EXCEPT ![t] = -1] /\ pc'[t] = "reply"
          /\ UNCHANGED <<almacen, args, req>>
        BY <1>3, Partes DEF Desconocida, Va, CtlInv, store
    <2>2. resp'[t] = -1
        BY <2>1, Partes DEF DataInv
    <2>3. RespuestaDe(t)' = [code |-> -1, items |-> {}]
        BY <2>2 DEF RespuestaDe
    <2>4. Resp' = [Resp EXCEPT ![t] = [code |-> -1, items |-> {}]]
        BY <2>3, Partes, RespCambia
    <2>5. Idos' = Idos /\ Said' = Said
        BY <1>1, <2>1, Partes, ClienteIgual
    <2>6. args[t] = NoArgs /\ Resp[t] = Dir!NoAns
        BY <1>1, Partes, SinRespuesta DEF PedidoInv, Previos
    <2>7. Dir!Fail(t, {-1})
        BY <2>1, <2>4, <2>5, <2>6 DEF Dir!Fail, Resp, Idos, Said
    <2>8. req[t].lines > 0
        <3>1. req[t] \in Cliente
            BY <1>1, Partes DEF ThreadInv
        <3>2. req[t].lines \in 0 .. 5
            BY <3>1 DEF Cliente
        <3> QED
            BY <1>1, <3>2 DEF CabeceraLeida
    <2>9. "op" \in DOMAIN Said[t] /\ Said[t].op \notin Dir!Operations
        BY <1>1, <2>8, OpEnviada DEF Dir!Operations
    <2>10. Dir!Reject(t)
        BY <2>6, <2>7, <2>9 DEF Dir!Reject, Said
    <2> QED
        BY <2>10 DEF Admite
<1> QED
    BY <1>2, <1>3

LEMMA ArgsFallanAbandona ==
    ASSUME IInv5, NEW t \in Threads, Avanza(t), ArgsFallan(t)
    PROVE  Admite(t)
<1>1. /\ pc[t] = "args" /\ Ido(t) /\ ~Completa(t)
      /\ Rechaza(t, CodigoError(Op(t)))
    BY DEF ArgsFallan, En, Ido, Rechaza
<1>2. Op(t) \in Ops
    BY <1>1, Partes DEF ThreadInv
<1>3. CodigoError(Op(t)) \in {2, 3, 4}
    BY <1>2 DEF CodigoError, Ops
<1> QED
    BY <1>1, <1>3, Abandonada DEF Admite

\* The steps that only move their thread.
Callado(t) ==
    \/ CreaRpc(t) \/ RpcNoCreado(t) \/ LeeCabecera(t) \/ CabeceraFalla(t)
    \/ Entra(t) \/ Busca(t) \/ Responde(t) \/ Registra(t)

LEMMA CalladoQuieto ==
    ASSUME IInv5, NEW t \in Threads, Avanza(t), Callado(t)
    PROVE  Admite(t)
<1> DEFINE Solo ==
           /\ pc[t] # "idle" /\ pc'[t] # "idle" /\ resp' = resp
           /\ sent' = sent
           /\ UNCHANGED <<almacen, args, req>>
<1>0. CtlInv /\ NuevoInv /\ pc \in [Threads -> Lugares]
    BY Partes DEF CtlInv
<1> USE DEF En, Va, store, local
<1>1. ASSUME CreaRpc(t) PROVE Solo
    BY <1>0, <1>1 DEF CreaRpc
<1>2. ASSUME RpcNoCreado(t) PROVE Solo
    BY <1>0, <1>2 DEF RpcNoCreado
<1>3. ASSUME LeeCabecera(t) PROVE Solo
    BY <1>0, <1>3 DEF LeeCabecera
<1>4. ASSUME CabeceraFalla(t) PROVE Solo
    BY <1>0, <1>4 DEF CabeceraFalla
<1>5. ASSUME Entra(t) PROVE Solo
    BY <1>0, <1>5 DEF Entra
<1>6. ASSUME Busca(t) PROVE Solo
    BY <1>0, <1>6 DEF Busca
<1>7. ASSUME Responde(t) PROVE Solo \/ Muere
    BY <1>0, <1>7 DEF Responde
<1>8. ASSUME Registra(t) PROVE Solo
    BY <1>0, <1>8 DEF Registra
<1>9. ASSUME Solo PROVE Admite(t)
    <2>1. UNCHANGED Dir!vars
        BY <1>9, Partes, Quieto
    <2> QED
        BY <2>1 DEF Admite
<1>10. ASSUME Muere PROVE Admite(t)
    BY <1>10, MuereQuieto DEF Admite
<1> HIDE DEF Solo
<1> QED
    BY <1>1, <1>2, <1>3, <1>4, <1>5, <1>6, <1>7, <1>8, <1>9, <1>10 DEF Callado

\* Every step of a thread is one of the directory or changes nothing in it.
LEMMA PasoAdmitido ==
    ASSUME IInv5, UniqueNames, UniqueNames', NEW t \in Threads, Avanza(t)
    PROVE  Admite(t)
<1>1. ASSUME NEW c \in Cliente, Llega(t, c) PROVE Admite(t)
    BY <1>1, LlegaViene
<1>2. CASE Callado(t)
    BY <1>2, CalladoQuieto
<1>3. CASE Desconocida(t) \/ LeeArgs(t) \/ ArgsFallan(t)
    BY <1>3, DesconocidaNiega, LeeArgsLee, ArgsFallanAbandona
<1>4. CASE pc[t] \in {"apply", "send"}
    BY <1>4, HandlerAdmitido
<1> QED
    BY <1>1, <1>2, <1>3, <1>4
    DEF Avanza, Paso, Callado, s_register, s_unregister, s_connect, s_disconnect,
        s_publish, s_delete, s_get_file, s_list_users, s_list_content, Atiende,
        EnviaEntrada, EntradaFalla, TerminaLista, En

-----------------------------------------------------------------------------
(* The refinement.                                                         *)

\* A store the server may have loaded is a directory.
LEMMA InitDirectorio ==
    ASSUME Init, UniqueNames
    PROVE  Dir!Init
<1>0. IInv5
    BY InitIInv5
<1>1. \A t \in Threads : RespuestaDe(t) = Dir!NoAns
    BY DEF Init, RespuestaDe, NoResp, Dir!NoAns, Dir!NoResp
<1>2. Resp = [t \in Threads |-> Dir!NoAns]
    BY <1>1 DEF Resp
<1>3. Idos = {} /\ Said = [t \in Threads |-> Dir!Nothing]
    BY DEF Init, Idos, Said, Enviado, Dir!Nothing
<1>4. args = [t \in Threads |-> NoArgs]
    BY DEF Init
<1>5. Solido(almacen)
    BY <1>0, Partes DEF Solido, FilesUnique, PedidoInv, ConDireccion
<1>6. Dir!IsDirectory(D)
    BY <1>5, EsDirectorio, MismaPromesa DEF UniqueNames, D
<1> QED
    BY <1>2, <1>3, <1>4, <1>6 DEF Dir!Init, D, Resp, Idos, Said

LEMMA NextDirectorio ==
    ASSUME IInv5, [Next]_vars, UniqueNames, UniqueNames'
    PROVE  UNCHANGED Dir!vars \/ Dir!Next
<1>1. ASSUME NEW t \in Threads, Avanza(t) PROVE Dir!Next \/ UNCHANGED Dir!vars
    <2>1. Admite(t)
        BY <1>1, PasoAdmitido
    <2> QED
        BY <2>1 DEF Admite, Dir!Next
<1>2. ASSUME UNCHANGED vars PROVE UNCHANGED Dir!vars
    BY <1>2 DEF vars, local, Dir!vars, RespuestaDe, Ido, Enviado
<1> QED
    BY <1>1, <1>2 DEF Next, Avanza, Parado

\* While no name is registered twice, every step of every thread, whatever the
\* others do and wherever a client goes away, is a step of the directory of
\* module Directorio or changes nothing in it (server.c 134-912).
THEOREM ServerIsDirectory == Spec => ImplementsDirectorio
<1>1. Init => (UniqueNames => Dir!Init)
    BY InitDirectorio
<1>2. IInv5 /\ [Next]_vars =>
         [UniqueNames /\ UniqueNames' => UNCHANGED Dir!vars \/ Dir!Next]_vars
    BY NextDirectorio
<1> QED
    BY <1>1, <1>2, Invariante5, PTL DEF Spec, ImplementsDirectorio
=============================================================================
