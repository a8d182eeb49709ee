----------------------- MODULE ServidorAccionesProofs -----------------------
(***************************************************************************)
(* What the requests of the concurrent server do to the users and to the   *)
(* answers of others, for any threads, clients and stores: who is online   *)
(* stays online, published files stay published, the tuples of others are  *)
(* not touched, every update is one that the checks let through in the     *)
(* store it changes, and a listing is the store at one instant.            *)
(***************************************************************************)
EXTENDS ServidorProofs

\* The places of a thread that has not answered yet.
Previos == {"idle", "start", "header", "lock", "args", "search", "apply"}

\* A thread has no code before its handler returns, and has sent nothing
\* before the entries of a listing.
NuevoInv ==
    \A t \in Threads :
        /\ pc[t] \in Previos => resp[t] = NoResp /\ sent[t] = <<>> /\ pos[t] = 0
        /\ pc[t] = "send" => resp[t] = NoResp

-----------------------------------------------------------------------------
(* One step.                                                               *)

\* A step of t leaves what another thread has answered.
LEMMA Ajenos ==
    ASSUME DataInv, NEW t \in Threads, Avanza(t), NEW s \in Threads, s # t
    PROVE  pos'[s] = pos[s] /\ sent'[s] = sent[s] /\ resp'[s] = resp[s]
<1> DEFINE Iguales == pos'[s] = pos[s] /\ sent'[s] = sent[s] /\ resp'[s] = resp[s]
<1> USE DEF DataInv, local
<1>1. ASSUME NEW c \in Cliente, Llega(t, c) PROVE Iguales
    BY <1>1 DEF Llega
<1>2. ASSUME CreaRpc(t) PROVE Iguales
    BY <1>2 DEF CreaRpc
<1>3. ASSUME RpcNoCreado(t) PROVE Iguales
    BY <1>3 DEF RpcNoCreado
<1>4. ASSUME LeeCabecera(t) PROVE Iguales
    BY <1>4 DEF LeeCabecera
<1>5. ASSUME CabeceraFalla(t) PROVE Iguales
    BY <1>5 DEF CabeceraFalla
<1>6. ASSUME Desconocida(t) PROVE Iguales
    BY <1>6 DEF Desconocida, Muere
<1>7. ASSUME Entra(t) PROVE Iguales
    BY <1>7 DEF Entra
<1>8. ASSUME LeeArgs(t) PROVE Iguales
    BY <1>8 DEF LeeArgs
<1>9. ASSUME ArgsFallan(t) PROVE Iguales
    BY <1>9 DEF ArgsFallan, Devuelve
<1>10. ASSUME Busca(t) PROVE Iguales
    BY <1>10 DEF Busca
<1>11. ASSUME s_register(t) PROVE Iguales
    BY <1>11 DEF s_register, Atiende, Rechaza, Cambia, Devuelve, Muere
<1>12. ASSUME s_unregister(t) PROVE Iguales
    BY <1>12 DEF s_unregister, Atiende, Rechaza, Cambia, Devuelve
<1>13. ASSUME s_connect(t) PROVE Iguales
    BY <1>13 DEF s_connect, Atiende, Rechaza, Cambia, Devuelve
<1>14. ASSUME s_disconnect(t) PROVE Iguales
    BY <1>14 DEF s_disconnect, Atiende, Rechaza, Cambia, Devuelve
<1>15. ASSUME s_publish(t) PROVE Iguales
    BY <1>15 DEF s_publish, Atiende, Rechaza, Cambia, Devuelve
<1>16. ASSUME s_delete(t) PROVE Iguales
    BY <1>16 DEF s_delete, Atiende, Rechaza, Cambia, Devuelve
<1>17. ASSUME s_get_file(t) PROVE Iguales
    BY <1>17 DEF s_get_file, Atiende, EnviaCodigo, EnvioFalla, Rechaza,
           Devuelve, Muere
<1>18. ASSUME s_list_users(t) PROVE Iguales
    BY <1>18 DEF s_list_users, Atiende, EnviaCodigo, Empieza, EnvioFalla,
           Rechaza, Devuelve, Muere
<1>19. ASSUME s_list_content(t) PROVE Iguales
    BY <1>19 DEF s_list_content, Atiende, EnviaCodigo, Empieza, EnvioFalla,
           Rechaza, Devuelve, Muere
<1>20. ASSUME EnviaEntrada(t) PROVE Iguales
    BY <1>20 DEF EnviaEntrada
<1>21. ASSUME EntradaFalla(t) PROVE Iguales
    BY <1>21 DEF EntradaFalla, EnvioFalla, Rechaza, Devuelve, Muere
<1>22. ASSUME TerminaLista(t) PROVE Iguales
    BY <1>22 DEF TerminaLista, Rechaza, Devuelve
<1>23. ASSUME Responde(t) PROVE Iguales
    BY <1>23 DEF Responde, Muere
<1>24. ASSUME Registra(t) PROVE Iguales
    BY <1>24 DEF Registra
<1> QED
    BY <1>1, <1>2, <1>3, <1>4, <1>5, <1>6, <1>7, <1>8, <1>9, <1>10,
       <1>11, <1>12, <1>13, <1>14, <1>15, <1>16, <1>17, <1>18, <1>19,
       <1>20, <1>21, <1>22, <1>23, <1>24 DEF Paso, Avanza

\* A step of t does not answer before the handler.
LEMMA NuevoPropio ==
    ASSUME CtlInv, DataInv, NuevoInv, NEW t \in Threads, Avanza(t)
    PROVE  /\ pc'[t] \in Previos =>
                 resp'[t] = NoResp /\ sent'[t] = <<>> /\ pos'[t] = 0
           /\ pc'[t] = "send" => resp'[t] = NoResp
<1> DEFINE Nuevo == /\ pc'[t] \in Previos =>
                          resp'[t] = NoResp /\ sent'[t] = <<>> /\ pos'[t] = 0
                    /\ pc'[t] = "send" => resp'[t] = NoResp
<1> USE DEF CtlInv, DataInv, NuevoInv, Previos, En, Va, local
<1>1. ASSUME NEW c \in Cliente, Llega(t, c) PROVE Nuevo
    BY <1>1 DEF Llega
<1>2. ASSUME CreaRpc(t) PROVE Nuevo
    BY <1>2 DEF CreaRpc
<1>3. ASSUME RpcNoCreado(t) PROVE Nuevo
    BY <1>3 DEF RpcNoCreado
<1>4. ASSUME LeeCabecera(t) PROVE Nuevo
    BY <1>4 DEF LeeCabecera
<1>5. ASSUME CabeceraFalla(t) PROVE Nuevo
    BY <1>5 DEF CabeceraFalla
<1>6. ASSUME Desconocida(t) PROVE Nuevo
    BY <1>6 DEF Desconocida, Muere
<1>7. ASSUME Entra(t) PROVE Nuevo
    BY <1>7 DEF Entra
<1>8. ASSUME LeeArgs(t) PROVE Nuevo
    BY <1>8 DEF LeeArgs
<1>9. ASSUME ArgsFallan(t) PROVE Nuevo
    BY <1>9 DEF ArgsFallan, Devuelve
<1>10. ASSUME Busca(t) PROVE Nuevo
    BY <1>10 DEF Busca
<1>11. ASSUME s_register(t) PROVE Nuevo
    BY <1>11 DEF s_register, Atiende, Rechaza, Cambia, Devuelve, Muere
<1>12. ASSUME s_unregister(t) PROVE Nuevo
    BY <1>12 DEF s_unregister, Atiende, Rechaza, Cambia, Devuelve
<1>13. ASSUME s_connect(t) PROVE Nuevo
    BY <1>13 DEF s_connect, Atiende, Rechaza, Cambia, Devuelve
<1>14. ASSUME s_disconnect(t) PROVE Nuevo
    BY <1>14 DEF s_disconnect, Atiende, Rechaza, Cambia, Devuelve
<1>15. ASSUME s_publish(t) PROVE Nuevo
    BY <1>15 DEF s_publish, Atiende, Rechaza, Cambia, Devuelve
<1>16. ASSUME s_delete(t) PROVE Nuevo
    BY <1>16 DEF s_delete, Atiende, Rechaza, Cambia, Devuelve
<1>17. ASSUME s_get_file(t) PROVE Nuevo
    BY <1>17 DEF s_get_file, Atiende, EnviaCodigo, EnvioFalla, Rechaza,
           Devuelve, Muere
<1>18. ASSUME s_list_users(t) PROVE Nuevo
    BY <1>18 DEF s_list_users, Atiende, EnviaCodigo, Empieza, EnvioFalla,
           Rechaza, Devuelve, Muere
<1>19. ASSUME s_list_content(t) PROVE Nuevo
    BY <1>19 DEF s_list_content, Atiende, EnviaCodigo, Empieza, EnvioFalla,
           Rechaza, Devuelve, Muere
<1>20. ASSUME EnviaEntrada(t) PROVE Nuevo
    BY <1>20 DEF EnviaEntrada
<1>21. ASSUME EntradaFalla(t) PROVE Nuevo
    BY <1>21 DEF EntradaFalla, EnvioFalla, Rechaza, Devuelve, Muere
<1>22. ASSUME TerminaLista(t) PROVE Nuevo
    BY <1>22 DEF TerminaLista, Rechaza, Devuelve
<1>23. ASSUME Responde(t) PROVE Nuevo
    BY <1>23 DEF Responde, Muere
<1>24. ASSUME Registra(t) PROVE Nuevo
    BY <1>24 DEF Registra
<1> QED
    BY <1>1, <1>2, <1>3, <1>4, <1>5, <1>6, <1>7, <1>8, <1>9, <1>10,
       <1>11, <1>12, <1>13, <1>14, <1>15, <1>16, <1>17, <1>18, <1>19,
       <1>20, <1>21, <1>22, <1>23, <1>24 DEF Paso, Avanza

LEMMA NuevoStep ==
    ASSUME IInv, DataInv, NuevoInv, NEW t \in Threads, Avanza(t)
    PROVE  NuevoInv'
<1> SUFFICES ASSUME NEW s \in Threads
             PROVE  /\ pc'[s] \in Previos =>
                          resp'[s] = NoResp /\ sent'[s] = <<>> /\ pos'[s] = 0
                    /\ pc'[s] = "send" => resp'[s] = NoResp
    BY DEF NuevoInv, NoResp, Previos
<1>1. CASE s = t
    BY <1>1, NuevoPropio DEF IInv
<1>2. CASE s # t
    <2>1. pc'[s] = pc[s]
        BY <1>2, Frame DEF IInv
    <2> QED
        BY <1>2, <2>1, Ajenos DEF NuevoInv
<1> QED
    BY <1>1, <1>2

-----------------------------------------------------------------------------
(* The invariant.                                                          *)

IInv3 == IInv2 /\ NuevoInv

LEMMA InitIInv3 == Init => IInv3
    BY InitIInv2 DEF Init, IInv3, NuevoInv

LEMMA StepIInv3 == IInv3 /\ [Next]_vars => IInv3'
<1> SUFFICES ASSUME IInv3, [Next]_vars PROVE IInv3'
    OBVIOUS
<1>1. IInv2'
    BY StepIInv2 DEF IInv3
<1>2. ASSUME NEW t \in Threads, Avanza(t) PROVE NuevoInv'
    BY <1>2, NuevoStep DEF IInv3, IInv2
<1>3. ASSUME UNCHANGED vars PROVE NuevoInv'
    BY <1>3 DEF vars, local, IInv3, NuevoInv
<1>4. NuevoInv'
    BY <1>2, <1>3 DEF Next, Avanza, Parado
<1> QED
    BY <1>1, <1>4 DEF IInv3

LEMMA Invariante3 == Spec => []IInv3
    BY InitIInv3, StepIInv3, PTL DEF Spec

-----------------------------------------------------------------------------
(* How a step changes the store.                                           *)

Guarda(s, f) == f \in {s[k] : k \in 1 .. Len(s)}

ConDireccion(x) == x.connected = 1 => x.addr # NoAddr

\* A tuple of the user is changed in place.
Retoca(t) ==
    \E i \in 1 .. Len(almacen), x \in Tupla :
        /\ almacen' = [almacen EXCEPT ![i] = x]
        /\ almacen[i].cliente = args[t].user
        /\ x.cliente = args[t].user
        /\ Op(t) = "disconnect" \/ (almacen[i].connected = 1 => x.connected = 1)
        /\ \A f \in Fichero :
              \/ Guarda(almacen[i].files, f) => Guarda(x.files, f)
              \/ Op(t) = "delete" /\ args[t].file = f.name
        /\ ConDireccion(almacen[i]) => ConDireccion(x)

\* A tuple of the user, who is not connected, is inserted or removed.
Alta(t) == almacen' = Append(almacen, TuplaVacia(args[t].user))

Baja(t) ==
    /\ Op(t) = "unregister"
    /\ idx[t] \in 1 .. Len(almacen)
    /\ almacen[idx[t]].cliente = args[t].user
    /\ almacen[idx[t]].connected # 1
    /\ almacen' = Quitar(almacen, idx[t])

LEMMA ConectarRetoca ==
    ASSUME IInv, NEW t \in Threads, pc[t] = "apply", Hay(t),
           almacen' = Conectar(almacen, idx[t], args[t].addr)
    PROVE  Retoca(t)
<1> DEFINE i == idx[t]
           x == [almacen[i] EXCEPT !.connected = 1, !.addr = args[t].addr]
<1>1. /\ i \in 1 .. Len(almacen) /\ almacen[i] \in Tupla
      /\ almacen[i].cliente = args[t].user
    BY IndiceValido DEF IInv
<1>2. args[t].addr \in Addrs
    BY DEF IInv, ThreadInv, Peticion
<1>3. /\ x \in Tupla /\ x.files = almacen[i].files /\ x.connected = 1
      /\ x.cliente = almacen[i].cliente /\ x.addr = args[t].addr
    BY <1>1, <1>2 DEF Tupla
<1>4. almacen' = [almacen EXCEPT ![i] = x]
    BY <1>1 DEF Conectar
<1> HIDE DEF x
<1>5. ConDireccion(x)
    BY <1>2, <1>3, AlmacenAssumption DEF ConDireccion, AlmacenAssumption
<1> QED
    BY <1>1, <1>3, <1>4, <1>5 DEF Retoca

LEMMA DesconectarRetoca ==
    ASSUME IInv, NEW t \in Threads, pc[t] = "apply", Hay(t),
           Op(t) = "disconnect", almacen' = Desconectar(almacen, idx[t])
    PROVE  Retoca(t)
<1> DEFINE i == idx[t]
           x == [almacen[i] EXCEPT !.connected = 0]
<1>1. /\ i \in 1 .. Len(almacen) /\ almacen[i] \in Tupla
      /\ almacen[i].cliente = args[t].user
    BY IndiceValido DEF IInv
<1>2. /\ x \in Tupla /\ x.files = almacen[i].files
      /\ x.cliente = almacen[i].cliente /\ x.connected = 0
    BY <1>1 DEF Tupla
<1>3. almacen' = [almacen EXCEPT ![i] = x]
    BY <1>1 DEF Desconectar
<1> HIDE DEF x
<1>4. ConDireccion(x)
    BY <1>2 DEF ConDireccion
<1> QED
    BY <1>1, <1>2, <1>3, <1>4 DEF Retoca

LEMMA PublicarRetoca ==
    ASSUME IInv, NEW t \in Threads, pc[t] = "apply", Hay(t),
           almacen' = Publicar(almacen, idx[t], args[t].file, args[t].descr)
    PROVE  Retoca(t)
<1> DEFINE i == idx[t]
           e == [name |-> args[t].file, descr |-> args[t].descr]
           fs == Append(almacen[i].files, e)
           x == [almacen[i] EXCEPT !.files = fs]
<1>1. /\ i \in 1 .. Len(almacen) /\ almacen[i] \in Tupla
      /\ almacen[i].cliente = args[t].user
    BY IndiceValido DEF IInv
<1>2. e \in Fichero
    BY DEF IInv, ThreadInv, Peticion, Fichero
<1>3. almacen[i].files \in Seq(Fichero)
    BY <1>1 DEF Tupla
<1> HIDE DEF e
<1>4. /\ fs \in Seq(Fichero)
      /\ Len(fs) = Len(almacen[i].files) + 1
      /\ \A k \in 1 .. Len(almacen[i].files) : fs[k] = almacen[i].files[k]
    BY <1>2, <1>3, AppendProperties
<1>5. Len(almacen[i].files) \in Nat
    BY <1>3, LenProperties
<1>6. almacen' = [almacen EXCEPT ![i] = x]
    BY <1>1 DEF Publicar, e
<1> HIDE DEF fs
<1>7. /\ x \in Tupla /\ x.files = fs /\ x.connected = almacen[i].connected
      /\ x.cliente = almacen[i].cliente /\ x.addr = almacen[i].addr
    BY <1>1, <1>4 DEF Tupla
<1>8. \A f \in Fichero : Guarda(almacen[i].files, f) => Guarda(fs, f)
    BY <1>4, <1>5 DEF Guarda
<1> HIDE DEF x
<1>9. ConDireccion(almacen[i]) => ConDireccion(x)
    BY <1>7 DEF ConDireccion
<1> QED
    BY <1>1, <1>6, <1>7, <1>8, <1>9 DEF Retoca

LEMMA BorrarRetoca ==
    ASSUME IInv, NEW t \in Threads, pc[t] = "apply", Hay(t), Op(t) = "delete",
           NEW k \in 1 .. Len(Tupla_(t).files),
           EsUltimoFichero(Tupla_(t), args[t].file, k),
           almacen' = Borrar(almacen, idx[t], k)
    PROVE  Retoca(t)
<1> DEFINE i == idx[t]
           old == almacen[i].files
           fs == Quitar(old, k)
           x == [almacen[i] EXCEPT !.files = fs]
<1>1. /\ i \in 1 .. Len(almacen) /\ almacen[i] \in Tupla
      /\ almacen[i].cliente = args[t].user
    BY IndiceValido DEF IInv
<1>2. old \in Seq(Fichero) /\ k \in 1 .. Len(old) /\ old[k].name = args[t].file
    BY <1>1 DEF Tupla, Tupla_, EsUltimoFichero
<1>3. Len(old) \in Nat
    BY <1>2, LenProperties
<1>4. /\ fs \in Seq(Fichero)
      /\ Len(fs) = Len(old) - 1
      /\ \A j \in 1 .. Len(old) - 1 : fs[j] = IF j = k THEN old[Len(old)] ELSE old[j]
    BY <1>2, QuitarProps
<1>5. almacen' = [almacen EXCEPT ![i] = x]
    BY <1>1 DEF Borrar
<1> HIDE DEF fs
<1>6. /\ x \in Tupla /\ x.files = fs /\ x.connected = almacen[i].connected
      /\ x.cliente = almacen[i].cliente /\ x.addr = almacen[i].addr
    BY <1>1, <1>4 DEF Tupla
<1>7. ASSUME NEW f \in Fichero, Guarda(old, f), f.name # args[t].file
      PROVE  Guarda(fs, f)
    <2>1. PICK j \in 1 .. Len(old) : old[j] = f
        BY <1>7 DEF Guarda
    <2>2. j # k
        BY <1>2, <1>7, <2>1
    <2>3. CASE j = Len(old)
        <3>1. k \in 1 .. Len(old) - 1
            BY <1>2, <1>3, <2>2, <2>3
        <3>2. fs[k] = f
            BY <1>4, <2>1, <2>3, <3>1
        <3> QED
            BY <1>4, <3>1, <3>2 DEF Guarda
    <2>4. CASE j # Len(old)
        <3>1. j \in 1 .. Len(old) - 1
            BY <1>3, <2>4
        <3>2. fs[j] = f
            BY <1>4, <2>1, <2>2, <3>1
        <3> QED
            BY <1>4, <3>1, <3>2 DEF Guarda
    <2> QED
        BY <2>3, <2>4
<1> HIDE DEF x
<1>8. ConDireccion(almacen[i]) => ConDireccion(x)
    BY <1>6 DEF ConDireccion
<1> QED
    BY <1>1, <1>5, <1>6, <1>7, <1>8 DEF Retoca

\* A step that changes the store answers 0 and touches one tuple of the user
\* of the request.
LEMMA Cambios ==
    ASSUME IInv, DataInv, NuevoInv, NEW t \in Threads, Avanza(t),
           almacen' # almacen
    PROVE  Contesta(t, 0) /\ (Alta(t) \/ Baja(t) \/ Retoca(t))
<1>1. pc[t] = "apply"
    BY StoreKept
<1>2. resp[t] = NoResp
    BY <1>1 DEF NuevoInv, Previos
<1>3. ASSUME NEW a, Cambia(t, a) PROVE Contesta(t, 0)
    BY <1>2, <1>3 DEF Cambia, Devuelve, Contesta, DataInv
<1> USE DEF Atiende, Rechaza, store
<1>4. ASSUME s_register(t) PROVE Contesta(t, 0) /\ Alta(t)
    BY <1>3, <1>4 DEF s_register, Cambia, Muere, Alta
<1>5. ASSUME s_unregister(t) PROVE Contesta(t, 0) /\ Baja(t)
    <2>1. Hay(t) /\ ~Conectado(t) /\ Cambia(t, Quitar(almacen, idx[t]))
        BY <1>5 DEF s_unregister
    <2> QED
        BY <1>1, <1>3, <1>5, <2>1, IndiceValido
        DEF IInv, s_unregister, Cambia, Baja, Conectado, Tupla_
<1>6. ASSUME s_connect(t) PROVE Contesta(t, 0) /\ Retoca(t)
    BY <1>1, <1>3, <1>6, ConectarRetoca DEF s_connect, Cambia
<1>7. ASSUME s_disconnect(t) PROVE Contesta(t, 0) /\ Retoca(t)
    BY <1>1, <1>3, <1>7, DesconectarRetoca DEF s_disconnect, Cambia, Conectado
<1>8. ASSUME s_publish(t) PROVE Contesta(t, 0) /\ Retoca(t)
    BY <1>1, <1>3, <1>8, PublicarRetoca DEF s_publish, Cambia, Conectado
<1>9. ASSUME s_delete(t) PROVE Contesta(t, 0) /\ Retoca(t)
    BY <1>1, <1>3, <1>9, BorrarRetoca DEF s_delete, Cambia, Conectado
<1>10. ~s_get_file(t) /\ ~s_list_users(t) /\ ~s_list_content(t)
    BY DEF s_get_file, s_list_users, s_list_content, EnviaCodigo, Empieza,
           EnvioFalla, Muere
<1> QED
    BY <1>1, <1>4, <1>5, <1>6, <1>7, <1>8, <1>9, <1>10
    DEF Avanza, Paso, Llega, CreaRpc, RpcNoCreado, LeeCabecera, CabeceraFalla,
        Desconocida, Entra, LeeArgs, ArgsFallan, EnviaEntrada, EntradaFalla,
        TerminaLista, Responde, Registra, Busca, En

-----------------------------------------------------------------------------
(* Where the tuples are after a step.                                      *)

\* A tuple j of the store is still there after a step, unless it is the one
\* removed, or the one changed in place.
LEMMA Queda ==
    ASSUME IInv, NEW t \in Threads, Alta(t) \/ Baja(t) \/ Retoca(t),
           NEW j \in 1 .. Len(almacen)
    PROVE  \/ \E k \in 1 .. Len(almacen') : almacen'[k] = almacen[j]
           \/ Baja(t) /\ j = idx[t]
           \/ \E k \in 1 .. Len(almacen') :
                 /\ almacen[j].cliente = args[t].user
                 /\ almacen'[k].cliente = args[t].user
                 /\ \/ Op(t) = "disconnect"
                    \/ almacen[j].connected = 1 => almacen'[k].connected = 1
                 /\ \A f \in Fichero :
                       \/ Guarda(almacen[j].files, f) => Guarda(almacen'[k].files, f)
                       \/ Op(t) = "delete" /\ args[t].file = f.name
<1>1. almacen \in Seq(Tupla) /\ Len(almacen) \in Nat
    BY LenProperties DEF IInv, StoreInv
<1>2. CASE Alta(t)
    <2>1. PICK u : almacen' = Append(almacen, TuplaVacia(u))
        BY <1>2 DEF Alta
    <2>2. Len(almacen') = Len(almacen) + 1 /\ almacen'[j] = almacen[j]
        BY <1>1, <2>1
    <2> QED
        BY <1>1, <2>2
<1>3. CASE Baja(t)
    BY <1>1, <1>3, QuedaAlQuitar DEF Baja
<1>4. CASE Retoca(t)
    <2>1. PICK i \in 1 .. Len(almacen), x \in Tupla :
            /\ almacen' = [almacen EXCEPT ![i] = x]
            /\ almacen[i].cliente = args[t].user
            /\ x.cliente = args[t].user
            /\ Op(t) = "disconnect" \/ (almacen[i].connected = 1 => x.connected = 1)
            /\ \A f \in Fichero :
                  \/ Guarda(almacen[i].files, f) => Guarda(x.files, f)
                  \/ Op(t) = "delete" /\ args[t].file = f.name
        BY <1>4 DEF Retoca
    <2>2. /\ Len(almacen') = Len(almacen)
          /\ almacen'[j] = IF j = i THEN x ELSE almacen[j]
        BY <1>1, <2>1, ExceptSeq
    <2>3. CASE j # i
        BY <2>2, <2>3
    <2>4. CASE j = i
        <3>1. almacen'[j] = x /\ j \in 1 .. Len(almacen')
            BY <2>2, <2>4
        <3> QED
            BY <2>1, <2>4, <3>1
    <2> QED
        BY <2>3, <2>4
<1> QED
    BY <1>2, <1>3, <1>4

-----------------------------------------------------------------------------
(* The properties of one step.                                             *)

\* What holds of every step of every thread holds of the specification.
LEMMA PasoDeHilo ==
    ASSUME IInv3, [Next]_vars, almacen' # almacen
    PROVE  \E t \in Threads :
              Contesta(t, 0) /\ (Alta(t) \/ Baja(t) \/ Retoca(t))
<1>1. PICK t \in Threads : Avanza(t)
    BY DEF Next, Avanza, Parado, vars
<1> QED
    BY <1>1, Cambios DEF IInv3, IInv2

LEMMA ConectadoSigue ==
    ASSUME IInv3, NEW t \in Threads, Alta(t) \/ Baja(t) \/ Retoca(t),
           NEW u \in Users,
           EstaConectado(almacen, u), ~EstaConectado(almacen', u)
    PROVE  Op(t) = "disconnect" /\ args[t].user = u
<1>1. PICK j \in 1 .. Len(almacen) :
         almacen[j].connected = 1 /\ almacen[j].cliente = u
    BY DEF EstaConectado, Conectados
<1>2. \A k \in 1 .. Len(almacen') :
         ~(almacen'[k].connected = 1 /\ almacen'[k].cliente = u)
    BY DEF EstaConectado, Conectados
<1>3. ~(Baja(t) /\ j = idx[t])
    BY <1>1 DEF Baja
<1>4. IInv
    BY DEF IInv3, IInv2
<1> QED
    BY <1>1, <1>2, <1>3, <1>4, Queda

LEMMA FicheroSigue ==
    ASSUME IInv3, NEW t \in Threads, Alta(t) \/ Baja(t) \/ Retoca(t),
           NEW u \in Users, NEW f \in Fichero,
           Ofrece(almacen, u, f), ~Ofrece(almacen', u, f)
    PROVE  /\ args[t].user = u
           /\ \/ Op(t) = "unregister"
              \/ Op(t) = "delete" /\ args[t].file = f.name
<1>1. PICK j \in 1 .. Len(almacen) :
         almacen[j].cliente = u /\ Guarda(almacen[j].files, f)
    BY DEF Ofrece, Guarda
<1>2. \A k \in 1 .. Len(almacen') :
         ~(almacen'[k].cliente = u /\ Guarda(almacen'[k].files, f))
    BY DEF Ofrece, Guarda
<1>3. IInv
    BY DEF IInv3, IInv2
<1>4. CASE Baja(t) /\ j = idx[t]
    BY <1>1, <1>4 DEF Baja
<1>5. CASE ~(Baja(t) /\ j = idx[t])
    BY <1>1, <1>2, <1>3, <1>5, Queda
<1> QED
    BY <1>4, <1>5

-----------------------------------------------------------------------------
(* How many tuples of each kind there are.                                 *)

\* Removing an element leaves as many of each other element as there were.
LEMMA VecesAlQuitar ==
    ASSUME NEW S, NEW s \in Seq(S), NEW i \in 1 .. Len(s), NEW x, s[i] # x
    PROVE  Veces(Quitar(s, i), x) = Veces(s, x)
<1> DEFINE q == Quitar(s, i)
           A == {j \in 1 .. Len(s) : s[j] = x}
           B == {j \in 1 .. Len(q) : q[j] = x}
<1>1. Len(s) \in Nat
    BY LenProperties
<1>2. /\ Len(q) = Len(s) - 1
      /\ \A k \in 1 .. Len(s) - 1 : q[k] = IF k = i THEN s[Len(s)] ELSE s[k]
    BY QuitarProps
<1>3. IsFiniteSet(1 .. Len(s))
    BY <1>1, FS_Interval
<1>4. IsFiniteSet(A)
    BY <1>3, FS_Subset
<1> HIDE DEF q
<1>5. CASE s[Len(s)] = x
    <2>1. i \in 1 .. Len(s) - 1 /\ i \notin A /\ Len(s) \in A
        BY <1>1, <1>5
    <2>2. B = (A \ {Len(s)}) \cup {i}
        BY <1>1, <1>2, <1>5, <2>1
    <2>3. Cardinality(A) \in Nat
        BY <1>4, FS_CardinalityType
    <2> HIDE DEF A, B
    <2>4. /\ IsFiniteSet(A \ {Len(s)})
          /\ Cardinality(A \ {Len(s)}) = Cardinality(A) - 1
        BY <1>4, <2>1, FS_RemoveElement
    <2>5. i \notin A \ {Len(s)}
        BY <2>1
    <2>6. Cardinality((A \ {Len(s)}) \cup {i}) = Cardinality(A \ {Len(s)}) + 1
        BY <2>4, <2>5, FS_AddElement
    <2>7. Cardinality(B) = Cardinality(A)
        BY <2>2, <2>3, <2>4, <2>6
    <2> QED
        BY <2>7 DEF Veces, A, B, q
<1>6. CASE s[Len(s)] # x
    <2>1. B = A
        BY <1>1, <1>2, <1>6
    <2> QED
        BY <2>1 DEF Veces, q
<1> QED
    BY <1>5, <1>6

LEMMA OtrosIguales ==
    ASSUME IInv3, NEW t \in Threads, Alta(t) \/ Baja(t) \/ Retoca(t),
           NEW x, x.cliente # args[t].user
    PROVE  Veces(almacen, x) = Veces(almacen', x)
<1>1. almacen \in Seq(Tupla) /\ Len(almacen) \in Nat
    BY LenProperties DEF IInv3, IInv2, IInv, StoreInv
<1>2. CASE Alta(t)
    <2> DEFINE e == TuplaVacia(args[t].user)
    <2>1. e # x
        BY DEF TuplaVacia
    <2> HIDE DEF e
    <2>2. almacen' = Append(almacen, e)
        BY <1>2 DEF Alta, e
    <2>3. /\ Len(almacen') = Len(almacen) + 1
          /\ \A j \in 1 .. Len(almacen) : almacen'[j] = almacen[j]
          /\ almacen'[Len(almacen) + 1] = e
        BY <1>1, <2>2
    <2>4. {j \in 1 .. Len(almacen') : almacen'[j] = x}
            = {j \in 1 .. Len(almacen) : almacen[j] = x}
        BY <1>1, <2>1, <2>3
    <2> QED
        BY <2>4 DEF Veces
<1>3. CASE Baja(t)
    <2>1. almacen[idx[t]] # x
        BY <1>3 DEF Baja
    <2>2. Veces(Quitar(almacen, idx[t]), x) = Veces(almacen, x)
        BY <1>1, <1>3, <2>1, VecesAlQuitar DEF Baja
    <2> QED
        BY <1>3, <2>2 DEF Baja
<1>4. CASE Retoca(t)
    <2>1. PICK i \in 1 .. Len(almacen), y \in Tupla :
            /\ almacen' = [almacen EXCEPT ![i] = y]
            /\ almacen[i].cliente = args[t].user
            /\ y.cliente = args[t].user
        BY <1>4 DEF Retoca
    <2>2. /\ Len(almacen') = Len(almacen)
          /\ \A j \in 1 .. Len(almacen) : almacen'[j] = IF j = i THEN y ELSE almacen[j]
        BY <1>1, <2>1, ExceptSeq
    <2>3. almacen[i] # x /\ y # x
        BY <2>1
    <2>4. {j \in 1 .. Len(almacen') : almacen'[j] = x}
            = {j \in 1 .. Len(almacen) : almacen[j] = x}
        BY <2>2, <2>3
    <2> QED
        BY <2>4 DEF Veces
<1> QED
    BY <1>2, <1>3, <1>4

-----------------------------------------------------------------------------
\* A connected user goes offline only through its own disconnect, for any
\* number of threads and whatever tuples a removal moves (server.c 315-329,
\* 388-395, 831-845).
THEOREM OnlineUntilDisconnect == Spec => ConnectedStays
<1> DEFINE P == \A u \in Users :
                   EstaConectado(almacen, u) /\ ~EstaConectado(almacen', u) =>
                      \E t \in Threads : /\ Contesta(t, 0)
                                         /\ Op(t) = "disconnect"
                                         /\ args[t].user = u
<1>1. IInv3 /\ [Next]_vars => [P]_vars
    <2> SUFFICES ASSUME IInv3, [Next]_vars, NEW u \in Users,
                        EstaConectado(almacen, u), ~EstaConectado(almacen', u)
                 PROVE  \E t \in Threads : /\ Contesta(t, 0)
                                           /\ Op(t) = "disconnect"
                                           /\ args[t].user = u
        OBVIOUS
    <2>1. almacen' # almacen
        OBVIOUS
    <2>2. PICK t \in Threads :
             Contesta(t, 0) /\ (Alta(t) \/ Baja(t) \/ Retoca(t))
        BY <2>1, PasoDeHilo
    <2> QED
        BY <2>2, ConectadoSigue
<1> QED
    BY <1>1, Invariante3, PTL DEF Spec, ConnectedStays

\* A published file stays published until its owner deletes it or unregisters
\* (server.c 323-329, 530-548).
THEOREM PublishedUntilDeleted == Spec => FilesSurvive
<1> DEFINE P == \A u \in Users, f \in Fichero :
                   Ofrece(almacen, u, f) /\ ~Ofrece(almacen', u, f) =>
                      \E t \in Threads :
                         /\ Contesta(t, 0)
                         /\ args[t].user = u
                         /\ \/ Op(t) = "unregister"
                            \/ Op(t) = "delete" /\ args[t].file = f.name
<1>1. IInv3 /\ [Next]_vars => [P]_vars
    <2> SUFFICES ASSUME IInv3, [Next]_vars, NEW u \in Users, NEW f \in Fichero,
                        Ofrece(almacen, u, f), ~Ofrece(almacen', u, f)
                 PROVE  \E t \in Threads :
                           /\ Contesta(t, 0)
                           /\ args[t].user = u
                           /\ \/ Op(t) = "unregister"
                              \/ Op(t) = "delete" /\ args[t].file = f.name
        OBVIOUS
    <2>1. almacen' # almacen
        OBVIOUS
    <2>2. PICK t \in Threads :
             Contesta(t, 0) /\ (Alta(t) \/ Baja(t) \/ Retoca(t))
        BY <2>1, PasoDeHilo
    <2> QED
        BY <2>2, FicheroSigue
<1> QED
    BY <1>1, Invariante3, PTL DEF Spec, FilesSurvive

\* No request changes how often a tuple of another user is in the store
\* (server.c 256-556, 800-848).
THEOREM OthersLeftAlone == Spec => OthersUntouched
<1> DEFINE P == almacen' # almacen =>
                   \E t \in Threads :
                      /\ Contesta(t, 0)
                      /\ \A x \in Tuplas(almacen) \cup Tuplas(almacen') :
                            x.cliente # args[t].user =>
                               Veces(almacen, x) = Veces(almacen', x)
<1>1. IInv3 /\ [Next]_vars => [P]_vars
    <2> SUFFICES ASSUME IInv3, [Next]_vars, almacen' # almacen
                 PROVE  P
        OBVIOUS
    <2>1. PICK t \in Threads :
             Contesta(t, 0) /\ (Alta(t) \/ Baja(t) \/ Retoca(t))
        BY PasoDeHilo
    <2> QED
        BY <2>1, OtrosIguales
<1> QED
    BY <1>1, Invariante3, PTL DEF Spec, OthersUntouched

-----------------------------------------------------------------------------
(* The updates the checks let through.                                     *)

LEMMA CambioRegister ==
    ASSUME NEW a, NEW u \in Users, ~EstaEnUso(a, u)
    PROVE  \E c \in Ac!Cambios(a) :
              /\ c.op = "register" /\ c.user = u
              /\ Ac!Hecho(a, c) = Append(a, TuplaVacia(u))
<1> DEFINE c == [Ac!NoCambio EXCEPT !.op = "register", !.user = u]
<1>1. c.op = "register" /\ c.user = u
    BY DEF Ac!NoCambio
<1>2. c \in Ac!Cambios(a)
    BY DEF Ac!Cambios, Ac!Registros, Ac!Bajas, Ac!Conexiones, Ac!Desconexiones,
          Ac!Publicaciones, Ac!Borrados, Ac!EstaEnUso, EstaEnUso
<1>3. Ac!TuplaVacia(u) = TuplaVacia(u)
    BY DEF Ac!TuplaVacia, TuplaVacia
<1> HIDE DEF c
<1>4. Ac!Hecho(a, c) = Append(a, TuplaVacia(u))
    BY <1>1, <1>3 DEF Ac!Hecho
<1> QED
    BY <1>1, <1>2, <1>4

LEMMA CambioUnregister ==
    ASSUME NEW a, NEW i \in 1 .. Len(a), a[i].connected = 0
    PROVE  \E c \in Ac!Cambios(a) :
              /\ c.op = "unregister" /\ c.user = a[i].cliente
              /\ Ac!Hecho(a, c) = Quitar(a, i)
<1> DEFINE c == [Ac!NoCambio EXCEPT !.op = "unregister", !.user = a[i].cliente, !.i = i]
<1>1. c.op = "unregister" /\ c.user = a[i].cliente /\ c.i = i
    BY DEF Ac!NoCambio
<1>2. c \in Ac!Cambios(a)
    BY DEF Ac!Cambios, Ac!Registros, Ac!Bajas, Ac!Conexiones, Ac!Desconexiones,
          Ac!Publicaciones, Ac!Borrados
<1>3. Ac!Quitar(a, i) = Quitar(a, i)
    BY DEF Ac!Quitar, Quitar
<1> HIDE DEF c
<1>4. Ac!Hecho(a, c) = Quitar(a, i)
    BY <1>1, <1>3 DEF Ac!Hecho
<1> QED
    BY <1>1, <1>2, <1>4

LEMMA CambioConnect ==
    ASSUME NEW a, NEW i \in 1 .. Len(a), a[i].connected = 0, NEW ad \in Addrs
    PROVE  \E c \in Ac!Cambios(a) :
              /\ c.op = "connect" /\ c.user = a[i].cliente
              /\ Ac!Hecho(a, c) = Conectar(a, i, ad)
<1> DEFINE D == {j \in 1 .. Len(a) : a[j].connected = 0} \X Addrs
           de(p) == [Ac!NoCambio EXCEPT !.op = "connect", !.user = a[p[1]].cliente,
                                        !.i = p[1], !.addr = p[2]]
           c == de(<<i, ad>>)
<1>1. /\ c.op = "connect" /\ c.user = a[i].cliente /\ c.i = i /\ c.addr = ad
    BY DEF Ac!NoCambio
<1>2. c \in Ac!Cambios(a)
  <2>1. <<i, ad>> \in D
      OBVIOUS
  <2> HIDE DEF D
  <2>2. c \in {de(p) : p \in D}
      BY <2>1
  <2> QED
      BY <2>2 DEF Ac!Cambios, Ac!Registros, Ac!Bajas, Ac!Conexiones, Ac!Desconexiones,
          Ac!Publicaciones, Ac!Borrados, D
<1>3. Ac!Conectar(a, i, ad) = Conectar(a, i, ad)
    BY DEF Ac!Conectar, Conectar
<1> HIDE DEF c
<1>4. Ac!Hecho(a, c) = Conectar(a, i, ad)
    BY <1>1, <1>3 DEF Ac!Hecho
<1> QED
    BY <1>1, <1>2, <1>4

LEMMA CambioDisconnect ==
    ASSUME NEW a, NEW i \in 1 .. Len(a), a[i].connected = 1
    PROVE  \E c \in Ac!Cambios(a) :
              /\ c.op = "disconnect" /\ c.user = a[i].cliente
              /\ Ac!Hecho(a, c) = Desconectar(a, i)
<1> DEFINE c == [Ac!NoCambio EXCEPT !.op = "disconnect", !.user = a[i].cliente, !.i = i]
<1>1. c.op = "disconnect" /\ c.user = a[i].cliente /\ c.i = i
    BY DEF Ac!NoCambio
<1>2. c \in Ac!Cambios(a)
    BY DEF Ac!Cambios, Ac!Registros, Ac!Bajas, Ac!Conexiones, Ac!Desconexiones,
          Ac!Publicaciones, Ac!Borrados
<1>3. Ac!Desconectar(a, i) = Desconectar(a, i)
    BY DEF Ac!Desconectar, Desconectar
<1> HIDE DEF c
<1>4. Ac!Hecho(a, c) = Desconectar(a, i)
    BY <1>1, <1>3 DEF Ac!Hecho
<1> QED
    BY <1>1, <1>2, <1>4

LEMMA CambioPublish ==
    ASSUME NEW a, NEW i \in 1 .. Len(a), a[i].connected = 1,
           NEW f \in Files, NEW d \in Descrs, ~Publicado(a[i], f)
    PROVE  \E c \in Ac!Cambios(a) :
              /\ c.op = "publish" /\ c.user = a[i].cliente
              /\ Ac!Hecho(a, c) = Publicar(a, i, f, d)
<1> DEFINE D == {q \in (1 .. Len(a)) \X Files \X Descrs :
                    a[q[1]].connected = 1 /\ ~Ac!Publicado(a[q[1]], q[2])}
           de(p) == [Ac!NoCambio EXCEPT !.op = "publish", !.user = a[p[1]].cliente,
                                        !.i = p[1], !.file = p[2], !.descr = p[3]]
           c == de(<<i, f, d>>)
<1>1. /\ c.op = "publish" /\ c.user = a[i].cliente /\ c.i = i
      /\ c.file = f /\ c.descr = d
    BY DEF Ac!NoCambio
<1>2. c \in Ac!Cambios(a)
  <2>1. ~Ac!Publicado(a[i], f)
      BY DEF Ac!Publicado, Publicado
  <2>2. <<i, f, d>> \in D
      BY <2>1
  <2> HIDE DEF D
  <2>3. c \in {de(p) : p \in D}
      BY <2>2
  <2> QED
      BY <2>3 DEF Ac!Cambios, Ac!Registros, Ac!Bajas, Ac!Conexiones, Ac!Desconexiones,
          Ac!Publicaciones, Ac!Borrados, D
<1>3. Ac!Publicar(a, i, f, d) = Publicar(a, i, f, d)
    BY DEF Ac!Publicar, Publicar
<1> HIDE DEF c
<1>4. Ac!Hecho(a, c) = Publicar(a, i, f, d)
    BY <1>1, <1>3 DEF Ac!Hecho
<1> QED
    BY <1>1, <1>2, <1>4

LEMMA CambioDelete ==
    ASSUME NEW a, NEW i \in 1 .. Len(a), a[i].connected = 1,
           NEW k \in 1 .. Len(a[i].files)
    PROVE  \E c \in Ac!Cambios(a) :
              /\ c.op = "delete" /\ c.user = a[i].cliente
              /\ Ac!Hecho(a, c) = Borrar(a, i, k)
<1> DEFINE de(j) == {[Ac!NoCambio EXCEPT !.op = "delete", !.user = a[j].cliente, !.i = j,
                                         !.k = m] :
                        m \in {n \in 1 .. Len(a[j].files) : a[j].connected = 1}}
           c == [Ac!NoCambio EXCEPT !.op = "delete", !.user = a[i].cliente, !.i = i, !.k = k]
<1>1. c.op = "delete" /\ c.user = a[i].cliente /\ c.i = i /\ c.k = k
    BY DEF Ac!NoCambio
<1>2. c \in Ac!Cambios(a)
  <2>1. c \in de(i)
      OBVIOUS
  <2>2. c \in UNION {de(j) : j \in 1 .. Len(a)}
    <3> HIDE DEF c, de
    <3>1. de(i) \in {de(j) : j \in 1 .. Len(a)}
        OBVIOUS
    <3> QED
        BY <2>1, <3>1
  <2> QED
      BY <2>2 DEF Ac!Cambios, Ac!Registros, Ac!Bajas, Ac!Conexiones, Ac!Desconexiones,
          Ac!Publicaciones, Ac!Borrados
<1>3. Ac!Borrar(a, i, k) = Borrar(a, i, k)
    BY DEF Ac!Borrar, Borrar, Ac!Quitar, Quitar
<1> HIDE DEF c
<1>4. Ac!Hecho(a, c) = Borrar(a, i, k)
    BY <1>1, <1>3 DEF Ac!Hecho
<1> QED
    BY <1>1, <1>2, <1>4

\* The step of t is an update of its request.
Actualizado(t) ==
    \E c \in Ac!Cambios(almacen) :
        c.op = Op(t) /\ c.user = args[t].user /\ almacen' = Ac!Hecho(almacen, c)

LEMMA CambiosRevisados ==
    ASSUME IInv, NEW t \in Threads, Avanza(t), almacen' # almacen
    PROVE  mutex = t /\ Actualizado(t)
<1>1. pc[t] = "apply"
    BY StoreKept
<1>2. mutex = t
    BY <1>1 DEF IInv, CtlInv, MutexOwner, Critica
<1>3. args[t] \in Peticion
    BY <1>1 DEF IInv, ThreadInv
<1>4. /\ args[t].user \in Users /\ args[t].file \in Files
      /\ args[t].descr \in Descrs /\ args[t].addr \in Addrs
    BY <1>3 DEF Peticion
<1>5. ASSUME Hay(t)
      PROVE  /\ idx[t] \in 1 .. Len(almacen) /\ almacen[idx[t]].cliente = args[t].user
             /\ almacen[idx[t]].connected \in {0, 1} /\ Tupla_(t) = almacen[idx[t]]
    BY <1>1, <1>5, IndiceValido DEF IInv, Tupla, Tupla_
<1> USE DEF Atiende, Rechaza, store
<1>6. ASSUME s_register(t) PROVE Actualizado(t)
  <2>1. /\ Op(t) = "register" /\ idx[t] = 0
        /\ almacen' = Append(almacen, TuplaVacia(args[t].user))
      BY <1>6 DEF s_register, Cambia, Muere, Hay
  <2>2. ~EstaEnUso(almacen, args[t].user)
      BY <1>1, <2>1 DEF IInv, IndexFresh, Encuentra, Halla
  <2> QED
      BY <1>4, <2>1, <2>2, CambioRegister DEF Actualizado
<1>7. ASSUME s_unregister(t) PROVE Actualizado(t)
  <2>1. /\ Op(t) = "unregister" /\ Hay(t) /\ ~Conectado(t)
        /\ almacen' = Quitar(almacen, idx[t])
      BY <1>7 DEF s_unregister, Cambia
  <2>2. almacen[idx[t]].connected = 0
      BY <1>5, <2>1 DEF Conectado
  <2> QED
      BY <1>5, <2>1, <2>2, CambioUnregister DEF Actualizado
<1>8. ASSUME s_connect(t) PROVE Actualizado(t)
  <2>1. /\ Op(t) = "connect" /\ Hay(t) /\ ~Conectado(t)
        /\ almacen' = Conectar(almacen, idx[t], args[t].addr)
      BY <1>8 DEF s_connect, Cambia
  <2>2. almacen[idx[t]].connected = 0
      BY <1>5, <2>1 DEF Conectado
  <2> QED
      BY <1>4, <1>5, <2>1, <2>2, CambioConnect DEF Actualizado
<1>9. ASSUME s_disconnect(t) PROVE Actualizado(t)
  <2>1. /\ Op(t) = "disconnect" /\ Conectado(t)
        /\ almacen' = Desconectar(almacen, idx[t])
      BY <1>9 DEF s_disconnect, Cambia
  <2>2. Hay(t) /\ almacen[idx[t]].connected = 1
      BY <1>5, <2>1 DEF Conectado
  <2> QED
      BY <1>5, <2>1, <2>2, CambioDisconnect DEF Actualizado
<1>10. ASSUME s_publish(t) PROVE Actualizado(t)
  <2>1. /\ Op(t) = "publish" /\ Conectado(t) /\ ~Publicado(Tupla_(t), args[t].file)
        /\ almacen' = Publicar(almacen, idx[t], args[t].file, args[t].descr)
      BY <1>10 DEF s_publish, Cambia
  <2>2. Hay(t) /\ almacen[idx[t]].connected = 1
      BY <1>5, <2>1 DEF Conectado
  <2>3. ~Publicado(almacen[idx[t]], args[t].file)
      BY <1>5, <2>1, <2>2
  <2> QED
      BY <1>4, <1>5, <2>1, <2>2, <2>3, CambioPublish DEF Actualizado
<1>11. ASSUME s_delete(t) PROVE Actualizado(t)
  <2>1. Op(t) = "delete" /\ Conectado(t)
      BY <1>11 DEF s_delete
  <2>2. Hay(t) /\ almacen[idx[t]].connected = 1
      BY <1>5, <2>1 DEF Conectado
  <2>3. PICK k \in 1 .. Len(Tupla_(t).files) : almacen' = Borrar(almacen, idx[t], k)
      BY <1>11 DEF s_delete, Cambia
  <2>4. k \in 1 .. Len(almacen[idx[t]].files)
      BY <1>5, <2>2
  <2> QED
      BY <1>5, <2>1, <2>2, <2>3, <2>4, CambioDelete DEF Actualizado
<1>12. ~s_get_file(t) /\ ~s_list_users(t) /\ ~s_list_content(t)
    BY DEF s_get_file, s_list_users, s_list_content, EnviaCodigo, Empieza,
           EnvioFalla, Muere
<1> QED
    BY <1>1, <1>2, <1>6, <1>7, <1>8, <1>9, <1>10, <1>11, <1>12
    DEF Avanza, Paso, Llega, CreaRpc, RpcNoCreado, LeeCabecera, CabeceraFalla,
        Desconocida, Entra, LeeArgs, ArgsFallan, EnviaEntrada, EntradaFalla,
        TerminaLista, Responde, Registra, Busca, En

\* For any number of threads the store changes by one update at a time, made by
\* the owner of the mutex for the user of its request, and allowed by the checks of
\* its handler in the very store it changes (server.c 263-288, 310-329, 369-398,
\* 452-472, 515-548, 829-841).
THEOREM UpdatesChecked == Spec => UpdatesAreChecked
<1> DEFINE U == almacen' # almacen =>
                   \E t \in Threads :
                      /\ mutex = t
                      /\ \E c \in Ac!Cambios(almacen) :
                            /\ c.op = Op(t) /\ c.user = args[t].user
                            /\ almacen' = Ac!Hecho(almacen, c)
<1>1. IInv3 /\ [Next]_vars => [U]_vars
    <2> SUFFICES ASSUME IInv3, [Next]_vars, almacen' # almacen
                 PROVE  U
        OBVIOUS
    <2>1. PICK t \in Threads : Avanza(t)
        BY DEF Next, Avanza, Parado, vars
    <2>2. mutex = t /\ Actualizado(t)
        BY <2>1, CambiosRevisados DEF IInv3, IInv2
    <2> QED
        BY <2>2 DEF Actualizado
<1> QED
    BY <1>1, Invariante3, PTL DEF Spec, UpdatesAreChecked

-----------------------------------------------------------------------------
(* Listings.                                                               *)

Fila(e) == <<e.name, e.descr>>

Par(i) == <<almacen[i].cliente, almacen[i].addr>>

\* While thread t sends the connected users: those up to pos have been sent.
Usuarios(t) ==
    pc[t] = "send" /\ Op(t) = "list_users" =>
        /\ Hay(t) /\ Conectados(almacen) # {}
        /\ count[t] = Cardinality(Conectados(almacen))
        /\ Len(sent[t]) = Cardinality({i \in Conectados(almacen) : i <= pos[t]})
        /\ \A n \in 1 .. Len(sent[t]) :
              \E i \in Conectados(almacen) : sent[t][n] = Par(i)
        /\ \A i \in Conectados(almacen) : i <= pos[t] =>
              \E n \in 1 .. Len(sent[t]) : sent[t][n] = Par(i)

\* While it sends files: the first pos of them have been sent, out of count.
Contenido(t) ==
    pc[t] = "send" /\ Op(t) = "list_content" =>
        /\ Conectado(t) /\ idx2[t] # 0
        /\ count[t] = Len(almacen[idx2[t]].files)
        /\ pos[t] <= count[t]
        /\ sent[t] = [n \in 1 .. pos[t] |-> Fila(almacen[idx2[t]].files[n])]

\* Once it has answered 0.
Fin(t) ==
    resp[t] = 0 /\ Op(t) \in {"list_users", "list_content"} =>
        Len(sent[t]) = count[t]

InstantaneaInv == \A t \in Threads : Usuarios(t) /\ Contenido(t) /\ Fin(t)

LEMMA InstantaneaBasta == InstantaneaInv => ListingIsSnapshot
    BY DEF InstantaneaInv, ListingIsSnapshot, Usuarios, Contenido, Fin, Fila, Par

LEMMA CodigoNoCero ==
    ASSUME NEW op \in Ops
    PROVE  CodigoError(op) # 0
    BY DEF CodigoError, Ops

LEMMA RechazaNiega ==
    ASSUME CtlInv, DataInv, NEW t \in Threads, NEW c, c # 0, Rechaza(t, c)
    PROVE  resp'[t] # 0 /\ pc'[t] # "send"
<1>1. resp'[t] = c
    BY DEF Rechaza, Devuelve, DataInv
<1>2. pc'[t] \in {"log", "reply"}
    BY DEF Rechaza, Devuelve, Va, CtlInv
<1> QED
    BY <1>1, <1>2

\* A write that fails ends the process, or the request with a code.
LEMMA FallaNiega ==
    ASSUME CtlInv, DataInv, NEW t \in Threads, NEW e, e # 0, EnvioFalla(t, e)
    PROVE  \/ resp'[t] # 0 /\ pc'[t] # "send"
           \/ UNCHANGED <<pc, req, almacen, idx, idx2, pos, count, sent, resp>>
<1>1. ASSUME Muere
      PROVE  UNCHANGED <<pc, req, almacen, idx, idx2, pos, count, sent, resp>>
    BY <1>1 DEF Muere, local
<1> QED
    BY <1>1, RechazaNiega DEF EnvioFalla

LEMMA CodigoNiega ==
    ASSUME CtlInv, DataInv, NEW t \in Threads, NEW c, NEW e, c # 0, e # 0,
           EnviaCodigo(t, c, e)
    PROVE  \/ resp'[t] # 0 /\ pc'[t] # "send"
           \/ UNCHANGED <<pc, req, almacen, idx, idx2, pos, count, sent, resp>>
    BY RechazaNiega, FallaNiega DEF EnviaCodigo

\* What a step of t is for the listing that t may be sending.
LEMMA PasoDeLista ==
    ASSUME CtlInv, ThreadInv, DataInv, NEW t \in Threads, Avanza(t)
    PROVE  \/ /\ UNCHANGED <<count, sent, resp>>
              /\ pc'[t] # "send"
              /\ pc[t] \in Previos \/ req' = req
           \/ UNCHANGED <<pc, req, almacen, idx, idx2, pos, count, sent, resp>>
           \/ resp'[t] # 0 /\ pc'[t] # "send"
           \/ Op(t) \notin {"list_users", "list_content"} /\ req' = req /\ pc'[t] # "send"
           \/ /\ pc[t] = "apply"
              /\ UNCHANGED <<almacen, req, idx, idx2, pos, sent, resp>>
              /\ \/ /\ Op(t) = "list_users" /\ Hay(t) /\ Conectados(almacen) # {}
                    /\ count'[t] = Cardinality(Conectados(almacen))
                 \/ /\ Op(t) = "list_content" /\ Conectado(t) /\ idx2[t] # 0
                    /\ count'[t] = Len(almacen[idx2[t]].files)
           \/ EnviaEntrada(t)
           \/ TerminaLista(t)
<1> DEFINE Propio ==
           \/ /\ UNCHANGED <<count, sent, resp>>
              /\ pc'[t] # "send"
              /\ pc[t] \in Previos \/ req' = req
           \/ UNCHANGED <<pc, req, almacen, idx, idx2, pos, count, sent, resp>>
           \/ resp'[t] # 0 /\ pc'[t] # "send"
           \/ Op(t) \notin {"list_users", "list_content"} /\ req' = req /\ pc'[t] # "send"
           \/ /\ pc[t] = "apply"
              /\ UNCHANGED <<almacen, req, idx, idx2, pos, sent, resp>>
              /\ \/ /\ Op(t) = "list_users" /\ Hay(t) /\ Conectados(almacen) # {}
                    /\ count'[t] = Cardinality(Conectados(almacen))
                 \/ /\ Op(t) = "list_content" /\ Conectado(t) /\ idx2[t] # 0
                    /\ count'[t] = Len(almacen[idx2[t]].files)
           \/ EnviaEntrada(t)
           \/ TerminaLista(t)
<1> USE DEF CtlInv, ThreadInv, DataInv, Previos, En, Va, local, store
<1>1. ASSUME NEW c \in Cliente, Llega(t, c) PROVE Propio
    BY <1>1 DEF Llega
<1>2. ASSUME CreaRpc(t) PROVE Propio
    BY <1>2 DEF CreaRpc
<1>3. ASSUME RpcNoCreado(t) PROVE Propio
    BY <1>3 DEF RpcNoCreado
<1>4. ASSUME LeeCabecera(t) PROVE Propio
    BY <1>4 DEF LeeCabecera
<1>5. ASSUME CabeceraFalla(t) PROVE Propio
    BY <1>5 DEF CabeceraFalla
<1>6. ASSUME Desconocida(t) PROVE Propio
    BY <1>6 DEF Desconocida, Muere
<1>7. ASSUME Entra(t) PROVE Propio
    BY <1>7 DEF Entra
<1>8. ASSUME LeeArgs(t) PROVE Propio
    BY <1>8 DEF LeeArgs
<1>9. ASSUME ArgsFallan(t) PROVE Propio
    BY <1>9, CodigoNoCero DEF ArgsFallan, Devuelve
<1>10. ASSUME Busca(t) PROVE Propio
    BY <1>10 DEF Busca
<1>11. ASSUME s_register(t) PROVE Propio
    BY <1>11 DEF s_register, Atiende, Rechaza, Cambia, Devuelve, Muere
<1>12. ASSUME s_unregister(t) PROVE Propio
    BY <1>12 DEF s_unregister, Atiende, Rechaza, Cambia, Devuelve
<1>13. ASSUME s_connect(t) PROVE Propio
    BY <1>13 DEF s_connect, Atiende, Rechaza, Cambia, Devuelve
<1>14. ASSUME s_disconnect(t) PROVE Propio
    BY <1>14 DEF s_disconnect, Atiende, Rechaza, Cambia, Devuelve
<1>15. ASSUME s_publish(t) PROVE Propio
    BY <1>15 DEF s_publish, Atiende, Rechaza, Cambia, Devuelve
<1>16. ASSUME s_delete(t) PROVE Propio
    BY <1>16 DEF s_delete, Atiende, Rechaza, Cambia, Devuelve
<1>17. ASSUME s_get_file(t) PROVE Propio
    BY <1>17 DEF s_get_file, Atiende, EnviaCodigo, EnvioFalla, Rechaza,
           Devuelve, Muere
<1>18. ASSUME s_list_users(t) PROVE Propio
    <2>1. ASSUME EnviaCodigo(t, 1, 3) \/ EnviaCodigo(t, 2, 3)
          PROVE  Propio
        BY <2>1, CodigoNiega
    <2>2. ASSUME Hay(t), Conectados(almacen) # {},
                 Empieza(t, Cardinality(Conectados(almacen)), 3)
          PROVE  Propio
        <3>1. CASE EnvioFalla(t, 3)
            BY <3>1, FallaNiega
        <3>2. CASE ~EnvioFalla(t, 3)
            BY <1>18, <2>2, <3>2 DEF s_list_users, Atiende, Empieza
        <3> QED
            BY <3>1, <3>2
    <2> QED
        BY <1>18, <2>1, <2>2 DEF s_list_users
<1>19. ASSUME s_list_content(t) PROVE Propio
    <2>1. ASSUME NEW c \in 1 .. 3, EnviaCodigo(t, c, 4)
          PROVE  Propio
        <3>1. c # 0 /\ 4 # 0
            OBVIOUS
        <3> QED
            BY <2>1, <3>1, CodigoNiega
    <2>2. ASSUME Conectado(t), idx2[t] # 0,
                 Empieza(t, Len(almacen[idx2[t]].files), 4)
          PROVE  Propio
        <3>1. CASE EnvioFalla(t, 4)
            BY <3>1, FallaNiega
        <3>2. CASE ~EnvioFalla(t, 4)
            BY <1>19, <2>2, <3>2 DEF s_list_content, Atiende, Empieza
        <3> QED
            BY <3>1, <3>2
    <2> QED
        BY <1>19, <2>1, <2>2 DEF s_list_content
<1>20. ASSUME EnviaEntrada(t) PROVE Propio
    BY <1>20 DEF EnviaEntrada
<1>21. ASSUME EntradaFalla(t) PROVE Propio
    <2> DEFINE e == IF Op(t) = "list_users" THEN 3 ELSE 4
    <2>1. e # 0
        OBVIOUS
    <2>2. EnvioFalla(t, e)
        BY <1>21, Zenon DEF EntradaFalla
    <2> HIDE DEF e
    <2> QED
        BY <2>1, <2>2, FallaNiega
<1>22. ASSUME TerminaLista(t) PROVE Propio
    BY <1>22 DEF TerminaLista, Rechaza, Devuelve
<1>23. ASSUME Responde(t) PROVE Propio
    BY <1>23 DEF Responde, Muere
<1>24. ASSUME Registra(t) PROVE Propio
    BY <1>24 DEF Registra
<1> QED
    BY <1>1, <1>2, <1>3, <1>4, <1>5, <1>6, <1>7, <1>8, <1>9, <1>10,
       <1>11, <1>12, <1>13, <1>14, <1>15, <1>16, <1>17, <1>18, <1>19,
       <1>20, <1>21, <1>22, <1>23, <1>24 DEF Paso, Avanza

-----------------------------------------------------------------------------
LEMMA MismaFuncion ==
    ASSUME NEW D, NEW S, NEW f \in [D -> S], NEW g \in [D -> S],
           \A n \in D : f[n] = g[n]
    PROVE  f = g
    OBVIOUS

\* The entries of a list of contents.
LEMMA ContenidoStep ==
    ASSUME IInv2, NEW t \in Threads, EnviaEntrada(t), Op(t) = "list_content",
           Contenido(t)
    PROVE  Contenido(t)'
<1> DEFINE fs == almacen[idx2[t]].files
           p == pos[t]
<1>1. pc[t] = "send" /\ p < count[t]
    BY DEF EnviaEntrada, En
<1>2. count[t] = Len(fs) /\ sent[t] = [n \in 1 .. p |-> Fila(fs[n])]
    BY <1>1 DEF Contenido
<1>3. p \in Nat /\ count[t] \in Nat /\ sent[t] \in Seq(Entrada)
    BY DEF IInv2, IInv, ThreadInv, DataInv
<1>4. idx2[t] # 0
    BY <1>1 DEF IInv2, ListInv
<1>5. almacen[idx2[t]] \in Tupla
    BY <1>1, <1>4, Indice2Valido DEF IInv2, IInv
<1>6. fs \in Seq(Fichero)
    BY <1>5 DEF Tupla
<1>7. \A n \in 1 .. p + 1 : Fila(fs[n]) \in Entrada
    <2> SUFFICES ASSUME NEW n \in 1 .. p + 1 PROVE Fila(fs[n]) \in Entrada
        OBVIOUS
    <2>1. n \in 1 .. Len(fs)
        BY <1>1, <1>2, <1>3
    <2>2. fs[n] \in Fichero
        BY <1>6, <2>1, ElementOfSeq
    <2> QED
        BY <2>2 DEF Fila, Fichero, Entrada
<1>8. /\ sent' = [sent EXCEPT ![t] = Append(sent[t], Fila(fs[p + 1]))]
      /\ pos' = [pos EXCEPT ![t] = p + 1]
      /\ UNCHANGED <<pc, req, almacen, idx2, count>>
    BY DEF EnviaEntrada, Fila, store
<1>9. sent'[t] = Append(sent[t], Fila(fs[p + 1])) /\ pos'[t] = p + 1
    BY <1>8 DEF IInv2, DataInv
<1> HIDE DEF fs, p
<1>10. Len(sent[t]) = p
    <2>1. DOMAIN sent[t] = 1 .. Len(sent[t]) /\ Len(sent[t]) \in Nat
        BY <1>3, LenProperties
    <2>2. DOMAIN sent[t] = 1 .. p
        BY <1>2
    <2> QED
        BY <1>3, <2>1, <2>2
<1> DEFINE q == [n \in 1 .. p + 1 |-> Fila(fs[n])]
           r == Append(sent[t], Fila(fs[p + 1]))
<1>11. p + 1 \in 1 .. p + 1
    BY <1>3
<1>12. Fila(fs[p + 1]) \in Entrada
    BY <1>7, <1>11
<1>13. /\ r \in Seq(Entrada) /\ Len(r) = p + 1
       /\ \A n \in 1 .. p : r[n] = sent[t][n]
       /\ r[p + 1] = Fila(fs[p + 1])
    BY <1>3, <1>10, <1>12, AppendProperties
<1>14. q \in [1 .. p + 1 -> Entrada]
    BY <1>7
<1>15. r \in [1 .. p + 1 -> Entrada]
    BY <1>13, LenProperties
<1>16. \A n \in 1 .. p + 1 : r[n] = q[n]
    BY <1>2, <1>3, <1>13
<1> DEFINE D == 1 .. p + 1
<1>a. q \in [D -> Entrada] /\ r \in [D -> Entrada] /\ \A n \in D : r[n] = q[n]
    BY <1>14, <1>15, <1>16
<1> HIDE DEF q, r, D
<1>17. r = q
    BY <1>a, MismaFuncion
<1>18. sent'[t] = [n \in 1 .. pos'[t] |-> Fila(almacen'[idx2'[t]].files[n])]
    BY <1>8, <1>9, <1>17 DEF q, r, fs
<1>19. pos'[t] <= count'[t]
    BY <1>1, <1>3, <1>8, <1>9
<1>20. count'[t] = Len(almacen'[idx2'[t]].files)
    BY <1>2, <1>8 DEF fs
<1>21. Conectado(t)' /\ idx2'[t] # 0
    <2>1. Conectado(t)
        BY <1>1 DEF Contenido
    <2>2. idx' = idx /\ idx2' = idx2 /\ almacen' = almacen
        BY DEF EnviaEntrada, store
    <2> QED
        BY <1>4, <2>1, <2>2 DEF Conectado, Hay, Tupla_
<1> QED
    BY <1>18, <1>19, <1>20, <1>21 DEF Contenido

\* The entries of a list of users.
LEMMA UsuariosStep ==
    ASSUME IInv2, NEW t \in Threads, EnviaEntrada(t), Op(t) = "list_users",
           Usuarios(t)
    PROVE  Usuarios(t)'
<1> DEFINE C == Conectados(almacen)
           Hasta(k) == {i \in C : i <= k}
<1>1. pc[t] = "send"
    BY DEF EnviaEntrada, En
<1>2. Len(almacen) \in Nat
    BY LenProperties DEF IInv2, IInv, StoreInv
<1>3. IsFiniteSet(1 .. Len(almacen))
    BY <1>2, FS_Interval
<1>4. IsFiniteSet(Hasta(pos[t]))
    BY <1>3, FS_Subset DEF Conectados
<1>5. pos[t] \in Nat /\ sent[t] \in Seq(Entrada)
    BY DEF IInv2, DataInv
<1>6. C \subseteq Nat
    BY <1>2 DEF Conectados
<1>7. PICK k \in C :
         /\ k > pos[t]
         /\ \A j \in C : j <= pos[t] \/ j >= k
         /\ pos' = [pos EXCEPT ![t] = k]
         /\ sent' = [sent EXCEPT ![t] =
                       Append(sent[t], <<almacen[k].cliente, almacen[k].addr>>)]
    BY DEF EnviaEntrada
<1>8. UNCHANGED <<pc, req, almacen, count, idx>>
    BY DEF EnviaEntrada, store
<1> DEFINE e == <<almacen[k].cliente, almacen[k].addr>>
<1>9. e \in Entrada
    <2>1. k \in 1 .. Len(almacen)
        BY DEF Conectados
    <2>2. almacen[k] \in Tupla
        BY <2>1, ElementOfSeq DEF IInv2, IInv, StoreInv
    <2> QED
        BY <2>2 DEF Tupla, Entrada
<1>10. pos'[t] = k /\ sent'[t] = Append(sent[t], e)
    BY <1>7 DEF IInv2, DataInv
<1>11. Hasta(k) = Hasta(pos[t]) \cup {k} /\ k \notin Hasta(pos[t])
    BY <1>5, <1>6, <1>7
<1>12. /\ count[t] = Cardinality(C)
       /\ Len(sent[t]) = Cardinality(Hasta(pos[t]))
       /\ \A n \in 1 .. Len(sent[t]) : \E i \in C : sent[t][n] = Par(i)
       /\ \A i \in C : i <= pos[t] =>
             \E n \in 1 .. Len(sent[t]) : sent[t][n] = Par(i)
       /\ Hay(t) /\ C # {}
    BY <1>1 DEF Usuarios
<1> HIDE DEF e, C
<1>13. /\ Len(sent'[t]) = Len(sent[t]) + 1
       /\ \A n \in 1 .. Len(sent[t]) : sent'[t][n] = sent[t][n]
       /\ sent'[t][Len(sent[t]) + 1] = e
    BY <1>5, <1>9, <1>10, AppendProperties
<1> HIDE DEF Hasta
<1>14. Cardinality(Hasta(k)) = Cardinality(Hasta(pos[t])) + 1
    BY <1>4, <1>11, FS_AddElement
<1>15. Len(sent[t]) \in Nat
    BY <1>5, LenProperties
<1>16. \A n \in 1 .. Len(sent'[t]) : \E i \in C : sent'[t][n] = Par(i)
    <2> SUFFICES ASSUME NEW n \in 1 .. Len(sent[t]) + 1
                 PROVE  \E i \in C : sent'[t][n] = Par(i)
        BY <1>13
    <2>1. CASE n = Len(sent[t]) + 1
        BY <1>7, <1>13, <2>1 DEF e, Par
    <2>2. CASE n # Len(sent[t]) + 1
        <3>1. n \in 1 .. Len(sent[t])
            BY <1>15, <2>2
        <3> QED
            BY <1>12, <1>13, <3>1
    <2> QED
        BY <2>1, <2>2
<1>19. ASSUME NEW i \in C, i <= k
       PROVE  \E n \in 1 .. Len(sent'[t]) : sent'[t][n] = Par(i)
    <2>1. i <= pos[t] \/ i = k
        BY <1>6, <1>7, <1>19
    <2>2. CASE i <= pos[t]
        <3>1. PICK n \in 1 .. Len(sent[t]) : sent[t][n] = Par(i)
            BY <1>12, <2>2
        <3>2. n \in 1 .. Len(sent'[t])
            BY <1>13, <1>15
        <3> QED
            BY <1>13, <3>1, <3>2
    <2>3. CASE i = k
        <3>1. Len(sent[t]) + 1 \in 1 .. Len(sent'[t])
            BY <1>13, <1>15
        <3> QED
            BY <1>13, <2>3, <3>1 DEF e, Par
    <2> QED
        BY <2>1, <2>2, <2>3
<1>17. Len(sent'[t]) = Cardinality(Hasta(pos'[t]))
    BY <1>10, <1>12, <1>13, <1>14
<1>18. Conectados(almacen') = C
    BY <1>8 DEF C
<1>20. \A i \in C : Par(i)' = Par(i)
    BY <1>8 DEF Par
<1>21. Hay(t)'
    BY <1>8, <1>12 DEF Hay
<1>22. count'[t] = Cardinality(Conectados(almacen'))
    BY <1>8, <1>12, <1>18
<1>23. Len(sent'[t]) = Cardinality({i \in Conectados(almacen') : i <= pos'[t]})
    BY <1>17, <1>18 DEF Hasta
<1>24. \A n \in 1 .. Len(sent'[t]) :
          \E i \in Conectados(almacen') : sent'[t][n] = Par(i)'
    BY <1>16, <1>18, <1>20
<1>25. \A i \in Conectados(almacen') : i <= pos'[t] =>
          \E n \in 1 .. Len(sent'[t]) : sent'[t][n] = Par(i)'
    BY <1>10, <1>18, <1>19, <1>20
<1> QED
    BY <1>12, <1>18, <1>21, <1>22, <1>23, <1>24, <1>25 DEF Usuarios

\* The end of a listing: everything announced has been sent.
LEMMA FinStep ==
    ASSUME IInv2, NEW t \in Threads, TerminaLista(t), Usuarios(t), Contenido(t)
    PROVE  Fin(t)' /\ pc'[t] # "send"
<1>1. pc[t] = "send" /\ ~QuedanEntradas(t)
    BY DEF TerminaLista, En
<1>2. UNCHANGED <<sent, count, req>> /\ pc'[t] # "send"
    BY DEF TerminaLista, Rechaza, Devuelve, Va, local, IInv2, IInv, CtlInv
<1>3. pos[t] \in Nat /\ count[t] \in Nat /\ sent[t] \in Seq(Entrada)
    BY DEF IInv2, IInv, ThreadInv, DataInv
<1>4. ASSUME Op(t) = "list_users" PROVE Len(sent[t]) = count[t]
    <2>1. Len(almacen) \in Nat
        BY LenProperties DEF IInv2, IInv, StoreInv
    <2>2. \A i \in Conectados(almacen) : i \in Nat /\ ~(i > pos[t])
        BY <1>1, <1>4, <2>1 DEF QuedanEntradas, Conectados
    <2>3. {i \in Conectados(almacen) : i <= pos[t]} = Conectados(almacen)
        BY <1>3, <2>2
    <2> QED
        BY <1>1, <1>4, <2>3 DEF Usuarios
<1>5. ASSUME Op(t) = "list_content" PROVE Len(sent[t]) = count[t]
    <2>1. ~(pos[t] < count[t])
        BY <1>1, <1>5 DEF QuedanEntradas
    <2>2. pos[t] = count[t]
        BY <1>1, <1>3, <1>5, <2>1 DEF Contenido
    <2>3. DOMAIN sent[t] = 1 .. pos[t]
        BY <1>1, <1>5 DEF Contenido
    <2>4. DOMAIN sent[t] = 1 .. Len(sent[t]) /\ Len(sent[t]) \in Nat
        BY <1>3, LenProperties
    <2> QED
        BY <1>3, <2>2, <2>3, <2>4
<1>6. Op(t)' = Op(t)
    BY <1>2 DEF Op
<1> QED
    BY <1>2, <1>4, <1>5, <1>6 DEF Fin

-----------------------------------------------------------------------------
(* Every step keeps every listing.                                         *)

IInv4 == IInv3 /\ InstantaneaInv

\* The step of another thread: whoever sends a listing owns the mutex.
LEMMA ListaDeOtro ==
    ASSUME IInv4, NEW t \in Threads, Avanza(t), NEW s \in Threads, s # t
    PROVE  Usuarios(s)' /\ Contenido(s)' /\ Fin(s)'
<1>1. /\ pc'[s] = pc[s] /\ req'[s] = req[s] /\ idx'[s] = idx[s]
      /\ idx2'[s] = idx2[s] /\ count'[s] = count[s]
    BY Frame DEF IInv4, IInv3, IInv2, IInv
<1>2. pos'[s] = pos[s] /\ sent'[s] = sent[s] /\ resp'[s] = resp[s]
    BY Ajenos DEF IInv4, IInv3, IInv2
<1>3. pc[s] = "send" => almacen' = almacen
    <2>1. pc[s] = "send" => pc[t] # "apply"
        BY DEF IInv4, IInv3, IInv2, IInv, CtlInv, MutexOwner, Critica
    <2> QED
        BY <2>1, StoreKept
<1>4. Usuarios(s) /\ Contenido(s) /\ Fin(s)
    BY DEF IInv4, InstantaneaInv
<1>5. Op(s)' = Op(s)
    BY <1>1 DEF Op
<1>6. Usuarios(s)'
    BY <1>1, <1>2, <1>3, <1>4, <1>5 DEF Usuarios, Hay, Par
<1>7. Contenido(s)'
    BY <1>1, <1>2, <1>3, <1>4, <1>5 DEF Contenido, Conectado, Hay, Tupla_
<1>8. Fin(s)'
    BY <1>1, <1>2, <1>4, <1>5 DEF Fin
<1> QED
    BY <1>6, <1>7, <1>8

\* The first step of a listing: nothing has been sent.
LEMMA ListaEmpieza ==
    ASSUME IInv3, NEW t \in Threads, pc[t] = "apply",
           UNCHANGED <<almacen, req, idx, idx2, pos, sent, resp>>,
           \/ /\ Op(t) = "list_users" /\ Hay(t) /\ Conectados(almacen) # {}
              /\ count'[t] = Cardinality(Conectados(almacen))
           \/ /\ Op(t) = "list_content" /\ Conectado(t) /\ idx2[t] # 0
              /\ count'[t] = Len(almacen[idx2[t]].files)
    PROVE  Usuarios(t)' /\ Contenido(t)' /\ Fin(t)'
<1>1. resp[t] = NoResp /\ sent[t] = <<>> /\ pos[t] = 0
    BY DEF IInv3, NuevoInv, Previos
<1>2. Op(t)' = Op(t)
    BY DEF Op
<1>3. Fin(t)'
    BY <1>1 DEF Fin, NoResp
<1>4. Usuarios(t)'
    <2>1. Len(almacen) \in Nat
        BY LenProperties DEF IInv3, IInv2, IInv, StoreInv
    <2>2. {i \in Conectados(almacen) : i <= pos[t]} = {}
        BY <1>1, <2>1 DEF Conectados
    <2>3. Cardinality({i \in Conectados(almacen) : i <= pos[t]}) = 0
        BY <2>2, FS_EmptySet
    <2>4. Len(sent[t]) = 0 /\ 1 .. Len(sent[t]) = {}
        BY <1>1
    <2> QED
        BY <1>1, <1>2, <2>1, <2>3, <2>4 DEF Usuarios, Hay, Conectados
<1>5. Contenido(t)'
    <2>1. ASSUME Op(t) = "list_content"
          PROVE  count'[t] = Len(almacen[idx2[t]].files) /\ 0 <= count'[t]
        <3>1. idx2[t] \in 1 .. Len(almacen)
            BY <2>1, Indice2Valido DEF IInv3, IInv2, IInv
        <3>2. Len(almacen[idx2[t]].files) \in Nat
            BY <3>1, CuentaType DEF IInv3, IInv2, IInv
        <3> QED
            BY <2>1, <3>2
    <2>2. sent[t] = [n \in 1 .. pos[t] |-> Fila(almacen[idx2[t]].files[n])]
        BY <1>1
    <2> QED
        BY <1>1, <1>2, <2>1, <2>2 DEF Contenido, Conectado, Hay, Tupla_
<1> QED
    BY <1>3, <1>4, <1>5

LEMMA ListaPropia ==
    ASSUME IInv4, NEW t \in Threads, Avanza(t)
    PROVE  Usuarios(t)' /\ Contenido(t)' /\ Fin(t)'
<1>1. /\ CtlInv /\ ThreadInv /\ DataInv /\ IInv2 /\ IInv3 /\ NuevoInv
      /\ Usuarios(t) /\ Contenido(t) /\ Fin(t)
    BY DEF IInv4, IInv3, IInv2, IInv, InstantaneaInv
<1>2. ASSUME pc'[t] # "send" PROVE Usuarios(t)' /\ Contenido(t)'
    BY <1>2 DEF Usuarios, Contenido
<1>3. CASE /\ UNCHANGED <<count, sent, resp>>
           /\ pc'[t] # "send"
           /\ pc[t] \in Previos \/ req' = req
    <2>1. CASE pc[t] \in Previos
        <3>1. resp'[t] # 0
            BY <1>1, <1>3, <2>1 DEF NuevoInv, NoResp
        <3> QED
            BY <1>2, <1>3, <3>1 DEF Fin
    <2>2. CASE req' = req
        BY <1>1, <1>2, <1>3, <2>2 DEF Fin, Op
    <2> QED
        BY <1>3, <2>1, <2>2
<1>4. CASE UNCHANGED <<pc, req, almacen, idx, idx2, pos, count, sent, resp>>
    BY <1>1, <1>4
    DEF Usuarios, Contenido, Fin, Op, Hay, Conectado, Tupla_, Par
<1>5. CASE resp'[t] # 0 /\ pc'[t] # "send"
    BY <1>2, <1>5 DEF Fin
<1>6. CASE /\ Op(t) \notin {"list_users", "list_content"}
           /\ req' = req /\ pc'[t] # "send"
    BY <1>2, <1>6 DEF Fin, Op
<1>7. CASE /\ pc[t] = "apply"
           /\ UNCHANGED <<almacen, req, idx, idx2, pos, sent, resp>>
           /\ \/ /\ Op(t) = "list_users" /\ Hay(t) /\ Conectados(almacen) # {}
                 /\ count'[t] = Cardinality(Conectados(almacen))
              \/ /\ Op(t) = "list_content" /\ Conectado(t) /\ idx2[t] # 0
                 /\ count'[t] = Len(almacen[idx2[t]].files)
    BY <1>1, <1>7, ListaEmpieza
<1>8. CASE EnviaEntrada(t)
    <2>1. pc[t] = "send" /\ UNCHANGED <<resp, req>>
        BY <1>8 DEF EnviaEntrada, En
    <2>2. Fin(t)'
        BY <1>1, <2>1 DEF Fin, NuevoInv, NoResp
    <2>3. Op(t)' = Op(t)
        BY <2>1 DEF Op
    <2>4. CASE Op(t) = "list_users"
        BY <1>1, <1>8, <2>2, <2>3, <2>4, UsuariosStep DEF Contenido
    <2>5. CASE Op(t) = "list_content"
        BY <1>1, <1>8, <2>2, <2>3, <2>5, ContenidoStep DEF Usuarios
    <2> QED
        BY <1>8, <2>4, <2>5 DEF EnviaEntrada
<1>9. CASE TerminaLista(t)
    BY <1>1, <1>2, <1>9, FinStep
<1> QED
    BY <1>1, <1>3, <1>4, <1>5, <1>6, <1>7, <1>8, <1>9, PasoDeLista

LEMMA InitIInv4 == Init => IInv4
<1> SUFFICES ASSUME Init PROVE IInv4
    OBVIOUS
<1>1. IInv3
    BY InitIInv3
<1>2. InstantaneaInv
    BY DEF Init, InstantaneaInv, Usuarios, Contenido, Fin, NoResp
<1> QED
    BY <1>1, <1>2 DEF IInv4

LEMMA StepIInv4 == IInv4 /\ [Next]_vars => IInv4'
<1> SUFFICES ASSUME IInv4, [Next]_vars PROVE IInv4'
    OBVIOUS
<1>1. IInv3'
    BY StepIInv3 DEF IInv4
<1>2. ASSUME NEW t \in Threads, Avanza(t) PROVE InstantaneaInv'
    <2> SUFFICES ASSUME NEW s \in Threads
                 PROVE  Usuarios(s)' /\ Contenido(s)' /\ Fin(s)'
        BY DEF InstantaneaInv
    <2>1. CASE s = t
        BY <1>2, <2>1, ListaPropia
    <2>2. CASE s # t
        BY <1>2, <2>2, ListaDeOtro
    <2> QED
        BY <2>1, <2>2
<1>3. ASSUME UNCHANGED vars PROVE InstantaneaInv'
    BY <1>3 DEF vars, local, IInv4, InstantaneaInv, Usuarios, Contenido, Fin,
        Op, Hay, Conectado, Tupla_, Par
<1>4. InstantaneaInv'
    BY <1>2, <1>3 DEF Next, Avanza, Parado
<1> QED
    BY <1>1, <1>4 DEF IInv4

\* A listing is the store at one instant: as many entries as announced, each
\* of them still in the store when the last is sent (server.c 592-673, 769-796).
THEOREM ListingConsistent == Spec => []ListingIsSnapshot
<1>1. Spec => []IInv4
    BY InitIInv4, StepIInv4, PTL DEF Spec
<1>2. IInv4 => ListingIsSnapshot
    BY InstantaneaBasta DEF IInv4
<1> QED
    BY <1>1, <1>2, PTL

=============================================================================
