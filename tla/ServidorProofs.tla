--------------------------- MODULE ServidorProofs ---------------------------
(***************************************************************************)
(* The concurrent server, for any threads, clients and stores: the mutex   *)
(* is released on every path, the index a handler found stays right until  *)
(* it is used, the array does not overflow, and no user gets two files of  *)
(* one name.                                                               *)
(***************************************************************************)
EXTENDS Servidor, AlmacenProofs, FiniteSetTheorems

\* A step of thread t: its client arrives, or it runs.
Avanza(t) == Paso(t) \/ \E c \in Cliente : Llega(t, c)

\* The mutex and the places of the threads.
CtlInv ==
    /\ mutex \in Threads \cup {Nobody}
    /\ pc \in [Threads -> Lugares]
    /\ MutexOwner

\* The types of what a thread reads and finds.
ThreadInv ==
    /\ req \in [Threads -> Cliente \cup {NoPeticion}]
    /\ args \in [Threads -> Peticion \cup {NoArgs}]
    /\ idx \in [Threads -> Nat]
    /\ idx2 \in [Threads -> Nat]
    /\ count \in [Threads -> Nat]
    /\ \A t \in Threads : pc[t] # "idle" => req[t] \in Cliente
    /\ \A t \in Threads :
          pc[t] \in {"search", "apply", "send"} => args[t] \in Peticion
    /\ \A t \in Threads : pc[t] \in {"lock", "args"} => Op(t) \in Ops

\* The store.
StoreInv ==
    /\ almacen \in Seq(Tupla)
    /\ max_tuplas \in Nat \ {0}
    /\ CapacityOK
    /\ FilesUnique

IInv == CtlInv /\ ThreadInv /\ StoreInv /\ IndexFresh

-----------------------------------------------------------------------------
(* The mutex.                                                              *)

LEMMA CtlStep ==
    ASSUME CtlInv, NEW t \in Threads, Avanza(t)
    PROVE  CtlInv'
<1> USE ServidorAssumption DEF ServidorAssumption, CtlInv, MutexOwner,
        Critica, Lugares, En, Va
<1>1. ASSUME NEW c \in Cliente, Llega(t, c) PROVE CtlInv'
    BY <1>1 DEF Llega
<1>2. ASSUME CreaRpc(t) PROVE CtlInv'
    BY <1>2 DEF CreaRpc
<1>3. ASSUME RpcNoCreado(t) PROVE CtlInv'
    BY <1>3 DEF RpcNoCreado
<1>4. ASSUME LeeCabecera(t) PROVE CtlInv'
    BY <1>4 DEF LeeCabecera
<1>5. ASSUME CabeceraFalla(t) PROVE CtlInv'
    BY <1>5 DEF CabeceraFalla
<1>6. ASSUME Desconocida(t) PROVE CtlInv'
    BY <1>6 DEF Desconocida, Muere
<1>7. ASSUME Entra(t) PROVE CtlInv'
    BY <1>7 DEF Entra
<1>8. ASSUME LeeArgs(t) PROVE CtlInv'
    BY <1>8 DEF LeeArgs
<1>9. ASSUME ArgsFallan(t) PROVE CtlInv'
    BY <1>9 DEF ArgsFallan, Devuelve
<1>10. ASSUME Busca(t) PROVE CtlInv'
    BY <1>10 DEF Busca
<1>11. ASSUME s_register(t) PROVE CtlInv'
    BY <1>11 DEF s_register, Atiende, Rechaza, Cambia, Devuelve, Muere
<1>12. ASSUME s_unregister(t) PROVE CtlInv'
    BY <1>12 DEF s_unregister, Atiende, Rechaza, Cambia, Devuelve
<1>13. ASSUME s_connect(t) PROVE CtlInv'
    BY <1>13 DEF s_connect, Atiende, Rechaza, Cambia, Devuelve
<1>14. ASSUME s_disconnect(t) PROVE CtlInv'
    BY <1>14 DEF s_disconnect, Atiende, Rechaza, Cambia, Devuelve
<1>15. ASSUME s_publish(t) PROVE CtlInv'
    BY <1>15 DEF s_publish, Atiende, Rechaza, Cambia, Devuelve
<1>16. ASSUME s_delete(t) PROVE CtlInv'
    BY <1>16 DEF s_delete, Atiende, Rechaza, Cambia, Devuelve
<1>17. ASSUME s_get_file(t) PROVE CtlInv'
    BY <1>17 DEF s_get_file, Atiende, EnviaCodigo, EnvioFalla, Rechaza,
           Devuelve, Muere
<1>18. ASSUME s_list_users(t) PROVE CtlInv'
    BY <1>18 DEF s_list_users, Atiende, EnviaCodigo, Empieza, EnvioFalla,
           Rechaza, Devuelve, Muere
<1>19. ASSUME s_list_content(t) PROVE CtlInv'
    BY <1>19 DEF s_list_content, Atiende, EnviaCodigo, Empieza, EnvioFalla,
           Rechaza, Devuelve, Muere
<1>20. ASSUME EnviaEntrada(t) PROVE CtlInv'
    BY <1>20 DEF EnviaEntrada
<1>21. ASSUME EntradaFalla(t) PROVE CtlInv'
    BY <1>21 DEF EntradaFalla, EnvioFalla, Rechaza, Devuelve, Muere
<1>22. ASSUME TerminaLista(t) PROVE CtlInv'
    BY <1>22 DEF TerminaLista, Rechaza, Devuelve
<1>23. ASSUME Responde(t) PROVE CtlInv'
    BY <1>23 DEF Responde, Muere
<1>24. ASSUME Registra(t) PROVE CtlInv'
    BY <1>24 DEF Registra
<1> QED
    BY <1>1, <1>2, <1>3, <1>4, <1>5, <1>6, <1>7, <1>8, <1>9, <1>10,
       <1>11, <1>12, <1>13, <1>14, <1>15, <1>16, <1>17, <1>18, <1>19,
       <1>20, <1>21, <1>22, <1>23, <1>24 DEF Paso, Avanza

-----------------------------------------------------------------------------
(* What a step leaves alone.                                               *)

\* A step of t changes nothing that belongs to another thread.
LEMMA Frame ==
    ASSUME CtlInv, ThreadInv, NEW t \in Threads, Avanza(t),
           NEW s \in Threads, s # t
    PROVE  /\ pc'[s] = pc[s]
           /\ req'[s] = req[s]
           /\ args'[s] = args[s]
           /\ idx'[s] = idx[s]
           /\ idx2'[s] = idx2[s]
           /\ count'[s] = count[s]
<1> DEFINE Same == /\ pc'[s] = pc[s]
                   /\ req'[s] = req[s]
                   /\ args'[s] = args[s]
                   /\ idx'[s] = idx[s]
                   /\ idx2'[s] = idx2[s]
                   /\ count'[s] = count[s]
<1> USE DEF CtlInv, ThreadInv, Va, local
<1>1. ASSUME NEW c \in Cliente, Llega(t, c) PROVE Same
    BY <1>1 DEF Llega
<1>2. ASSUME CreaRpc(t) PROVE Same
    BY <1>2 DEF CreaRpc
<1>3. ASSUME RpcNoCreado(t) PROVE Same
    BY <1>3 DEF RpcNoCreado
<1>4. ASSUME LeeCabecera(t) PROVE Same
    BY <1>4 DEF LeeCabecera
<1>5. ASSUME CabeceraFalla(t) PROVE Same
    BY <1>5 DEF CabeceraFalla
<1>6. ASSUME Desconocida(t) PROVE Same
    BY <1>6 DEF Desconocida, Muere
<1>7. ASSUME Entra(t) PROVE Same
    BY <1>7 DEF Entra
<1>8. ASSUME LeeArgs(t) PROVE Same
    BY <1>8 DEF LeeArgs
<1>9. ASSUME ArgsFallan(t) PROVE Same
    BY <1>9 DEF ArgsFallan, Devuelve
<1>10. ASSUME Busca(t) PROVE Same
    BY <1>10 DEF Busca
<1>11. ASSUME s_register(t) PROVE Same
    BY <1>11 DEF s_register, Atiende, Rechaza, Cambia, Devuelve, Muere
<1>12. ASSUME s_unregister(t) PROVE Same
    BY <1>12 DEF s_unregister, Atiende, Rechaza, Cambia, Devuelve
<1>13. ASSUME s_connect(t) PROVE Same
    BY <1>13 DEF s_connect, Atiende, Rechaza, Cambia, Devuelve
<1>14. ASSUME s_disconnect(t) PROVE Same
    BY <1>14 DEF s_disconnect, Atiende, Rechaza, Cambia, Devuelve
<1>15. ASSUME s_publish(t) PROVE Same
    BY <1>15 DEF s_publish, Atiende, Rechaza, Cambia, Devuelve
<1>16. ASSUME s_delete(t) PROVE Same
    BY <1>16 DEF s_delete, Atiende, Rechaza, Cambia, Devuelve
<1>17. ASSUME s_get_file(t) PROVE Same
    BY <1>17 DEF s_get_file, Atiende, EnviaCodigo, EnvioFalla, Rechaza,
           Devuelve, Muere
<1>18. ASSUME s_list_users(t) PROVE Same
    BY <1>18 DEF s_list_users, Atiende, EnviaCodigo, Empieza, EnvioFalla,
           Rechaza, Devuelve, Muere
<1>19. ASSUME s_list_content(t) PROVE Same
    BY <1>19 DEF s_list_content, Atiende, EnviaCodigo, Empieza, EnvioFalla,
           Rechaza, Devuelve, Muere
<1>20. ASSUME EnviaEntrada(t) PROVE Same
    BY <1>20 DEF EnviaEntrada
<1>21. ASSUME EntradaFalla(t) PROVE Same
    BY <1>21 DEF EntradaFalla, EnvioFalla, Rechaza, Devuelve, Muere
<1>22. ASSUME TerminaLista(t) PROVE Same
    BY <1>22 DEF TerminaLista, Rechaza, Devuelve
<1>23. ASSUME Responde(t) PROVE Same
    BY <1>23 DEF Responde, Muere
<1>24. ASSUME Registra(t) PROVE Same
    BY <1>24 DEF Registra
<1> QED
    BY <1>1, <1>2, <1>3, <1>4, <1>5, <1>6, <1>7, <1>8, <1>9, <1>10,
       <1>11, <1>12, <1>13, <1>14, <1>15, <1>16, <1>17, <1>18, <1>19,
       <1>20, <1>21, <1>22, <1>23, <1>24 DEF Paso, Avanza

\* Only a thread in its handler, after the search, changes the store.
LEMMA StoreKept ==
    ASSUME NEW t \in Threads, Avanza(t), pc[t] # "apply"
    PROVE  UNCHANGED <<almacen, max_tuplas>>
<1> USE DEF En, store
<1>1. ASSUME NEW c \in Cliente, Llega(t, c) PROVE UNCHANGED <<almacen, max_tuplas>>
    BY <1>1 DEF Llega
<1>2. ASSUME CreaRpc(t) PROVE UNCHANGED <<almacen, max_tuplas>>
    BY <1>2 DEF CreaRpc
<1>3. ASSUME RpcNoCreado(t) PROVE UNCHANGED <<almacen, max_tuplas>>
    BY <1>3 DEF RpcNoCreado
<1>4. ASSUME LeeCabecera(t) PROVE UNCHANGED <<almacen, max_tuplas>>
    BY <1>4 DEF LeeCabecera
<1>5. ASSUME CabeceraFalla(t) PROVE UNCHANGED <<almacen, max_tuplas>>
    BY <1>5 DEF CabeceraFalla
<1>6. ASSUME Desconocida(t) PROVE UNCHANGED <<almacen, max_tuplas>>
    BY <1>6 DEF Desconocida, Muere
<1>7. ASSUME Entra(t) PROVE UNCHANGED <<almacen, max_tuplas>>
    BY <1>7 DEF Entra
<1>8. ASSUME LeeArgs(t) PROVE UNCHANGED <<almacen, max_tuplas>>
    BY <1>8 DEF LeeArgs
<1>9. ASSUME ArgsFallan(t) PROVE UNCHANGED <<almacen, max_tuplas>>
    BY <1>9 DEF ArgsFallan, Devuelve
<1>10. ASSUME Busca(t) PROVE UNCHANGED <<almacen, max_tuplas>>
    BY <1>10 DEF Busca
<1>11. ASSUME s_register(t) PROVE UNCHANGED <<almacen, max_tuplas>>
    BY <1>11 DEF s_register, Atiende, Rechaza, Cambia, Devuelve, Muere
<1>12. ASSUME s_unregister(t) PROVE UNCHANGED <<almacen, max_tuplas>>
    BY <1>12 DEF s_unregister, Atiende, Rechaza, Cambia, Devuelve
<1>13. ASSUME s_connect(t) PROVE UNCHANGED <<almacen, max_tuplas>>
    BY <1>13 DEF s_connect, Atiende, Rechaza, Cambia, Devuelve
<1>14. ASSUME s_disconnect(t) PROVE UNCHANGED <<almacen, max_tuplas>>
    BY <1>14 DEF s_disconnect, Atiende, Rechaza, Cambia, Devuelve
<1>15. ASSUME s_publish(t) PROVE UNCHANGED <<almacen, max_tuplas>>
    BY <1>15 DEF s_publish, Atiende, Rechaza, Cambia, Devuelve
<1>16. ASSUME s_delete(t) PROVE UNCHANGED <<almacen, max_tuplas>>
    BY <1>16 DEF s_delete, Atiende, Rechaza, Cambia, Devuelve
<1>17. ASSUME s_get_file(t) PROVE UNCHANGED <<almacen, max_tuplas>>
    BY <1>17 DEF s_get_file, Atiende, EnviaCodigo, EnvioFalla, Rechaza,
           Devuelve, Muere
<1>18. ASSUME s_list_users(t) PROVE UNCHANGED <<almacen, max_tuplas>>
    BY <1>18 DEF s_list_users, Atiende, EnviaCodigo, Empieza, EnvioFalla,
           Rechaza, Devuelve, Muere
<1>19. ASSUME s_list_content(t) PROVE UNCHANGED <<almacen, max_tuplas>>
    BY <1>19 DEF s_list_content, Atiende, EnviaCodigo, Empieza, EnvioFalla,
           Rechaza, Devuelve, Muere
<1>20. ASSUME EnviaEntrada(t) PROVE UNCHANGED <<almacen, max_tuplas>>
    BY <1>20 DEF EnviaEntrada
<1>21. ASSUME EntradaFalla(t) PROVE UNCHANGED <<almacen, max_tuplas>>
    BY <1>21 DEF EntradaFalla, EnvioFalla, Rechaza, Devuelve, Muere
<1>22. ASSUME TerminaLista(t) PROVE UNCHANGED <<almacen, max_tuplas>>
    BY <1>22 DEF TerminaLista, Rechaza, Devuelve
<1>23. ASSUME Responde(t) PROVE UNCHANGED <<almacen, max_tuplas>>
    BY <1>23 DEF Responde, Muere
<1>24. ASSUME Registra(t) PROVE UNCHANGED <<almacen, max_tuplas>>
    BY <1>24 DEF Registra
<1> QED
    BY <1>1, <1>2, <1>3, <1>4, <1>5, <1>6, <1>7, <1>8, <1>9, <1>10,
       <1>11, <1>12, <1>13, <1>14, <1>15, <1>16, <1>17, <1>18, <1>19,
       <1>20, <1>21, <1>22, <1>23, <1>24 DEF Paso, Avanza

-----------------------------------------------------------------------------
(* What the threads read.                                                  *)

\* A thread that is in a handler serves one of the nine operations.
LEMMA PeticionOp ==
    ASSUME NEW t \in Threads, req[t] \in Cliente, Op(t) # "otra"
    PROVE  Op(t) \in Ops
<1>1. req[t].pet \in Peticion
    BY ServidorAssumption DEF ServidorAssumption, Cliente
<1> QED
    BY <1>1 DEF Op, Peticion

\* Whatever the stack holds, a thread reads a request.
LEMMA RecibidaType ==
    ASSUME NEW t \in Threads, req[t] \in Cliente, NEW g \in Pila(t)
    PROVE  Recibida(t, g) \in Peticion
<1>1. req[t].pet \in Peticion /\ g \in Peticion
    BY ServidorAssumption DEF ServidorAssumption, Cliente, Pila
<1> QED
    BY <1>1 DEF Recibida, Peticion

\* A search that found something found a tuple of the store.
LEMMA EncuentraTupla ==
    ASSUME StoreInv, NEW op, NEW u, NEW i \in Nat, i # 0, Encuentra(op, u, i)
    PROVE  i \in 1 .. Len(almacen) /\ almacen[i] \in Tupla /\ almacen[i].cliente = u
<1>1. Len(almacen) \in Nat
    BY LenProperties DEF StoreInv
<1>2. i \in 1 .. Len(almacen) /\ almacen[i].cliente = u
    BY <1>1 DEF Encuentra, Halla, EsPrimero, EsUltimo, EstaEnUso
<1> QED
    BY <1>2, ElementOfSeq DEF StoreInv

\* The tuple a handler works on.
LEMMA IndiceValido ==
    ASSUME CtlInv, ThreadInv, StoreInv, IndexFresh, NEW t \in Threads,
           pc[t] = "apply", Hay(t)
    PROVE  /\ idx[t] \in 1 .. Len(almacen)
           /\ almacen[idx[t]] \in Tupla
           /\ almacen[idx[t]].cliente = args[t].user
    BY EncuentraTupla DEF IndexFresh, ThreadInv, Hay

\* The tuple whose files list_content sends.
LEMMA Indice2Valido ==
    ASSUME ThreadInv, StoreInv, IndexFresh, NEW t \in Threads,
           pc[t] \in {"apply", "send"}, Op(t) = "list_content", idx2[t] # 0
    PROVE  idx2[t] \in 1 .. Len(almacen) /\ almacen[idx2[t]] \in Tupla
    BY EncuentraTupla DEF IndexFresh, ThreadInv

\* The number of entries a listing announces is a number.
LEMMA CuentaType ==
    ASSUME StoreInv
    PROVE  /\ Cardinality(Conectados(almacen)) \in Nat
           /\ \A i \in 1 .. Len(almacen) : Len(almacen[i].files) \in Nat
<1>1. Len(almacen) \in Nat
    BY LenProperties DEF StoreInv
<1>2. IsFiniteSet(1 .. Len(almacen))
    BY <1>1, FS_Interval
<1>3. IsFiniteSet(Conectados(almacen))
    BY <1>2, FS_Subset DEF Conectados
<1>4. Cardinality(Conectados(almacen)) \in Nat
    BY <1>3, FS_CardinalityType
<1>5. ASSUME NEW i \in 1 .. Len(almacen)
      PROVE  Len(almacen[i].files) \in Nat
    <2>1. almacen[i] \in Tupla
        BY ElementOfSeq DEF StoreInv
    <2>2. almacen[i].files \in Seq(Fichero)
        BY <2>1 DEF Tupla
    <2> QED
        BY <2>2, LenProperties
<1> QED
    BY <1>4, <1>5

LEMMA ThreadStep ==
    ASSUME CtlInv, ThreadInv, StoreInv, IndexFresh, NEW t \in Threads, Avanza(t)
    PROVE  ThreadInv'
<1> USE DEF ThreadInv, CtlInv, Lugares, En, Va, Op, local, store
<1>a. Len(almacen) \in Nat
    BY LenProperties DEF StoreInv
<1>1. ASSUME NEW c \in Cliente, Llega(t, c) PROVE ThreadInv'
    BY <1>1 DEF Llega
<1>2. ASSUME CreaRpc(t) PROVE ThreadInv'
    BY <1>2 DEF CreaRpc
<1>3. ASSUME RpcNoCreado(t) PROVE ThreadInv'
    BY <1>3 DEF RpcNoCreado
<1>4. ASSUME LeeCabecera(t) PROVE ThreadInv'
    BY <1>4, PeticionOp DEF LeeCabecera
<1>5. ASSUME CabeceraFalla(t) PROVE ThreadInv'
    BY <1>5 DEF CabeceraFalla
<1>6. ASSUME Desconocida(t) PROVE ThreadInv'
    BY <1>6 DEF Desconocida, Muere
<1>7. ASSUME Entra(t) PROVE ThreadInv'
    BY <1>7 DEF Entra
<1>8. ASSUME LeeArgs(t) PROVE ThreadInv'
    BY <1>8, RecibidaType DEF LeeArgs
<1>9. ASSUME ArgsFallan(t) PROVE ThreadInv'
    BY <1>9 DEF ArgsFallan, Devuelve
<1>10. ASSUME Busca(t) PROVE ThreadInv'
    BY <1>10, <1>a DEF Busca
<1>11. ASSUME s_register(t) PROVE ThreadInv'
    BY <1>11 DEF s_register, Atiende, Rechaza, Cambia, Devuelve, Muere
<1>12. ASSUME s_unregister(t) PROVE ThreadInv'
    BY <1>12 DEF s_unregister, Atiende, Rechaza, Cambia, Devuelve
<1>13. ASSUME s_connect(t) PROVE ThreadInv'
    BY <1>13 DEF s_connect, Atiende, Rechaza, Cambia, Devuelve
<1>14. ASSUME s_disconnect(t) PROVE ThreadInv'
    BY <1>14 DEF s_disconnect, Atiende, Rechaza, Cambia, Devuelve
<1>15. ASSUME s_publish(t) PROVE ThreadInv'
    BY <1>15 DEF s_publish, Atiende, Rechaza, Cambia, Devuelve
<1>16. ASSUME s_delete(t) PROVE ThreadInv'
    BY <1>16 DEF s_delete, Atiende, Rechaza, Cambia, Devuelve
<1>17. ASSUME s_get_file(t) PROVE ThreadInv'
    BY <1>17 DEF s_get_file, Atiende, EnviaCodigo, EnvioFalla, Rechaza,
           Devuelve, Muere
<1>18. ASSUME s_list_users(t) PROVE ThreadInv'
    BY <1>18, CuentaType
    DEF s_list_users, Atiende, EnviaCodigo, Empieza, EnvioFalla, Rechaza,
        Devuelve, Muere
<1>19. ASSUME s_list_content(t) PROVE ThreadInv'
    <2>1. idx2[t] # 0 => Len(almacen[idx2[t]].files) \in Nat
        BY <1>19, CuentaType, Indice2Valido DEF s_list_content, Atiende
    <2> QED
        BY <1>19, <2>1
        DEF s_list_content, Atiende, EnviaCodigo, Empieza, EnvioFalla,
            Rechaza, Devuelve, Muere
<1>20. ASSUME EnviaEntrada(t) PROVE ThreadInv'
    BY <1>20 DEF EnviaEntrada
<1>21. ASSUME EntradaFalla(t) PROVE ThreadInv'
    BY <1>21 DEF EntradaFalla, EnvioFalla, Rechaza, Devuelve, Muere
<1>22. ASSUME TerminaLista(t) PROVE ThreadInv'
    BY <1>22 DEF TerminaLista, Rechaza, Devuelve
<1>23. ASSUME Responde(t) PROVE ThreadInv'
    BY <1>23 DEF Responde, Muere
<1>24. ASSUME Registra(t) PROVE ThreadInv'
    BY <1>24 DEF Registra
<1> QED
    BY <1>1, <1>2, <1>3, <1>4, <1>5, <1>6, <1>7, <1>8, <1>9, <1>10,
       <1>11, <1>12, <1>13, <1>14, <1>15, <1>16, <1>17, <1>18, <1>19,
       <1>20, <1>21, <1>22, <1>23, <1>24 DEF Paso, Avanza

-----------------------------------------------------------------------------
(* The handlers that change the store.                                     *)

\* Replacing one tuple by another with unique file names keeps the store.
LEMMA TuplaCambiada ==
    ASSUME StoreInv, NEW i \in 1 .. Len(almacen), NEW x \in Tupla,
           FicherosUnicos(x),
           almacen' = [almacen EXCEPT ![i] = x], max_tuplas' = max_tuplas
    PROVE  StoreInv'
<1>1. /\ almacen' \in Seq(Tupla)
      /\ Len(almacen') = Len(almacen)
      /\ \A j \in 1 .. Len(almacen) : almacen'[j] = IF j = i THEN x ELSE almacen[j]
    BY ExceptSeq DEF StoreInv
<1>2. FilesUnique'
    BY <1>1 DEF StoreInv, FilesUnique
<1> QED
    BY <1>1, <1>2 DEF StoreInv, CapacityOK

LEMMA RegisterStore ==
    ASSUME CtlInv, ThreadInv, StoreInv, NEW t \in Threads, s_register(t)
    PROVE  StoreInv'
<1>1. CASE UNCHANGED <<almacen, max_tuplas>>
    BY <1>1 DEF StoreInv, CapacityOK, FilesUnique
<1>2. CASE /\ max_tuplas' = Doblar(Len(almacen), max_tuplas)
           /\ almacen' = Append(almacen, TuplaVacia(args[t].user))
    <2> DEFINE x == TuplaVacia(args[t].user)
    <2>1. args[t].user \in Users
        BY DEF s_register, Atiende, En, ThreadInv, Peticion
    <2>2. x.files = <<>>
        BY DEF TuplaVacia
    <2>3. <<>> \in Seq(Fichero) /\ Len(<<>>) = 0
        BY EmptySeq
    <2>4. x \in Tupla
        BY <2>1, <2>3 DEF TuplaVacia, Tupla
    <2>5. FicherosUnicos(x)
        BY <2>2, <2>3 DEF FicherosUnicos
    <2> HIDE DEF x
    <2>6. /\ almacen' \in Seq(Tupla)
          /\ Len(almacen') = Len(almacen) + 1
          /\ \A i \in 1 .. Len(almacen) : almacen'[i] = almacen[i]
          /\ almacen'[Len(almacen) + 1] = x
        BY <1>2, <2>4, AppendProperties DEF StoreInv, x
    <2>7. Len(almacen) \in Nat
        BY LenProperties DEF StoreInv
    <2>8. max_tuplas' \in Nat \ {0} /\ CapacityOK'
        <3>1. max_tuplas \in Nat \ {0} /\ Len(almacen) <= max_tuplas
            BY DEF StoreInv, CapacityOK
        <3>2. max_tuplas' = IF Len(almacen) = max_tuplas
                            THEN 2 * max_tuplas ELSE max_tuplas
            BY <1>2 DEF Doblar
        <3> QED
            BY <2>6, <2>7, <3>1, <3>2 DEF CapacityOK
    <2>9. FilesUnique'
        <3> SUFFICES ASSUME NEW i \in 1 .. Len(almacen) + 1
                     PROVE  FicherosUnicos(almacen'[i])
            BY <2>6 DEF FilesUnique
        <3>1. CASE i \in 1 .. Len(almacen)
            BY <2>6, <3>1 DEF StoreInv, FilesUnique
        <3>2. CASE i = Len(almacen) + 1
            BY <2>5, <2>6, <3>2
        <3> QED
            BY <2>7, <3>1, <3>2
    <2> QED
        BY <2>6, <2>8, <2>9 DEF StoreInv
<1> QED
    BY <1>1, <1>2 DEF s_register, Rechaza, Cambia, Muere, store

LEMMA UnregisterStore ==
    ASSUME CtlInv, ThreadInv, StoreInv, IndexFresh, NEW t \in Threads,
           s_unregister(t)
    PROVE  StoreInv'
<1>1. CASE UNCHANGED <<almacen, max_tuplas>>
    BY <1>1 DEF StoreInv, CapacityOK, FilesUnique
<1>2. CASE /\ Hay(t) /\ almacen' = Quitar(almacen, idx[t])
           /\ UNCHANGED max_tuplas
    <2>1. idx[t] \in 1 .. Len(almacen)
        BY <1>2, IndiceValido DEF s_unregister, Atiende, En
    <2>2. /\ almacen' \in Seq(Tupla)
          /\ Len(almacen') = Len(almacen) - 1
          /\ \A j \in 1 .. Len(almacen) - 1 :
                almacen'[j] = IF j = idx[t] THEN almacen[Len(almacen)] ELSE almacen[j]
        BY <1>2, <2>1, QuitarProps DEF StoreInv
    <2>3. Len(almacen) \in Nat
        BY LenProperties DEF StoreInv
    <2>4. FilesUnique'
        BY <2>1, <2>2, <2>3 DEF StoreInv, FilesUnique
    <2> QED
        BY <1>2, <2>2, <2>3, <2>4 DEF StoreInv, CapacityOK
<1> QED
    BY <1>1, <1>2 DEF s_unregister, Rechaza, Cambia, store

LEMMA ConnectStore ==
    ASSUME CtlInv, ThreadInv, StoreInv, IndexFresh, NEW t \in Threads,
           s_connect(t)
    PROVE  StoreInv'
<1>1. CASE UNCHANGED <<almacen, max_tuplas>>
    BY <1>1 DEF StoreInv, CapacityOK, FilesUnique
<1>2. CASE /\ Hay(t) /\ almacen' = Conectar(almacen, idx[t], args[t].addr)
           /\ UNCHANGED max_tuplas
    <2> DEFINE i == idx[t]
               x == [almacen[i] EXCEPT !.connected = 1, !.addr = args[t].addr]
    <2>1. i \in 1 .. Len(almacen) /\ almacen[i] \in Tupla
        BY <1>2, IndiceValido DEF s_connect, Atiende, En
    <2>2. args[t].addr \in Addrs
        BY DEF s_connect, Atiende, En, ThreadInv, Peticion
    <2>3. x \in Tupla /\ x.files = almacen[i].files
        BY <2>1, <2>2 DEF Tupla
    <2>4. FicherosUnicos(x)
        BY <2>1, <2>3 DEF StoreInv, FilesUnique, FicherosUnicos
    <2>5. almacen' = [almacen EXCEPT ![i] = x]
        BY <1>2, <2>1 DEF Conectar
    <2> HIDE DEF x
    <2> QED
        BY <1>2, <2>1, <2>3, <2>4, <2>5, TuplaCambiada
<1> QED
    BY <1>1, <1>2 DEF s_connect, Rechaza, Cambia, store

LEMMA DisconnectStore ==
    ASSUME CtlInv, ThreadInv, StoreInv, IndexFresh, NEW t \in Threads,
           s_disconnect(t)
    PROVE  StoreInv'
<1>1. CASE UNCHANGED <<almacen, max_tuplas>>
    BY <1>1 DEF StoreInv, CapacityOK, FilesUnique
<1>2. CASE /\ Hay(t) /\ almacen' = Desconectar(almacen, idx[t])
           /\ UNCHANGED max_tuplas
    <2> DEFINE i == idx[t]
               x == [almacen[i] EXCEPT !.connected = 0]
    <2>1. i \in 1 .. Len(almacen) /\ almacen[i] \in Tupla
        BY <1>2, IndiceValido DEF s_disconnect, Atiende, En
    <2>2. x \in Tupla /\ x.files = almacen[i].files
        BY <2>1 DEF Tupla
    <2>3. FicherosUnicos(x)
        BY <2>1, <2>2 DEF StoreInv, FilesUnique, FicherosUnicos
    <2>4. almacen' = [almacen EXCEPT ![i] = x]
        BY <1>2, <2>1 DEF Desconectar
    <2> HIDE DEF x
    <2> QED
        BY <1>2, <2>1, <2>2, <2>3, <2>4, TuplaCambiada
<1> QED
    BY <1>1, <1>2 DEF s_disconnect, Conectado, Rechaza, Cambia, store

LEMMA PublishStore ==
    ASSUME CtlInv, ThreadInv, StoreInv, IndexFresh, NEW t \in Threads,
           s_publish(t)
    PROVE  StoreInv'
<1>1. CASE UNCHANGED <<almacen, max_tuplas>>
    BY <1>1 DEF StoreInv, CapacityOK, FilesUnique
<1>2. CASE /\ Hay(t) /\ ~Publicado(almacen[idx[t]], args[t].file)
           /\ almacen' = Publicar(almacen, idx[t], args[t].file, args[t].descr)
           /\ UNCHANGED max_tuplas
    <2> DEFINE i == idx[t]
               e == [name |-> args[t].file, descr |-> args[t].descr]
               fs == Append(almacen[i].files, e)
               x == [almacen[i] EXCEPT !.files = fs]
    <2>1. i \in 1 .. Len(almacen) /\ almacen[i] \in Tupla
        BY <1>2, IndiceValido DEF s_publish, Atiende, En
    <2>2. args[t].file \in Files /\ args[t].descr \in Descrs
        BY DEF s_publish, Atiende, En, ThreadInv, Peticion
    <2>3. almacen[i].files \in Seq(Fichero) /\ FicherosUnicos(almacen[i])
        BY <2>1 DEF Tupla, StoreInv, FilesUnique
    <2>4. \A k, l \in 1 .. Len(fs) : fs[k].name = fs[l].name => k = l
        BY <1>2, <2>2, <2>3, PublicarFicheros
    <2>5. fs \in Seq(Fichero)
        BY <2>2, <2>3, AppendProperties DEF Fichero
    <2>6. almacen' = [almacen EXCEPT ![i] = x]
        BY <1>2, <2>1 DEF Publicar
    <2> HIDE DEF fs
    <2>7. x \in Tupla /\ x.files = fs
        BY <2>1, <2>5 DEF Tupla
    <2>8. FicherosUnicos(x)
        BY <2>4, <2>7 DEF FicherosUnicos
    <2> HIDE DEF x
    <2> QED
        BY <1>2, <2>1, <2>6, <2>7, <2>8, TuplaCambiada
<1> QED
    BY <1>1, <1>2 DEF s_publish, Conectado, Tupla_, Rechaza, Cambia, store

LEMMA DeleteStore ==
    ASSUME CtlInv, ThreadInv, StoreInv, IndexFresh, NEW t \in Threads,
           s_delete(t)
    PROVE  StoreInv'
<1>1. CASE UNCHANGED <<almacen, max_tuplas>>
    BY <1>1 DEF StoreInv, CapacityOK, FilesUnique
<1>2. ASSUME NEW k \in 1 .. Len(almacen[idx[t]].files),
             Hay(t), almacen' = Borrar(almacen, idx[t], k),
             UNCHANGED max_tuplas
      PROVE  StoreInv'
    <2> DEFINE i == idx[t]
               fs == Quitar(almacen[i].files, k)
               x == [almacen[i] EXCEPT !.files = fs]
    <2>1. i \in 1 .. Len(almacen) /\ almacen[i] \in Tupla
        BY <1>2, IndiceValido DEF s_delete, Atiende, En
    <2>2. almacen[i].files \in Seq(Fichero) /\ FicherosUnicos(almacen[i])
        BY <2>1 DEF Tupla, StoreInv, FilesUnique
    <2>3. \A j, l \in 1 .. Len(fs) : fs[j].name = fs[l].name => j = l
        BY <1>2, <2>2, QuitarFicheros
    <2>4. fs \in Seq(Fichero)
        BY <2>2, QuitarProps
    <2>5. almacen' = [almacen EXCEPT ![i] = x]
        BY <1>2, <2>1 DEF Borrar
    <2> HIDE DEF fs
    <2>6. x \in Tupla /\ x.files = fs
        BY <2>1, <2>4 DEF Tupla
    <2>7. FicherosUnicos(x)
        BY <2>3, <2>6 DEF FicherosUnicos
    <2> HIDE DEF x
    <2> QED
        BY <1>2, <2>1, <2>5, <2>6, <2>7, TuplaCambiada
<1> QED
    BY <1>1, <1>2 DEF s_delete, Conectado, Tupla_, Rechaza, Cambia, store

\* Every step keeps the store.
LEMMA StoreStep ==
    ASSUME IInv, NEW t \in Threads, Avanza(t)
    PROVE  StoreInv'
<1> USE DEF IInv
<1>1. CASE UNCHANGED <<almacen, max_tuplas>>
    BY <1>1 DEF StoreInv, CapacityOK, FilesUnique
<1>2. CASE ~UNCHANGED <<almacen, max_tuplas>>
    <2>1. s_register(t) => StoreInv'
        BY RegisterStore
    <2>2. s_unregister(t) => StoreInv'
        BY UnregisterStore
    <2>3. s_connect(t) => StoreInv'
        BY ConnectStore
    <2>4. s_disconnect(t) => StoreInv'
        BY DisconnectStore
    <2>5. s_publish(t) => StoreInv'
        BY PublishStore
    <2>6. s_delete(t) => StoreInv'
        BY DeleteStore
    <2>7. \/ s_register(t) \/ s_unregister(t) \/ s_connect(t)
          \/ s_disconnect(t) \/ s_publish(t) \/ s_delete(t)
        <3>1. pc[t] = "apply"
            BY <1>2, StoreKept
        <3>2. /\ ~s_get_file(t)
              /\ ~s_list_users(t)
              /\ ~s_list_content(t)
            BY <1>2 DEF s_get_file, s_list_users, s_list_content, EnviaCodigo,
                        Empieza, EnvioFalla, Rechaza, Muere, store
        <3> QED
            BY <3>1, <3>2 DEF Avanza, Paso, Llega, CreaRpc, RpcNoCreado,
                LeeCabecera, CabeceraFalla, Desconocida, Entra, LeeArgs,
                ArgsFallan, Busca, EnviaEntrada, EntradaFalla, TerminaLista,
                Responde, Registra, En
    <2> QED
        BY <2>1, <2>2, <2>3, <2>4, <2>5, <2>6, <2>7
<1> QED
    BY <1>1, <1>2

-----------------------------------------------------------------------------
(* The index found by a search.                                            *)

\* A thread comes to use an index either by its search, or by going on with
\* what it has.
LEMMA SigueOBusca ==
    ASSUME CtlInv, ThreadInv, NEW t \in Threads, Avanza(t),
           pc'[t] \in {"apply", "send"}
    PROVE  \/ Busca(t)
           \/ /\ pc[t] \in {"apply", "send"}
              /\ UNCHANGED <<almacen, req, args, idx, idx2>>
<1> DEFINE Sigue == \/ Busca(t)
                    \/ /\ pc[t] \in {"apply", "send"}
                       /\ UNCHANGED <<almacen, req, args, idx, idx2>>
<1> USE DEF CtlInv, Va, En, local, store
<1>1. ASSUME NEW c \in Cliente, Llega(t, c) PROVE Sigue
    BY <1>1 DEF Llega
<1>2. ASSUME CreaRpc(t) PROVE Sigue
    BY <1>2 DEF CreaRpc
<1>3. ASSUME RpcNoCreado(t) PROVE Sigue
    BY <1>3 DEF RpcNoCreado
<1>4. ASSUME LeeCabecera(t) PROVE Sigue
    BY <1>4 DEF LeeCabecera
<1>5. ASSUME CabeceraFalla(t) PROVE Sigue
    BY <1>5 DEF CabeceraFalla
<1>6. ASSUME Desconocida(t) PROVE Sigue
    BY <1>6 DEF Desconocida, Muere
<1>7. ASSUME Entra(t) PROVE Sigue
    BY <1>7 DEF Entra
<1>8. ASSUME LeeArgs(t) PROVE Sigue
    BY <1>8 DEF LeeArgs
<1>9. ASSUME ArgsFallan(t) PROVE Sigue
    BY <1>9 DEF ArgsFallan, Devuelve, EnviaSola
<1>10. ASSUME Busca(t) PROVE Sigue
    BY <1>10 DEF Busca
<1>11. ASSUME s_register(t) PROVE Sigue
    BY <1>11 DEF s_register, Atiende, Rechaza, Cambia, Devuelve, Muere, EnviaSola
<1>12. ASSUME s_unregister(t) PROVE Sigue
    BY <1>12 DEF s_unregister, Atiende, Rechaza, Cambia, Devuelve, EnviaSola
<1>13. ASSUME s_connect(t) PROVE Sigue
    BY <1>13 DEF s_connect, Atiende, Rechaza, Cambia, Devuelve, EnviaSola
<1>14. ASSUME s_disconnect(t) PROVE Sigue
    BY <1>14 DEF s_disconnect, Atiende, Rechaza, Cambia, Devuelve, EnviaSola
<1>15. ASSUME s_publish(t) PROVE Sigue
    BY <1>15 DEF s_publish, Atiende, Rechaza, Cambia, Devuelve, EnviaSola
<1>16. ASSUME s_delete(t) PROVE Sigue
    BY <1>16 DEF s_delete, Atiende, Rechaza, Cambia, Devuelve, EnviaSola
<1>17. ASSUME s_get_file(t) PROVE Sigue
    BY <1>17 DEF s_get_file, Atiende, EnviaCodigo, EnvioFalla, Rechaza,
           Devuelve, Muere, EnviaSola
<1>18. ASSUME s_list_users(t) PROVE Sigue
    BY <1>18 DEF s_list_users, Atiende, EnviaCodigo, Empieza, EnvioFalla,
           Rechaza, Devuelve, Muere, EnviaSola
<1>19. ASSUME s_list_content(t) PROVE Sigue
    BY <1>19 DEF s_list_content, Atiende, EnviaCodigo, Empieza, EnvioFalla,
           Rechaza, Devuelve, Muere, EnviaSola
<1>20. ASSUME EnviaEntrada(t) PROVE Sigue
    BY <1>20 DEF EnviaEntrada
<1>21. ASSUME EntradaFalla(t) PROVE Sigue
    BY <1>21 DEF EntradaFalla, EnvioFalla, Rechaza, Devuelve, Muere, EnviaSola
<1>22. ASSUME TerminaLista(t) PROVE Sigue
    BY <1>22 DEF TerminaLista, Rechaza, Devuelve, EnviaSola
<1>23. ASSUME Responde(t) PROVE Sigue
    BY <1>23 DEF Responde, Muere
<1>24. ASSUME Registra(t) PROVE Sigue
    BY <1>24 DEF Registra
<1> QED
    BY <1>1, <1>2, <1>3, <1>4, <1>5, <1>6, <1>7, <1>8, <1>9, <1>10,
       <1>11, <1>12, <1>13, <1>14, <1>15, <1>16, <1>17, <1>18, <1>19,
       <1>20, <1>21, <1>22, <1>23, <1>24 DEF Paso, Avanza

\* The search itself leaves what it found.
LEMMA BuscaEncuentra ==
    ASSUME ThreadInv, NEW t \in Threads, Busca(t)
    PROVE  /\ Encuentra(Op(t), args[t].user, idx[t])'
           /\ (Op(t) = "list_content" => Encuentra(Op(t), args[t].other, idx2[t]))'
<1>1. PICK i, j \in 0 .. Len(almacen) :
         /\ Encuentra(Op(t), args[t].user, i)
         /\ IF Op(t) = "list_content"
            THEN Encuentra(Op(t), args[t].other, j)
            ELSE j = 0
         /\ idx' = [idx EXCEPT ![t] = i]
         /\ idx2' = [idx2 EXCEPT ![t] = j]
    BY DEF Busca
<1>2. idx'[t] = i /\ idx2'[t] = j
    BY <1>1 DEF ThreadInv
<1>3. almacen' = almacen /\ req' = req /\ args' = args
    BY DEF Busca, store
<1>4. Encuentra(Op(t), args[t].user, idx[t])'
    BY <1>1, <1>2, <1>3 DEF Encuentra, Halla, Op
<1>5. (Op(t) = "list_content" => Encuentra(Op(t), args[t].other, idx2[t]))'
    BY <1>1, <1>2, <1>3 DEF Encuentra, Halla, Op
<1> QED
    BY <1>4, <1>5

LEMMA IndexStep ==
    ASSUME IInv, NEW t \in Threads, Avanza(t)
    PROVE  IndexFresh'
<1> SUFFICES ASSUME NEW s \in Threads, pc'[s] \in {"apply", "send"}
             PROVE  /\ Encuentra(Op(s), args[s].user, idx[s])'
                    /\ (Op(s) = "list_content" =>
                           Encuentra(Op(s), args[s].other, idx2[s]))'
    BY DEF IndexFresh
<1> DEFINE Same == /\ almacen' = almacen
                   /\ req'[s] = req[s]
                   /\ args'[s] = args[s]
                   /\ idx'[s] = idx[s]
                   /\ idx2'[s] = idx2[s]
\* Two threads cannot be in their handlers at once: while s uses its index, t
\* is not where the store is changed.
<1>1. CASE s # t
    <2>1. pc'[s] = pc[s] /\ req'[s] = req[s] /\ args'[s] = args[s]
          /\ idx'[s] = idx[s] /\ idx2'[s] = idx2[s]
        BY <1>1, Frame DEF IInv
    <2>2. mutex = s
        BY <2>1 DEF IInv, CtlInv, MutexOwner, Critica
    <2>3. pc[t] # "apply"
        BY <1>1, <2>2 DEF IInv, CtlInv, MutexOwner, Critica
    <2>4. almacen' = almacen
        BY <2>3, StoreKept
    <2>5. pc[s] \in {"apply", "send"} /\ Same
        BY <2>1, <2>4
    <2> QED
        BY <2>5 DEF IInv, IndexFresh, Encuentra, Halla, Op
<1>2. CASE s = t
    <2>1. CASE Busca(t)
        BY <1>2, <2>1, BuscaEncuentra DEF IInv
    <2>2. CASE /\ pc[t] \in {"apply", "send"}
               /\ UNCHANGED <<almacen, req, args, idx, idx2>>
        BY <1>2, <2>2 DEF IInv, IndexFresh, Encuentra, Halla, Op
    <2> QED
        BY <1>2, <2>1, <2>2, SigueOBusca DEF IInv
<1> QED
    BY <1>1, <1>2

-----------------------------------------------------------------------------
(* The invariant.                                                          *)

LEMMA InitIInv == Init => IInv
<1> SUFFICES ASSUME Init PROVE IInv
    OBVIOUS
<1>1. CtlInv
    BY ServidorAssumption
    DEF ServidorAssumption, Init, CtlInv, MutexOwner, Critica, Lugares
<1>2. ThreadInv
    BY DEF Init, ThreadInv
<1>3. StoreInv
    <2>1. almacen \in Seq(Tupla)
        BY GuardadosAssumption DEF GuardadosAssumption, Solido, Init
    <2>2. FilesUnique
        BY GuardadosAssumption DEF GuardadosAssumption, Solido, Init, FilesUnique
    <2>3. Len(almacen) \in Nat
        BY <2>1, LenProperties
    <2>4. max_tuplas \in Nat \ {0} /\ CapacityOK
        BY <2>3, ServidorAssumption
        DEF ServidorAssumption, Init, Capacidades, CapacityOK
    <2> QED
        BY <2>1, <2>2, <2>4 DEF StoreInv
<1>4. IndexFresh
    BY DEF Init, IndexFresh
<1> QED
    BY <1>1, <1>2, <1>3, <1>4 DEF IInv

LEMMA StepIInv == IInv /\ [Next]_vars => IInv'
<1> SUFFICES ASSUME IInv, [Next]_vars PROVE IInv'
    OBVIOUS
<1>1. ASSUME NEW t \in Threads, Avanza(t) PROVE IInv'
    <2>1. CtlInv'
        BY <1>1, CtlStep DEF IInv
    <2>2. ThreadInv'
        BY <1>1, ThreadStep DEF IInv
    <2>3. StoreInv'
        BY <1>1, StoreStep
    <2>4. IndexFresh'
        BY <1>1, IndexStep
    <2> QED
        BY <2>1, <2>2, <2>3, <2>4 DEF IInv
<1>2. CASE UNCHANGED vars
    BY <1>2 DEF vars, local, IInv, CtlInv, MutexOwner, ThreadInv, StoreInv,
        CapacityOK, FilesUnique, IndexFresh, Encuentra, Halla, Op
<1> QED
    BY <1>1, <1>2 DEF Next, Avanza, Parado

\* Every reachable state of the server satisfies the inductive invariant.
LEMMA Invariante == Spec => []IInv
    BY InitIInv, StepIInv, PTL DEF Spec

-----------------------------------------------------------------------------
(* What the threads send, and with it the types of all variables.          *)

\* list_content is sending the files of a tuple that is there, as many as it
\* announced.
ListInv ==
    \A t \in Threads : pc[t] = "send" =>
        /\ Op(t) \in {"list_users", "list_content"}
        /\ Op(t) = "list_content" =>
              /\ idx2[t] # 0
              /\ count[t] = Len(almacen[idx2[t]].files)

DataInv ==
    /\ pos \in [Threads -> Nat]
    /\ sent \in [Threads -> Seq(Entrada)]
    /\ resp \in [Threads -> -2 .. 4]

UpInv == up \in BOOLEAN

\* A listing begins with the count of what it will send, and goes on with it.
LEMMA EmpiezaOSigue ==
    ASSUME CtlInv, ThreadInv, NEW t \in Threads, Avanza(t), pc'[t] = "send"
    PROVE  /\ almacen' = almacen
           /\ req' = req
           /\ idx2' = idx2
           /\ \/ pc[t] = "send" /\ count' = count
              \/ Op(t) = "list_users"
              \/ /\ Op(t) = "list_content"
                 /\ idx2[t] # 0
                 /\ count'[t] = Len(almacen[idx2[t]].files)
<1> DEFINE Sigue == /\ almacen' = almacen
                    /\ req' = req
                    /\ idx2' = idx2
                    /\ \/ pc[t] = "send" /\ count' = count
                       \/ Op(t) = "list_users"
                       \/ /\ Op(t) = "list_content"
                          /\ idx2[t] # 0
                          /\ count'[t] = Len(almacen[idx2[t]].files)
<1> USE DEF CtlInv, ThreadInv, Va, En, local, store
<1>1. ASSUME NEW c \in Cliente, Llega(t, c) PROVE Sigue
    BY <1>1 DEF Llega
<1>2. ASSUME CreaRpc(t) PROVE Sigue
    BY <1>2 DEF CreaRpc
<1>3. ASSUME RpcNoCreado(t) PROVE Sigue
    BY <1>3 DEF RpcNoCreado
<1>4. ASSUME LeeCabecera(t) PROVE Sigue
    BY <1>4 DEF LeeCabecera
<1>5. ASSUME CabeceraFalla(t) PROVE Sigue
    BY <1>5 DEF CabeceraFalla
<1>6. ASSUME Desconocida(t) PROVE Sigue
    BY <1>6 DEF Desconocida, Muere
<1>7. ASSUME Entra(t) PROVE Sigue
    BY <1>7 DEF Entra
<1>8. ASSUME LeeArgs(t) PROVE Sigue
    BY <1>8 DEF LeeArgs
<1>9. ASSUME ArgsFallan(t) PROVE Sigue
    BY <1>9 DEF ArgsFallan, Devuelve, EnviaSola
<1>10. ASSUME Busca(t) PROVE Sigue
    BY <1>10 DEF Busca
<1>11. ASSUME s_register(t) PROVE Sigue
    BY <1>11 DEF s_register, Atiende, Rechaza, Cambia, Devuelve, Muere, EnviaSola
<1>12. ASSUME s_unregister(t) PROVE Sigue
    BY <1>12 DEF s_unregister, Atiende, Rechaza, Cambia, Devuelve, EnviaSola
<1>13. ASSUME s_connect(t) PROVE Sigue
    BY <1>13 DEF s_connect, Atiende, Rechaza, Cambia, Devuelve, EnviaSola
<1>14. ASSUME s_disconnect(t) PROVE Sigue
    BY <1>14 DEF s_disconnect, Atiende, Rechaza, Cambia, Devuelve, EnviaSola
<1>15. ASSUME s_publish(t) PROVE Sigue
    BY <1>15 DEF s_publish, Atiende, Rechaza, Cambia, Devuelve, EnviaSola
<1>16. ASSUME s_delete(t) PROVE Sigue
    BY <1>16 DEF s_delete, Atiende, Rechaza, Cambia, Devuelve, EnviaSola
<1>17. ASSUME s_get_file(t) PROVE Sigue
    BY <1>17 DEF s_get_file, Atiende, EnviaCodigo, EnvioFalla, Rechaza,
           Devuelve, Muere, EnviaSola
<1>18. ASSUME s_list_users(t) PROVE Sigue
    BY <1>18 DEF s_list_users, Atiende, EnviaCodigo, Empieza, EnvioFalla,
           Rechaza, Devuelve, Muere, EnviaSola
<1>19. ASSUME s_list_content(t) PROVE Sigue
    BY <1>19 DEF s_list_content, Atiende, EnviaCodigo, Empieza, EnvioFalla,
           Rechaza, Devuelve, Muere, EnviaSola
<1>20. ASSUME EnviaEntrada(t) PROVE Sigue
    BY <1>20 DEF EnviaEntrada
<1>21. ASSUME EntradaFalla(t) PROVE Sigue
    BY <1>21 DEF EntradaFalla, EnvioFalla, Rechaza, Devuelve, Muere, EnviaSola
<1>22. ASSUME TerminaLista(t) PROVE Sigue
    BY <1>22 DEF TerminaLista, Rechaza, Devuelve, EnviaSola
<1>23. ASSUME Responde(t) PROVE Sigue
    BY <1>23 DEF Responde, Muere
<1>24. ASSUME Registra(t) PROVE Sigue
    BY <1>24 DEF Registra
<1> QED
    BY <1>1, <1>2, <1>3, <1>4, <1>5, <1>6, <1>7, <1>8, <1>9, <1>10,
       <1>11, <1>12, <1>13, <1>14, <1>15, <1>16, <1>17, <1>18, <1>19,
       <1>20, <1>21, <1>22, <1>23, <1>24 DEF Paso, Avanza

LEMMA ListStep ==
    ASSUME IInv, ListInv, NEW t \in Threads, Avanza(t)
    PROVE  ListInv'
<1> SUFFICES ASSUME NEW s \in Threads, pc'[s] = "send"
             PROVE  /\ Op(s)' \in {"list_users", "list_content"}
                    /\ Op(s)' = "list_content" =>
                          /\ idx2'[s] # 0
                          /\ count'[s] = Len(almacen'[idx2'[s]].files)
    BY DEF ListInv
<1>1. CASE s # t
    <2>1. pc'[s] = pc[s] /\ req'[s] = req[s] /\ idx2'[s] = idx2[s]
          /\ count'[s] = count[s]
        BY <1>1, Frame DEF IInv
    <2>2. pc[t] # "apply"
        BY <1>1, <2>1 DEF IInv, CtlInv, MutexOwner, Critica
    <2>3. almacen' = almacen
        BY <2>2, StoreKept
    <2> QED
        BY <2>1, <2>3 DEF ListInv, Op
<1>2. CASE s = t
    <2>1. /\ almacen' = almacen /\ req' = req /\ idx2' = idx2
          /\ \/ pc[t] = "send" /\ count' = count
             \/ Op(t) = "list_users"
             \/ /\ Op(t) = "list_content"
                /\ idx2[t] # 0
                /\ count'[t] = Len(almacen[idx2[t]].files)
        BY <1>2, EmpiezaOSigue DEF IInv
    <2> QED
        BY <1>2, <2>1 DEF ListInv, Op
<1> QED
    BY <1>1, <1>2

\* What a thread sends are entries of the store.
LEMMA EntradaType ==
    ASSUME IInv, ListInv, NEW t \in Threads, EnviaEntrada(t), pos[t] \in Nat
    PROVE  \E e \in Entrada, p \in Nat :
              /\ sent' = [sent EXCEPT ![t] = Append(@, e)]
              /\ pos' = [pos EXCEPT ![t] = p]
<1>1. Len(almacen) \in Nat
    BY LenProperties DEF IInv, StoreInv
<1>2. CASE Op(t) = "list_users"
    <2>1. PICK i \in Conectados(almacen) :
             /\ pos' = [pos EXCEPT ![t] = i]
             /\ sent' = [sent EXCEPT ![t] =
                           Append(@, <<almacen[i].cliente, almacen[i].addr>>)]
        BY <1>2 DEF EnviaEntrada
    <2>2. i \in 1 .. Len(almacen)
        BY DEF Conectados
    <2>3. almacen[i] \in Tupla
        BY <2>2, ElementOfSeq DEF IInv, StoreInv
    <2>4. <<almacen[i].cliente, almacen[i].addr>> \in Entrada
        BY <2>3 DEF Tupla, Entrada
    <2>5. i \in Nat
        BY <1>1, <2>2
    <2> QED
        BY <2>1, <2>4, <2>5
<1>3. CASE Op(t) = "list_content"
    <2> DEFINE fs == almacen[idx2[t]].files
               f == fs[pos[t] + 1]
    <2>1. pc[t] = "send" /\ pos[t] < count[t]
        BY <1>3 DEF EnviaEntrada, En
    <2>2. idx2[t] # 0 /\ count[t] = Len(fs)
        BY <1>3, <2>1 DEF ListInv
    <2>3. almacen[idx2[t]] \in Tupla
        BY <1>3, <2>1, <2>2, Indice2Valido DEF IInv
    <2>4. fs \in Seq(Fichero)
        BY <2>3 DEF Tupla
    <2>5. Len(fs) \in Nat
        BY <2>4, LenProperties
    <2>6. pos[t] + 1 \in 1 .. Len(fs)
        BY <2>1, <2>2, <2>5
    <2>7. f \in Fichero
        BY <2>4, <2>6, ElementOfSeq
    <2>8. <<f.name, f.descr>> \in Entrada
        BY <2>7 DEF Fichero, Entrada
    <2>9. /\ pos' = [pos EXCEPT ![t] = pos[t] + 1]
          /\ sent' = [sent EXCEPT ![t] = Append(@, <<f.name, f.descr>>)]
        BY <1>3 DEF EnviaEntrada
    <2>10. pos[t] + 1 \in Nat
        OBVIOUS
    <2> QED
        BY <2>8, <2>9, <2>10
<1> QED
    BY <1>2, <1>3 DEF EnviaEntrada

\* What most steps of thread t do to its answer: at most they set its code.
Contestan(t) ==
    /\ pos' = pos
    /\ sent' = sent
    /\ resp' = resp \/ \E c \in -2 .. 4 : resp' = [resp EXCEPT ![t] = c]

LEMMA DataKept ==
    ASSUME DataInv, NEW t \in Threads, Contestan(t)
    PROVE  DataInv'
<1>1. resp' \in [Threads -> -2 .. 4]
    BY DEF DataInv, Contestan
<1>2. pos' \in [Threads -> Nat]
    BY DEF DataInv, Contestan
<1>3. sent' \in [Threads -> Seq(Entrada)]
    BY DEF DataInv, Contestan
<1> QED
    BY <1>1, <1>2, <1>3 DEF DataInv

LEMMA AnswerSet ==
    ASSUME NEW t \in Threads, NEW c \in -2 .. 4, Devuelve(t, c),
           pos' = pos, sent' = sent
    PROVE  Contestan(t)
BY DEF Devuelve, Contestan

LEMMA AnswerRejected ==
    ASSUME NEW t \in Threads, NEW c \in -2 .. 4, Rechaza(t, c)
    PROVE  Contestan(t)
BY AnswerSet DEF Rechaza, local

LEMMA AnswerKept ==
    ASSUME NEW t \in Threads, UNCHANGED <<pos, sent, resp>>
    PROVE  Contestan(t)
BY DEF Contestan

LEMMA DeathKeeps ==
    ASSUME NEW t \in Threads, Muere
    PROVE  Contestan(t)
BY AnswerKept DEF Muere, local

LEMMA ChangeKeeps ==
    ASSUME NEW t \in Threads, NEW a, Cambia(t, a)
    PROVE  Contestan(t)
BY AnswerSet DEF Cambia, local

LEMMA SendFails ==
    ASSUME NEW t \in Threads, NEW e \in -2 .. 4, EnvioFalla(t, e)
    PROVE  Contestan(t)
BY AnswerRejected, DeathKeeps DEF EnvioFalla

LEMMA CodeSent ==
    ASSUME NEW t \in Threads, NEW c \in -2 .. 4, NEW e \in -2 .. 4,
           EnviaCodigo(t, c, e)
    PROVE  Contestan(t)
BY AnswerRejected, SendFails DEF EnviaCodigo

LEMMA ListStarts ==
    ASSUME NEW t \in Threads, NEW n, NEW e \in -2 .. 4, Empieza(t, n, e)
    PROVE  Contestan(t)
BY AnswerKept, SendFails DEF Empieza

LEMMA DataStep ==
    ASSUME IInv, ListInv, DataInv, NEW t \in Threads, Avanza(t)
    PROVE  DataInv'
<1>1. ASSUME NEW c \in Cliente, Llega(t, c) PROVE Contestan(t)
    BY <1>1, AnswerKept DEF Llega, local
<1>2. ASSUME CreaRpc(t) PROVE Contestan(t)
    BY <1>2, AnswerKept DEF CreaRpc, local
<1>3. ASSUME RpcNoCreado(t) PROVE Contestan(t)
    BY <1>3, AnswerKept DEF RpcNoCreado, local
<1>4. ASSUME LeeCabecera(t) PROVE Contestan(t)
    BY <1>4, AnswerKept DEF LeeCabecera, local
<1>5. ASSUME CabeceraFalla(t) PROVE Contestan(t)
    BY <1>5, AnswerKept DEF CabeceraFalla, local
<1>6. ASSUME Desconocida(t) PROVE Contestan(t)
    <2>1. CASE Muere
        BY <2>1, DeathKeeps
    <2>2. CASE resp' = [resp EXCEPT ![t] = -1] /\ UNCHANGED local
        BY <2>2 DEF Contestan, local
    <2> QED
        BY <1>6, <2>1, <2>2 DEF Desconocida
<1>7. ASSUME Entra(t) PROVE Contestan(t)
    BY <1>7, AnswerKept DEF Entra, local
<1>8. ASSUME LeeArgs(t) PROVE Contestan(t)
    BY <1>8, AnswerKept DEF LeeArgs, local
<1>9. ASSUME ArgsFallan(t) PROVE Contestan(t)
    <2>1. Op(t) \in Ops
        BY <1>9 DEF IInv, ThreadInv, ArgsFallan, En
    <2>2. CodigoError(Op(t)) \in -2 .. 4
        BY <2>1 DEF CodigoError, Ops
    <2> QED
        BY <1>9, <2>2, AnswerSet DEF ArgsFallan, local
<1>10. ASSUME Busca(t) PROVE Contestan(t)
    BY <1>10, AnswerKept DEF Busca, local
<1>11. ASSUME s_register(t) PROVE Contestan(t)
    BY <1>11, AnswerRejected, ChangeKeeps, DeathKeeps DEF s_register
<1>12. ASSUME s_unregister(t) PROVE Contestan(t)
    BY <1>12, AnswerRejected, ChangeKeeps DEF s_unregister
<1>13. ASSUME s_connect(t) PROVE Contestan(t)
    BY <1>13, AnswerRejected, ChangeKeeps DEF s_connect
<1>14. ASSUME s_disconnect(t) PROVE Contestan(t)
    BY <1>14, AnswerRejected, ChangeKeeps DEF s_disconnect
<1>15. ASSUME s_publish(t) PROVE Contestan(t)
    BY <1>15, AnswerRejected, ChangeKeeps DEF s_publish
<1>16. ASSUME s_delete(t) PROVE Contestan(t)
    BY <1>16, AnswerRejected, ChangeKeeps DEF s_delete
<1>17. ASSUME s_get_file(t) PROVE DataInv'
    <2>1. CASE Contestan(t)
        BY <2>1, DataKept
    <2>2. CASE /\ Conectado(t)
               /\ Devuelve(t, 0)
               /\ sent' = [sent EXCEPT ![t] = <<Tupla_(t).addr>>]
               /\ UNCHANGED <<store, args, idx, idx2, pos, count>>
        <3>0. CtlInv /\ ThreadInv /\ StoreInv /\ IndexFresh
            BY DEF IInv
        <3>1. almacen[idx[t]] \in Tupla
            BY <1>17, <2>2, <3>0, IndiceValido
            DEF s_get_file, Atiende, En, Conectado
        <3>2. Tupla_(t).addr \in Entrada
            BY <3>1 DEF Tupla_, Tupla, Entrada
        <3>3. <<Tupla_(t).addr>> \in Seq(Entrada)
            BY <3>2
        <3>4. sent' \in [Threads -> Seq(Entrada)]
            BY <2>2, <3>3 DEF DataInv
        <3>5. pos' \in [Threads -> Nat]
            BY <2>2 DEF DataInv
        <3>6. resp' \in [Threads -> -2 .. 4]
            BY <2>2 DEF Devuelve, DataInv
        <3> QED
            BY <3>4, <3>5, <3>6 DEF DataInv
    <2> QED
        BY <1>17, <2>1, <2>2, CodeSent, SendFails DEF s_get_file
<1>18. ASSUME s_list_users(t) PROVE Contestan(t)
    BY <1>18, CodeSent, ListStarts DEF s_list_users
<1>19. ASSUME s_list_content(t) PROVE Contestan(t)
    BY <1>19, CodeSent, ListStarts DEF s_list_content
<1>20. ASSUME EnviaEntrada(t) PROVE DataInv'
    <2>0. pos[t] \in Nat
        BY DEF DataInv
    <2>1. PICK e \in Entrada, p \in Nat :
             /\ sent' = [sent EXCEPT ![t] = Append(@, e)]
             /\ pos' = [pos EXCEPT ![t] = p]
        BY <1>20, <2>0, EntradaType
    <2>2. sent[t] \in Seq(Entrada)
        BY DEF DataInv
    <2>3. Append(sent[t], e) \in Seq(Entrada)
        BY <2>2, AppendProperties
    <2>4. sent' \in [Threads -> Seq(Entrada)]
        BY <2>1, <2>3 DEF DataInv
    <2>5. pos' \in [Threads -> Nat]
        BY <2>1 DEF DataInv
    <2>6. resp' = resp
        BY <1>20 DEF EnviaEntrada
    <2> QED
        BY <2>4, <2>5, <2>6 DEF DataInv
<1>21. ASSUME EntradaFalla(t) PROVE Contestan(t)
    BY <1>21, SendFails DEF EntradaFalla
<1>22. ASSUME TerminaLista(t) PROVE Contestan(t)
    BY <1>22, AnswerRejected DEF TerminaLista
<1>23. ASSUME Responde(t) PROVE Contestan(t)
    BY <1>23, AnswerKept, DeathKeeps DEF Responde, local
<1>24. ASSUME Registra(t) PROVE Contestan(t)
    BY <1>24, AnswerKept DEF Registra, local
<1> QED
    BY <1>1, <1>2, <1>3, <1>4, <1>5, <1>6, <1>7, <1>8, <1>9, <1>10, <1>11,
       <1>12, <1>13, <1>14, <1>15, <1>16, <1>17, <1>18, <1>19, <1>20, <1>21,
       <1>22, <1>23, <1>24, DataKept DEF Paso, Avanza

LEMMA UpStep ==
    ASSUME UpInv, NEW t \in Threads, Avanza(t)
    PROVE  UpInv'
<1> DEFINE Vive == up' = up \/ up' = FALSE
<1>1. ASSUME NEW c \in Cliente, Llega(t, c) PROVE Vive
    BY <1>1 DEF Llega
<1>2. ASSUME CreaRpc(t) PROVE Vive
    BY <1>2 DEF CreaRpc
<1>3. ASSUME RpcNoCreado(t) PROVE Vive
    BY <1>3 DEF RpcNoCreado
<1>4. ASSUME LeeCabecera(t) PROVE Vive
    BY <1>4 DEF LeeCabecera
<1>5. ASSUME CabeceraFalla(t) PROVE Vive
    BY <1>5 DEF CabeceraFalla
<1>6. ASSUME Desconocida(t) PROVE Vive
    BY <1>6 DEF Desconocida, Muere
<1>7. ASSUME Entra(t) PROVE Vive
    BY <1>7 DEF Entra
<1>8. ASSUME LeeArgs(t) PROVE Vive
    BY <1>8 DEF LeeArgs
<1>9. ASSUME ArgsFallan(t) PROVE Vive
    BY <1>9 DEF ArgsFallan, Devuelve
<1>10. ASSUME Busca(t) PROVE Vive
    BY <1>10 DEF Busca
<1>11. ASSUME s_register(t) PROVE Vive
    BY <1>11 DEF s_register, Atiende, Rechaza, Cambia, Devuelve, Muere
<1>12. ASSUME s_unregister(t) PROVE Vive
    BY <1>12 DEF s_unregister, Atiende, Rechaza, Cambia, Devuelve
<1>13. ASSUME s_connect(t) PROVE Vive
    BY <1>13 DEF s_connect, Atiende, Rechaza, Cambia, Devuelve
<1>14. ASSUME s_disconnect(t) PROVE Vive
    BY <1>14 DEF s_disconnect, Atiende, Rechaza, Cambia, Devuelve
<1>15. ASSUME s_publish(t) PROVE Vive
    BY <1>15 DEF s_publish, Atiende, Rechaza, Cambia, Devuelve
<1>16. ASSUME s_delete(t) PROVE Vive
    BY <1>16 DEF s_delete, Atiende, Rechaza, Cambia, Devuelve
<1>17. ASSUME s_get_file(t) PROVE Vive
    BY <1>17 DEF s_get_file, Atiende, EnviaCodigo, EnvioFalla, Rechaza,
           Devuelve, Muere
<1>18. ASSUME s_list_users(t) PROVE Vive
    BY <1>18 DEF s_list_users, Atiende, EnviaCodigo, Empieza, EnvioFalla,
           Rechaza, Devuelve, Muere
<1>19. ASSUME s_list_content(t) PROVE Vive
    BY <1>19 DEF s_list_content, Atiende, EnviaCodigo, Empieza, EnvioFalla,
           Rechaza, Devuelve, Muere
<1>20. ASSUME EnviaEntrada(t) PROVE Vive
    BY <1>20 DEF EnviaEntrada
<1>21. ASSUME EntradaFalla(t) PROVE Vive
    BY <1>21 DEF EntradaFalla, EnvioFalla, Rechaza, Devuelve, Muere
<1>22. ASSUME TerminaLista(t) PROVE Vive
    BY <1>22 DEF TerminaLista, Rechaza, Devuelve
<1>23. ASSUME Responde(t) PROVE Vive
    BY <1>23 DEF Responde, Muere
<1>24. ASSUME Registra(t) PROVE Vive
    BY <1>24 DEF Registra
<1>q. Vive
    BY <1>1, <1>2, <1>3, <1>4, <1>5, <1>6, <1>7, <1>8, <1>9, <1>10,
       <1>11, <1>12, <1>13, <1>14, <1>15, <1>16, <1>17, <1>18, <1>19,
       <1>20, <1>21, <1>22, <1>23, <1>24 DEF Paso, Avanza
<1> QED
    BY <1>q DEF UpInv

IInv2 == IInv /\ ListInv /\ DataInv /\ UpInv

LEMMA InitIInv2 == Init => IInv2
<1> SUFFICES ASSUME Init PROVE IInv2
    OBVIOUS
<1>1. IInv
    BY InitIInv
<1>2. ListInv /\ UpInv
    BY DEF Init, ListInv, UpInv
<1>3. DataInv
    <2>1. <<>> \in Seq(Entrada)
        BY EmptySeq
    <2> QED
        BY <2>1 DEF Init, DataInv, NoResp
<1> QED
    BY <1>1, <1>2, <1>3 DEF IInv2

LEMMA StepIInv2 == IInv2 /\ [Next]_vars => IInv2'
<1>1. ASSUME IInv2, [Next]_vars PROVE IInv'
    BY <1>1, StepIInv DEF IInv2
<1>2. ASSUME IInv2, NEW t \in Threads, Avanza(t)
      PROVE  ListInv' /\ DataInv' /\ UpInv'
    <2>1. IInv /\ ListInv /\ DataInv /\ UpInv
        BY <1>2 DEF IInv2
    <2>2. ListInv'
        BY <1>2, <2>1, ListStep
    <2>3. DataInv'
        BY <1>2, <2>1, DataStep
    <2>4. UpInv'
        BY <1>2, <2>1, UpStep
    <2> QED
        BY <2>2, <2>3, <2>4
<1>3. ASSUME IInv2, UNCHANGED vars
      PROVE  ListInv' /\ DataInv' /\ UpInv'
    <2>1. UpInv'
        BY <1>3 DEF vars, IInv2, UpInv
    <2>2. ListInv' /\ DataInv'
        BY <1>3 DEF vars, local, IInv2, ListInv, DataInv, Op
    <2> QED
        BY <2>1, <2>2
<1> QED
    BY <1>1, <1>2, <1>3 DEF IInv2, Next, Avanza, Parado

\* almacen_mutex is held exactly by the thread that is inside its handler, on
\* every path through every handler (server.c 256-938).
THEOREM MutexReleased == Spec => []MutexOwner
<1>1. IInv => MutexOwner
    BY DEF IInv, CtlInv
<1> QED
    BY <1>1, Invariante, PTL

\* What a handler found in the store is still there when it uses it, for any
\* number of threads, clients that leave, and stores with repeated names
\* (server.c 313-329, 373-398, 446-472, 742-796).
THEOREM SearchesStayValid == Spec => []IndexFresh
<1>1. IInv => IndexFresh
    BY DEF IInv
<1> QED
    BY <1>1, Invariante, PTL

\* The array never holds more tuples than it has room for (server.c 278-288,
\* 984-992).
THEOREM StoreFits == Spec => []CapacityOK
<1>1. IInv => CapacityOK
    BY DEF IInv, StoreInv
<1> QED
    BY <1>1, Invariante, PTL

\* No user ever has two files of one name (server.c 463-472, 530-548).
THEOREM FileNamesUnique == Spec => []FilesUnique
<1>1. IInv => FilesUnique
    BY DEF IInv, StoreInv
<1> QED
    BY <1>1, Invariante, PTL

\* Every variable keeps its type (server.c 28-35 and the locals of the
\* handlers): in particular a listing reads only files that exist.
THEOREM TypeCorrect == Spec => []TypeOK
<1>1. Spec => []IInv2
    BY InitIInv2, StepIInv2, PTL DEF Spec
<1>2. IInv2 => TypeOK
    <2> SUFFICES ASSUME IInv2 PROVE TypeOK
        OBVIOUS
    <2>1. up \in BOOLEAN
        BY DEF IInv2, UpInv
    <2> QED
        BY <2>1 DEF IInv2, IInv, CtlInv, ThreadInv, StoreInv, DataInv, TypeOK
<1> QED
    BY <1>1, <1>2, PTL
=============================================================================
