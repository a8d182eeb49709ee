------------------------- MODULE PersistenciaProofs -------------------------
(***************************************************************************)
(* The store and its file, for any threads, any updates and any number of  *)
(* starts: the array never overflows, between updates it holds what the    *)
(* updates should have made of the file that was read, while nothing comes *)
(* at a bad moment the store is always whole somewhere, and a SIGINT that  *)
(* comes upon an update costs nobody but the user of that update.          *)
(***************************************************************************)
EXTENDS Persistencia, AlmacenProofs

-----------------------------------------------------------------------------
(* The assignments of an update.                                           *)

Ultimas == {"sube", "baja", "direccion", "desconectado", "fichero", "quita"}

Siguiente(w) ==
    CASE w = "suelta" -> "asigna"
      [] w = "asigna" -> "max"
      [] w = "max" -> "inserta"
      [] w = "inserta" -> "sube"
      [] w = "nombre" -> "copia"
      [] w = "copia" -> "borra"
      [] w = "borra" -> "baja"
      [] w = "conectado" -> "direccion"
      [] w = "pisa" -> "limpia"
      [] w = "limpia" -> "quita"

\* The assignments from w on.
Cola(w) ==
    CASE w = "suelta" -> <<"suelta", "asigna", "max", "inserta", "sube">>
      [] w = "asigna" -> <<"asigna", "max", "inserta", "sube">>
      [] w = "max" -> <<"max", "inserta", "sube">>
      [] w = "inserta" -> <<"inserta", "sube">>
      [] w = "sube" -> <<"sube">>
      [] w = "nombre" -> <<"nombre", "copia", "borra", "baja">>
      [] w = "copia" -> <<"copia", "borra", "baja">>
      [] w = "borra" -> <<"borra", "baja">>
      [] w = "baja" -> <<"baja">>
      [] w = "conectado" -> <<"conectado", "direccion">>
      [] w = "direccion" -> <<"direccion">>
      [] w = "desconectado" -> <<"desconectado">>
      [] w = "fichero" -> <<"fichero">>
      [] w = "pisa" -> <<"pisa", "limpia", "quita">>
      [] w = "limpia" -> <<"limpia", "quita">>
      [] w = "quita" -> <<"quita">>

Primera(op, lleno) ==
    CASE op = "register" -> IF lleno THEN "suelta" ELSE "inserta"
      [] op = "unregister" -> "nombre"
      [] op = "connect" -> "conectado"
      [] op = "disconnect" -> "desconectado"
      [] op = "publish" -> "fichero"
      [] op = "delete" -> "pisa"

LEMMA ColaProps ==
    ASSUME NEW w \in Asignaciones
    PROVE  /\ Cola(w) \in Seq(Asignaciones) /\ Cola(w) # <<>>
           /\ Head(Cola(w)) = w
           /\ Len(Cola(w)) = 1 <=> w \in Ultimas
           /\ w \in Ultimas => Tail(Cola(w)) = <<>>
           /\ w \notin Ultimas =>
                 Siguiente(w) \in Asignaciones /\ Tail(Cola(w)) = Cola(Siguiente(w))
<1> USE DEF Asignaciones, Cola, Ultimas, Siguiente
<1>1. CASE w = "suelta"
    BY <1>1
<1>2. CASE w = "asigna"
    BY <1>2
<1>3. CASE w = "max"
    BY <1>3
<1>4. CASE w = "inserta"
    BY <1>4
<1>5. CASE w = "sube"
    BY <1>5
<1>6. CASE w = "nombre"
    BY <1>6
<1>7. CASE w = "copia"
    BY <1>7
<1>8. CASE w = "borra"
    BY <1>8
<1>9. CASE w = "baja"
    BY <1>9
<1>10. CASE w = "conectado"
    BY <1>10
<1>11. CASE w = "direccion"
    BY <1>11
<1>12. CASE w = "desconectado"
    BY <1>12
<1>13. CASE w = "fichero"
    BY <1>13
<1>14. CASE w = "pisa"
    BY <1>14
<1>15. CASE w = "limpia"
    BY <1>15
<1>16. CASE w = "quita"
    BY <1>16
<1> QED
    BY <1>1, <1>2, <1>3, <1>4, <1>5, <1>6, <1>7, <1>8, <1>9, <1>10, <1>11, <1>12, <1>13, <1>14, <1>15, <1>16

LEMMA PasosCola ==
    ASSUME NEW op \in {"register", "unregister", "connect", "disconnect", "publish", "delete"},
           NEW lleno \in BOOLEAN
    PROVE  Pasos(op, lleno) = Cola(Primera(op, lleno)) /\ Primera(op, lleno) \in Asignaciones
BY DEF Pasos, Cola, Primera, Asignaciones

-----------------------------------------------------------------------------
(* The invariant.                                                          *)

\* The next assignment of the update in progress, and those of register.
W == Head(resto)
DeAlta == {"suelta", "asigna", "max", "inserta", "sube"}

\* Where main, the threads and the pointer almacen may be together.
ControlInv ==
    /\ \A h \in Hilos : manejador[h].i >= 1
    /\ \A h \in Hilos : manejador[h].pc \in {"fuera", "abre"} =>
          manejador[h].i = 1 /\ manejador[h].escritas = 0
    /\ fase = "parado" =>
          bloque = "nulo" /\ n_elementos = 0 /\ max_tuplas = MaxInicial /\ ~EnMarcha
    /\ fase # "sirve" => cambio = NoCambio /\ \A h \in Hilos \ {Principal} : Libre(h)
    /\ Vivo => (bloque = "nulo" <=> \E h \in Hilos : manejador[h].pc = "sale")
    /\ bloque = "movido" => cambio # NoCambio /\ W = "asigna"

\* What is left of the update in progress, and the tuple it is about.
RestoInv ==
    /\ cambio = NoCambio => resto = <<>>
    /\ cambio # NoCambio =>
          /\ W \in Asignaciones /\ resto = Cola(W)
          /\ W \notin DeAlta => cambio.i \in 1 .. n_elementos
          /\ W \in DeAlta => cambio.user \in Users

\* The array and its capacity.
BloqueInv ==
    /\ max_tuplas >= 1
    /\ bloque # "nulo" =>
          /\ Len(almacen) = IF cambio # NoCambio /\ W = "max" THEN 2 * max_tuplas
                            ELSE max_tuplas
          /\ n_elementos <= max_tuplas
          /\ fase \in {"abre", "lee"} => n_elementos < max_tuplas
          /\ cambio # NoCambio /\ W \in {"inserta", "sube"} => n_elementos < max_tuplas

\* The assignments that are left make of the array what the update should.
Falta ==
    LET i == cambio.i
    IN  /\ W \in {"suelta", "asigna", "max", "inserta"} =>
              debido = Append(Contenido, TuplaVacia(cambio.user))
        /\ W = "sube" => debido = SubSeq(almacen, 1, n_elementos + 1)
        /\ W \in {"nombre", "copia"} => debido = Quitar(Contenido, i)
        /\ W \in {"borra", "baja"} => debido = SubSeq(almacen, 1, n_elementos - 1)
        /\ W = "conectado" => debido = Conectar(Contenido, i, cambio.addr)
        /\ W = "direccion" => debido = [Contenido EXCEPT ![i].addr = cambio.addr]
        /\ W = "desconectado" => debido = Desconectar(Contenido, i)
        /\ W = "fichero" => debido = Publicar(Contenido, i, cambio.file, cambio.descr)
        /\ W = "pisa" => /\ cambio.k \in 1 .. Len(almacen[i].files)
                         /\ debido = Borrar(Contenido, i, cambio.k)
        /\ W \in {"limpia", "quita"} =>
              /\ Len(almacen[i].files) >= 1
              /\ debido = [Contenido EXCEPT ![i].files = SubSeq(@, 1, Len(@) - 1)]

\* The array, what was read of the file, and what the updates should have made.
MemoriaInv ==
    /\ fase \in {"abre", "lee", "vacia"} /\ Libre(Principal) =>
          /\ fichero = debido
          /\ n_elementos <= Len(fichero)
          /\ Contenido = SubSeq(fichero, 1, n_elementos)
          /\ fase = "vacia" => n_elementos = Len(fichero)
    /\ fase = "sirve" /\ bloque # "nulo" =>
          IF cambio = NoCambio THEN Contenido = debido ELSE Falta

\* What close_server has written, when nothing has come at a bad moment.
VolcadoInv ==
    causas = {} =>
        /\ fase = "parado" => fichero = debido
        /\ \A h \in Hilos : ~Libre(h) =>
              /\ cambio = NoCambio /\ \A g \in Hilos \ {h} : Libre(g)
              /\ manejador[h].pc \in {"abre", "escribe", "libera"} =>
                    bloque = "propio" /\ Contenido = debido
              /\ manejador[h].pc = "escribe" =>
                    /\ manejador[h].i <= n_elementos + 1
                    /\ manejador[h].escritas = manejador[h].i - 1
                    /\ fichero = SubSeq(debido, 1, manejador[h].i - 1)
              /\ manejador[h].pc \in {"libera", "sale"} => fichero = debido

IInv == TypeOK /\ ControlInv /\ RestoInv /\ BloqueInv /\ MemoriaInv /\ VolcadoInv

-----------------------------------------------------------------------------
(* Tuples and sequences of them.                                           *)

LEMMA Celdas ==
    /\ TuplaBorrada \in Celda /\ FicheroBorrado \in FicheroEscrito
    /\ \A u \in Users \cup {Cero} : TuplaVacia(u) \in Celda
    /\ Tupla \subseteq Celda
<1>1. <<>> \in Seq(FicheroEscrito)
    OBVIOUS
<1>2. Seq(Fichero) \subseteq Seq(FicheroEscrito)
    BY SeqMonotonic DEF Fichero, FicheroEscrito
<1> QED
    BY <1>1, <1>2
    DEF TuplaBorrada, FicheroBorrado, TuplaVacia, Celda, FicheroEscrito, Tupla

\* A tuple with one field changed.
LEMMA CeldaCambiada ==
    ASSUME NEW t \in Celda
    PROVE  /\ t.files \in Seq(FicheroEscrito)
           /\ \A u \in Users \cup {Cero} : [t EXCEPT !.cliente = u] \in Celda
           /\ [t EXCEPT !.connected = 0] \in Celda
           /\ [t EXCEPT !.connected = 1] \in Celda
           /\ \A ad \in Addrs \cup {NoAddr} :
                 [t EXCEPT !.addr = ad] \in Celda
                 /\ [t EXCEPT !.connected = 1, !.addr = ad] \in Celda
           /\ \A fs \in Seq(FicheroEscrito) : [t EXCEPT !.files = fs] \in Celda
BY DEF Celda

\* The first elements of a sequence of which one is changed.
LEMMA PrefijoCambiado ==
    ASSUME NEW S, NEW a \in Seq(S), NEW n \in 0 .. Len(a), NEW j \in 1 .. Len(a), NEW x \in S
    PROVE  /\ [a EXCEPT ![j] = x] \in Seq(S) /\ Len([a EXCEPT ![j] = x]) = Len(a)
           /\ j <= n => SubSeq([a EXCEPT ![j] = x], 1, n) = [SubSeq(a, 1, n) EXCEPT ![j] = x]
           /\ j > n => SubSeq([a EXCEPT ![j] = x], 1, n) = SubSeq(a, 1, n)
<1> DEFINE b == [a EXCEPT ![j] = x]
<1>1. /\ b \in Seq(S) /\ Len(b) = Len(a)
      /\ \A i \in 1 .. Len(a) : b[i] = IF i = j THEN x ELSE a[i]
    BY ExceptSeq
<1>2. Len(a) \in Nat /\ n \in Nat /\ n <= Len(a)
    BY LenProperties
<1> HIDE DEF b
<1>3. \A c \in Seq(S) : Len(c) = Len(a) =>
          /\ SubSeq(c, 1, n) \in Seq(S) /\ Len(SubSeq(c, 1, n)) = n
          /\ \A i \in 1 .. n : SubSeq(c, 1, n)[i] = c[i]
    BY <1>2, ElementOfSeq, SubSeqProperties
<1>4. CASE j <= n
  <2> DEFINE p == SubSeq(a, 1, n)
             q == SubSeq(b, 1, n)
  <2>1. p \in Seq(S) /\ Len(p) = n /\ \A i \in 1 .. n : p[i] = a[i]
      BY <1>3
  <2>2. q \in Seq(S) /\ Len(q) = n /\ \A i \in 1 .. n : q[i] = b[i]
      BY <1>1, <1>3
  <2>3. j \in 1 .. n
      BY <1>2, <1>4
  <2> HIDE DEF p, q
  <2>4. /\ [p EXCEPT ![j] = x] \in Seq(S) /\ Len([p EXCEPT ![j] = x]) = n
        /\ \A i \in 1 .. n : [p EXCEPT ![j] = x][i] = IF i = j THEN x ELSE p[i]
      BY <2>1, <2>3, ExceptSeq
  <2>5. q = [p EXCEPT ![j] = x]
      BY <1>1, <1>2, <2>1, <2>2, <2>4, SeqEqual
  <2> QED
      BY <1>1, <1>4, <2>5 DEF b, p, q
<1>5. CASE j > n
  <2>1. SubSeq(b, 1, n) = SubSeq(a, 1, n)
      BY <1>1, <1>2, <1>3, <1>5, SeqEqual
  <2> QED
      BY <1>1, <1>5, <2>1 DEF b
<1> QED
    BY <1>2, <1>4, <1>5

LEMMA Prefijo ==
    ASSUME NEW S, NEW a \in Seq(S), NEW n \in 0 .. Len(a)
    PROVE  /\ SubSeq(a, 1, n) \in Seq(S) /\ Len(SubSeq(a, 1, n)) = n
           /\ \A i \in 1 .. n : SubSeq(a, 1, n)[i] = a[i]
<1>1. Len(a) \in Nat /\ \A i \in 1 .. n : a[i] \in S
    BY LenProperties, ElementOfSeq
<1> QED
    BY <1>1, SubSeqProperties

LEMMA AmpliadoProps ==
    ASSUME NEW a \in Seq(Celda), NEW m \in Nat, m >= Len(a)
    PROVE  /\ Ampliado(a, m) \in Seq(Celda) /\ Len(Ampliado(a, m)) = m
           /\ \A i \in 1 .. Len(a) : Ampliado(a, m)[i] = a[i]
           /\ \A n \in 0 .. Len(a) : SubSeq(Ampliado(a, m), 1, n) = SubSeq(a, 1, n)
<1> DEFINE b == Ampliado(a, m)
<1>1. Len(a) \in Nat /\ \A i \in 1 .. Len(a) : a[i] \in Celda
    BY LenProperties, ElementOfSeq
<1>2. b \in [1 .. m -> Celda] /\ \A i \in 1 .. Len(a) : b[i] = a[i]
    BY <1>1, Celdas DEF Ampliado
<1>3. b \in Seq(Celda) /\ Len(b) = m
  <2>1. b \in Seq(Celda)
      BY <1>2, SeqDef
  <2>2. DOMAIN b = 1 .. m /\ DOMAIN b = 1 .. Len(b) /\ Len(b) \in Nat
      BY <1>2, <2>1, LenProperties
  <2> QED
      BY <2>1, <2>2
<1> HIDE DEF b
<1>4. ASSUME NEW n \in 0 .. Len(a) PROVE SubSeq(b, 1, n) = SubSeq(a, 1, n)
  <2>1. /\ SubSeq(b, 1, n) \in Seq(Celda) /\ Len(SubSeq(b, 1, n)) = n
        /\ \A i \in 1 .. n : SubSeq(b, 1, n)[i] = b[i]
      BY <1>1, <1>3, Prefijo
  <2>2. /\ SubSeq(a, 1, n) \in Seq(Celda) /\ Len(SubSeq(a, 1, n)) = n
        /\ \A i \in 1 .. n : SubSeq(a, 1, n)[i] = a[i]
      BY <1>1, Prefijo
  <2> QED
      BY <1>1, <1>2, <2>1, <2>2, SeqEqual
<1> QED
    BY <1>2, <1>3, <1>4 DEF b

-----------------------------------------------------------------------------
(* The cell an assignment writes, once the array is long enough.           *)

Sitio(w) == IF w = "borra" THEN n_elementos ELSE cambio.i

Nueva(w) ==
    LET t == almacen[cambio.i]
        l == Len(t.files)
    IN  CASE w = "nombre" -> [t EXCEPT !.cliente = almacen[n_elementos].cliente]
          [] w = "copia" -> almacen[n_elementos]
          [] w = "borra" -> TuplaBorrada
          [] w = "conectado" -> [t EXCEPT !.connected = 1]
          [] w = "direccion" -> [t EXCEPT !.addr = cambio.addr]
          [] w = "desconectado" -> [t EXCEPT !.connected = 0]
          [] w = "fichero" -> [t EXCEPT !.files =
                                  Append(@, [name |-> cambio.file, descr |-> cambio.descr])]
          [] w = "pisa" -> [t EXCEPT !.files = [@ EXCEPT ![cambio.k] = t.files[l]]]
          [] w = "limpia" -> [t EXCEPT !.files = [@ EXCEPT ![l] = FicheroBorrado]]
          [] w = "quita" -> [t EXCEPT !.files = SubSeq(@, 1, l - 1)]

\* The files of the tuple after each assignment of publish and delete.
LEMMA FicherosNuevos ==
    ASSUME NEW fs \in Seq(FicheroEscrito)
    PROVE  /\ Len(fs) \in Nat
           /\ \A e \in FicheroEscrito : Append(fs, e) \in Seq(FicheroEscrito)
           /\ \A k \in 1 .. Len(fs) : [fs EXCEPT ![k] = fs[Len(fs)]] \in Seq(FicheroEscrito)
           /\ Len(fs) >= 1 =>
                 /\ [fs EXCEPT ![Len(fs)] = FicheroBorrado] \in Seq(FicheroEscrito)
                 /\ SubSeq(fs, 1, Len(fs) - 1) \in Seq(FicheroEscrito)
<1>1. Len(fs) \in Nat /\ \A k \in 1 .. Len(fs) : fs[k] \in FicheroEscrito
    BY LenProperties, ElementOfSeq
<1>2. \A e \in FicheroEscrito : Append(fs, e) \in Seq(FicheroEscrito)
    BY AppendProperties
<1>3. \A k \in 1 .. Len(fs) : [fs EXCEPT ![k] = fs[Len(fs)]] \in Seq(FicheroEscrito)
    BY <1>1, ExceptSeq
<1>4. Len(fs) >= 1 => [fs EXCEPT ![Len(fs)] = FicheroBorrado] \in Seq(FicheroEscrito)
    BY <1>1, Celdas, ExceptSeq
<1>5. Len(fs) >= 1 => SubSeq(fs, 1, Len(fs) - 1) \in Seq(FicheroEscrito)
    BY <1>1, Prefijo
<1> QED
    BY <1>1, <1>2, <1>3, <1>4, <1>5

LEMMA AsignaCelda ==
    ASSUME almacen \in Seq(Celda), cambio \in Cambio,
           NEW w \in Asignaciones \ (DeAlta \cup {"baja"}),
           n_elementos \in 1 .. Len(almacen), cambio.i \in 1 .. n_elementos,
           w = "pisa" => cambio.k \in 1 .. Len(almacen[cambio.i].files),
           w \in {"limpia", "quita"} => Len(almacen[cambio.i].files) >= 1
    PROVE  /\ Asigna(w) = [almacen EXCEPT ![Sitio(w)] = Nueva(w)]
           /\ Sitio(w) \in 1 .. n_elementos /\ Nueva(w) \in Celda
<1> DEFINE t == almacen[cambio.i]
<1>1. Len(almacen) \in Nat /\ cambio.i \in 1 .. Len(almacen)
    BY LenProperties
<1>2. t \in Celda /\ almacen[n_elementos] \in Celda
    BY <1>1, ElementOfSeq
<1>3. t.files \in Seq(FicheroEscrito)
    BY <1>2, CeldaCambiada
<1>4. Sitio(w) \in 1 .. n_elementos
    BY DEF Sitio
<1>5. CASE w \in {"nombre", "copia", "borra"}
  <2>1. almacen[n_elementos].cliente \in Users \cup {Cero}
      BY <1>2 DEF Celda
  <2>2. Nueva(w) \in Celda
      BY <1>2, <1>5, <2>1, Celdas, CeldaCambiada DEF Nueva
  <2> QED
      BY <1>1, <1>4, <1>5, <2>2 DEF Asigna, Nueva, Sitio
<1>6. CASE w \in {"conectado", "direccion", "desconectado"}
  <2>1. cambio.addr \in Addrs \cup {NoAddr}
      BY DEF Cambio
  <2>2. Nueva(w) \in Celda
      BY <1>2, <1>6, <2>1, CeldaCambiada DEF Nueva
  <2> QED
      BY <1>1, <1>4, <1>6, <2>2 DEF Asigna, Nueva, Sitio, Desconectar
<1>7. CASE w = "fichero"
  <2>1. [name |-> cambio.file, descr |-> cambio.descr] \in FicheroEscrito
      BY DEF Cambio, FicheroEscrito
  <2>2. Nueva(w) \in Celda
      BY <1>2, <1>3, <1>7, <2>1, CeldaCambiada, FicherosNuevos DEF Nueva
  <2> QED
      BY <1>1, <1>4, <1>7, <2>2 DEF Asigna, Nueva, Sitio, Publicar
<1>8. CASE w \in {"pisa", "limpia", "quita"}
  <2>1. Nueva(w) \in Celda
      BY <1>2, <1>3, <1>8, CeldaCambiada, FicherosNuevos DEF Nueva
  <2> QED
      BY <1>1, <1>4, <1>8, <2>1 DEF Asigna, Nueva, Sitio
<1> QED
    BY <1>5, <1>6, <1>7, <1>8 DEF Asignaciones, DeAlta

-----------------------------------------------------------------------------
(* The updates.                                                            *)

\* What is known of an update that may begin.
CambioDe(a, c) ==
    /\ c \in Cambio
    /\ c.op \in {"register", "unregister", "connect", "disconnect", "publish", "delete"}
    /\ c.op = "register" => c.user \in Users
    /\ c.op # "register" => c.i \in 1 .. Len(a) /\ c.user = a[c.i].cliente
    /\ c.op = "connect" => c.addr \in Addrs
    /\ c.op = "publish" =>
          c.file \in Files /\ c.descr \in Descrs /\ ~Publicado(a[c.i], c.file)
    /\ c.op = "delete" => c.k \in 1 .. Len(a[c.i].files)

Campos(op, u, i, k, f, d, ad) ==
    [hilo |-> Nadie, op |-> op, user |-> u, i |-> i, k |-> k,
     file |-> f, descr |-> d, addr |-> ad]

LEMMA CamposType ==
    \A op \in {"register", "unregister", "connect", "disconnect", "publish", "delete"},
       u \in Users \cup {Cero}, i, k \in Nat, f \in Files \cup {Cero},
       d \in Descrs \cup {Cero}, ad \in Addrs \cup {NoAddr} :
           Campos(op, u, i, k, f, d, ad) \in Cambio
BY DEF Campos, Cambio

LEMMA CambiosType ==
    ASSUME NEW a \in Seq(Celda), NEW c \in Cambios(a)
    PROVE  CambioDe(a, c)
<1>1. Len(a) \in Nat
    BY LenProperties
<1>2. ASSUME NEW i \in 1 .. Len(a)
      PROVE  i \in Nat /\ a[i].cliente \in Users \cup {Cero} /\ Len(a[i].files) \in Nat
  <2>1. a[i] \in Celda
      BY ElementOfSeq
  <2>2. a[i].cliente \in Users \cup {Cero} /\ a[i].files \in Seq(FicheroEscrito)
      BY <2>1 DEF Celda
  <2>3. Len(a[i].files) \in Nat
      BY <2>2, LenProperties
  <2> QED
      BY <1>1, <2>2, <2>3
<1>3. ASSUME NEW u \in Users, c = [NoCambio EXCEPT !.op = "register", !.user = u]
      PROVE  CambioDe(a, c)
  <2>1. c = Campos("register", u, 0, 0, Cero, Cero, NoAddr)
      BY <1>3 DEF NoCambio, Campos
  <2> QED
      BY <2>1, CamposType DEF CambioDe, Campos
<1>4. ASSUME NEW i \in 1 .. Len(a), NEW op \in {"unregister", "disconnect"},
             c = [NoCambio EXCEPT !.op = op, !.user = a[i].cliente, !.i = i]
      PROVE  CambioDe(a, c)
  <2>1. c = Campos(op, a[i].cliente, i, 0, Cero, Cero, NoAddr)
      BY <1>4 DEF NoCambio, Campos
  <2>3. c \in Cambio
      BY <1>2, <2>1, CamposType
  <2>4. c.op = op /\ c.i = i /\ c.user = a[i].cliente
      BY <2>1 DEF Campos
  <2> QED
      BY <2>3, <2>4 DEF CambioDe
<1>5. ASSUME NEW i \in 1 .. Len(a), NEW ad \in Addrs,
             c = [NoCambio EXCEPT !.op = "connect", !.user = a[i].cliente, !.i = i,
                                  !.addr = ad]
      PROVE  CambioDe(a, c)
  <2>1. c = Campos("connect", a[i].cliente, i, 0, Cero, Cero, ad)
      BY <1>5 DEF NoCambio, Campos
  <2>3. c \in Cambio
      BY <1>2, <2>1, CamposType
  <2>4. c.op = "connect" /\ c.i = i /\ c.addr = ad /\ c.user = a[i].cliente
      BY <2>1 DEF Campos
  <2> QED
      BY <2>3, <2>4 DEF CambioDe
<1>6. ASSUME NEW i \in 1 .. Len(a), NEW f \in Files, NEW d \in Descrs,
             ~Publicado(a[i], f),
             c = [NoCambio EXCEPT !.op = "publish", !.user = a[i].cliente, !.i = i,
                                  !.file = f, !.descr = d]
      PROVE  CambioDe(a, c)
  <2>1. c = Campos("publish", a[i].cliente, i, 0, f, d, NoAddr)
      BY <1>6 DEF NoCambio, Campos
  <2>3. c \in Cambio
      BY <1>2, <2>1, CamposType
  <2>4. /\ c.op = "publish" /\ c.i = i /\ c.file = f /\ c.descr = d
        /\ c.user = a[i].cliente
      BY <2>1 DEF Campos
  <2> QED
      BY <1>6, <2>3, <2>4 DEF CambioDe
<1>7. ASSUME NEW i \in 1 .. Len(a), NEW k \in 1 .. Len(a[i].files),
             c = [NoCambio EXCEPT !.op = "delete", !.user = a[i].cliente, !.i = i, !.k = k]
      PROVE  CambioDe(a, c)
  <2>1. c = Campos("delete", a[i].cliente, i, k, Cero, Cero, NoAddr)
      BY <1>7 DEF NoCambio, Campos
  <2>2. k \in Nat
      BY <1>2
  <2>3. c \in Cambio
      BY <1>2, <2>1, <2>2, CamposType
  <2>4. c.op = "delete" /\ c.i = i /\ c.k = k /\ c.user = a[i].cliente
      BY <2>1 DEF Campos
  <2> QED
      BY <2>3, <2>4 DEF CambioDe
<1>8. \/ \E u \in Users : c = [NoCambio EXCEPT !.op = "register", !.user = u]
      \/ \E i \in 1 .. Len(a), op \in {"unregister", "disconnect"} :
            c = [NoCambio EXCEPT !.op = op, !.user = a[i].cliente, !.i = i]
      \/ \E i \in 1 .. Len(a), ad \in Addrs :
            c = [NoCambio EXCEPT !.op = "connect", !.user = a[i].cliente, !.i = i,
                                 !.addr = ad]
      \/ \E i \in 1 .. Len(a), f \in Files, d \in Descrs :
            /\ ~Publicado(a[i], f)
            /\ c = [NoCambio EXCEPT !.op = "publish", !.user = a[i].cliente, !.i = i,
                                    !.file = f, !.descr = d]
      \/ \E i \in 1 .. Len(a) : \E k \in 1 .. Len(a[i].files) :
            c = [NoCambio EXCEPT !.op = "delete", !.user = a[i].cliente, !.i = i, !.k = k]
  <2> DEFINE
        C1 == {[NoCambio EXCEPT !.op = "register", !.user = u] :
                  u \in {v \in Users : ~EstaEnUso(a, v)}}
        C2 == {[NoCambio EXCEPT !.op = "unregister", !.user = a[i].cliente, !.i = i] :
                  i \in {j \in 1 .. Len(a) : a[j].connected = 0}}
        C3 == {[NoCambio EXCEPT !.op = "connect", !.user = a[p[1]].cliente, !.i = p[1],
                                !.addr = p[2]] :
                  p \in {j \in 1 .. Len(a) : a[j].connected = 0} \X Addrs}
        C4 == {[NoCambio EXCEPT !.op = "disconnect", !.user = a[i].cliente, !.i = i] :
                  i \in {j \in 1 .. Len(a) : a[j].connected = 1}}
        C5 == {[NoCambio EXCEPT !.op = "publish", !.user = a[p[1]].cliente, !.i = p[1],
                                !.file = p[2], !.descr = p[3]] :
                  p \in {q \in (1 .. Len(a)) \X Files \X Descrs :
                            a[q[1]].connected = 1 /\ ~Publicado(a[q[1]], q[2])}}
        C6 == UNION {{[NoCambio EXCEPT !.op = "delete", !.user = a[i].cliente, !.i = i,
                                       !.k = k] :
                  k \in {m \in 1 .. Len(a[i].files) : a[i].connected = 1}} : i \in 1 .. Len(a)}
  <2>1. c \in C1 \cup C2 \cup C3 \cup C4 \cup C5 \cup C6
      BY DEF Cambios, Registros, Bajas, Conexiones, Desconexiones, Publicaciones, Borrados
  <2>2. c \in C1 =>
            \E u \in Users : c = [NoCambio EXCEPT !.op = "register", !.user = u]
      OBVIOUS
  <2>3. c \in C2 \cup C4 =>
            \E i \in 1 .. Len(a), op \in {"unregister", "disconnect"} :
                c = [NoCambio EXCEPT !.op = op, !.user = a[i].cliente, !.i = i]
      OBVIOUS
  <2>4. c \in C3 =>
            \E i \in 1 .. Len(a), ad \in Addrs :
                c = [NoCambio EXCEPT !.op = "connect", !.user = a[i].cliente, !.i = i,
                                     !.addr = ad]
      OBVIOUS
  <2>5. c \in C5 =>
            \E i \in 1 .. Len(a), f \in Files, d \in Descrs :
                /\ ~Publicado(a[i], f)
                /\ c = [NoCambio EXCEPT !.op = "publish", !.user = a[i].cliente, !.i = i,
                                        !.file = f, !.descr = d]
    <3> SUFFICES ASSUME c \in C5
                 PROVE  \E i \in 1 .. Len(a), f \in Files, d \in Descrs :
                          /\ ~Publicado(a[i], f)
                          /\ c = [NoCambio EXCEPT !.op = "publish", !.user = a[i].cliente,
                                                  !.i = i, !.file = f, !.descr = d]
        OBVIOUS
    <3>1. PICK p \in (1 .. Len(a)) \X Files \X Descrs :
              /\ ~Publicado(a[p[1]], p[2])
              /\ c = [NoCambio EXCEPT !.op = "publish", !.user = a[p[1]].cliente, !.i = p[1],
                                      !.file = p[2], !.descr = p[3]]
        OBVIOUS
    <3>2. p[1] \in 1 .. Len(a) /\ p[2] \in Files /\ p[3] \in Descrs
        OBVIOUS
    <3> QED
        BY <3>1, <3>2
  <2>6. c \in C6 =>
            \E i \in 1 .. Len(a) : \E k \in 1 .. Len(a[i].files) :
                c = [NoCambio EXCEPT !.op = "delete", !.user = a[i].cliente, !.i = i, !.k = k]
    <3> SUFFICES ASSUME c \in C6
                 PROVE  \E i \in 1 .. Len(a) : \E k \in 1 .. Len(a[i].files) :
                          c = [NoCambio EXCEPT !.op = "delete", !.user = a[i].cliente,
                                               !.i = i, !.k = k]
        OBVIOUS
    <3>1. PICK i \in 1 .. Len(a) :
              c \in {[NoCambio EXCEPT !.op = "delete", !.user = a[i].cliente, !.i = i,
                                      !.k = k] :
                        k \in {m \in 1 .. Len(a[i].files) : a[i].connected = 1}}
        OBVIOUS
    <3>2. PICK k \in 1 .. Len(a[i].files) :
              c = [NoCambio EXCEPT !.op = "delete", !.user = a[i].cliente, !.i = i, !.k = k]
        BY <3>1
    <3> QED
        BY <3>2
  <2> HIDE DEF C1, C2, C3, C4, C5, C6
  <2> QED
      BY <2>1, <2>2, <2>3, <2>4, <2>5, <2>6
<1> QED
    BY <1>3, <1>4, <1>5, <1>6, <1>7, <1>8

\* The fields of an update after its thread has been noted.
LEMMA CambioEnHilo ==
    ASSUME NEW a, NEW c, CambioDe(a, c), NEW h \in Hilos
    PROVE  /\ CambioDe(a, [c EXCEPT !.hilo = h])
           /\ [c EXCEPT !.hilo = h].hilo = h
           /\ [c EXCEPT !.hilo = h] # NoCambio
           /\ [c EXCEPT !.hilo = h].op = c.op /\ [c EXCEPT !.hilo = h].user = c.user
           /\ [c EXCEPT !.hilo = h].i = c.i /\ [c EXCEPT !.hilo = h].k = c.k
           /\ [c EXCEPT !.hilo = h].addr = c.addr
           /\ [c EXCEPT !.hilo = h].file = c.file /\ [c EXCEPT !.hilo = h].descr = c.descr
BY PersistenciaAssumption DEF CambioDe, Cambio, NoCambio, PersistenciaAssumption

LEMMA HechoType ==
    ASSUME NEW a \in Seq(Celda), NEW c, CambioDe(a, c)
    PROVE  Hecho(a, c) \in Seq(Celda)
<1>1. c \in Cambio
    BY DEF CambioDe
<1>2. CASE c.op = "register"
  <2>1. TuplaVacia(c.user) \in Celda
      BY <1>2, Celdas DEF CambioDe
  <2> QED
      BY <1>2, <2>1, AppendProperties DEF Hecho
<1>3. CASE c.op = "unregister"
    BY <1>3, QuitarProps DEF Hecho, CambioDe
<1>4. ASSUME c.op \in {"connect", "disconnect", "publish", "delete"}
      PROVE  Hecho(a, c) \in Seq(Celda)
  <2> DEFINE t == a[c.i]
  <2>1. c.i \in 1 .. Len(a)
      BY <1>4 DEF CambioDe
  <2>2. t \in Celda /\ t.files \in Seq(FicheroEscrito)
      BY <2>1, ElementOfSeq, CeldaCambiada
  <2>3. \A x \in Celda : [a EXCEPT ![c.i] = x] \in Seq(Celda)
      BY <2>1, ExceptSeq
  <2>4. CASE c.op = "connect"
    <3>1. [t EXCEPT !.connected = 1, !.addr = c.addr] \in Celda
        BY <1>1, <2>2, CeldaCambiada DEF Cambio
    <3>2. Hecho(a, c) = [a EXCEPT ![c.i] = [t EXCEPT !.connected = 1, !.addr = c.addr]]
        BY <2>1, <2>4 DEF Hecho, Conectar
    <3> QED
        BY <2>3, <3>1, <3>2
  <2>5. CASE c.op = "disconnect"
    <3>1. [t EXCEPT !.connected = 0] \in Celda
        BY <2>2, CeldaCambiada
    <3>2. Hecho(a, c) = [a EXCEPT ![c.i] = [t EXCEPT !.connected = 0]]
        BY <2>1, <2>5 DEF Hecho, Desconectar
    <3> QED
        BY <2>3, <3>1, <3>2
  <2>6. CASE c.op = "publish"
    <3> DEFINE fs == Append(t.files, [name |-> c.file, descr |-> c.descr])
    <3>1. [name |-> c.file, descr |-> c.descr] \in FicheroEscrito
        BY <1>1 DEF Cambio, FicheroEscrito
    <3>2. [t EXCEPT !.files = fs] \in Celda
        BY <2>2, <3>1, FicherosNuevos, CeldaCambiada
    <3>3. Hecho(a, c) = [a EXCEPT ![c.i] = [t EXCEPT !.files = fs]]
        BY <2>1, <2>6 DEF Hecho, Publicar
    <3> QED
        BY <2>3, <3>2, <3>3
  <2>7. CASE c.op = "delete"
    <3> DEFINE fs == Quitar(t.files, c.k)
    <3>1. fs \in Seq(FicheroEscrito)
        BY <2>2, <2>7, QuitarProps DEF CambioDe
    <3>2. [t EXCEPT !.files = fs] \in Celda
        BY <2>2, <3>1, CeldaCambiada
    <3>3. Hecho(a, c) = [a EXCEPT ![c.i] = [t EXCEPT !.files = fs]]
        BY <2>1, <2>7 DEF Hecho, Borrar
    <3> QED
        BY <2>3, <3>2, <3>3
  <2> QED
      BY <1>4, <2>4, <2>5, <2>6, <2>7
<1> QED
    BY <1>2, <1>3, <1>4 DEF CambioDe

-----------------------------------------------------------------------------
(* How the assignments of an update add up.                                *)

\* register: the cell after the last one, and then the count.
LEMMA InsertaFinal ==
    ASSUME NEW a \in Seq(Celda), NEW n \in Nat, n < Len(a), NEW x \in Celda
    PROVE  SubSeq([a EXCEPT ![n + 1] = x], 1, n + 1) = Append(SubSeq(a, 1, n), x)
<1> DEFINE b == [a EXCEPT ![n + 1] = x]
           p == SubSeq(a, 1, n)
           q == SubSeq(b, 1, n + 1)
<1>1. Len(a) \in Nat
    BY LenProperties
<1>2. /\ b \in Seq(Celda) /\ Len(b) = Len(a)
      /\ \A j \in 1 .. Len(a) : b[j] = IF j = n + 1 THEN x ELSE a[j]
    BY <1>1, ExceptSeq
<1>3. p \in Seq(Celda) /\ Len(p) = n /\ \A j \in 1 .. n : p[j] = a[j]
    BY <1>1, Prefijo
<1> HIDE DEF b
<1>4. q \in Seq(Celda) /\ Len(q) = n + 1 /\ \A j \in 1 .. n + 1 : q[j] = b[j]
    BY <1>1, <1>2, Prefijo
<1> HIDE DEF p, q
<1>5. /\ Append(p, x) \in Seq(Celda) /\ Len(Append(p, x)) = n + 1
      /\ \A j \in 1 .. n : Append(p, x)[j] = p[j]
      /\ Append(p, x)[n + 1] = x
    BY <1>3, AppendProperties
<1>6. \A j \in 1 .. n + 1 : q[j] = Append(p, x)[j]
    BY <1>1, <1>2, <1>3, <1>4, <1>5
<1>7. q = Append(p, x)
    BY <1>4, <1>5, <1>6, SeqEqual
<1> QED
    BY <1>7 DEF b, p, q

\* unregister and delete: element i takes the last one, which is then dropped.
LEMMA CopiaYBaja ==
    ASSUME NEW S, NEW a \in Seq(S), NEW n \in 1 .. Len(a), NEW i \in 1 .. n
    PROVE  SubSeq([a EXCEPT ![i] = a[n]], 1, n - 1) = Quitar(SubSeq(a, 1, n), i)
<1> DEFINE b == [a EXCEPT ![i] = a[n]]
           p == SubSeq(a, 1, n)
           q == SubSeq(b, 1, n - 1)
<1>1. Len(a) \in Nat /\ a[n] \in S
    BY LenProperties, ElementOfSeq
<1>2. /\ b \in Seq(S) /\ Len(b) = Len(a)
      /\ \A j \in 1 .. Len(a) : b[j] = IF j = i THEN a[n] ELSE a[j]
    BY <1>1, ExceptSeq
<1>3. p \in Seq(S) /\ Len(p) = n /\ \A j \in 1 .. n : p[j] = a[j]
    BY <1>1, Prefijo
<1> HIDE DEF b
<1>4. q \in Seq(S) /\ Len(q) = n - 1 /\ \A j \in 1 .. n - 1 : q[j] = b[j]
    BY <1>1, <1>2, Prefijo
<1> HIDE DEF p, q
<1>5. /\ Quitar(p, i) \in Seq(S) /\ Len(Quitar(p, i)) = n - 1
      /\ \A j \in 1 .. n - 1 : Quitar(p, i)[j] = IF j = i THEN p[n] ELSE p[j]
    BY <1>3, QuitarProps
<1>6. \A j \in 1 .. n - 1 : q[j] = Quitar(p, i)[j]
    BY <1>1, <1>2, <1>3, <1>4, <1>5
<1>7. q = Quitar(p, i)
    BY <1>4, <1>5, <1>6, SeqEqual
<1> QED
    BY <1>7 DEF b, p, q

\* unregister: the name that is copied first is overwritten with its tuple.
LEMMA NombreAntes ==
    ASSUME NEW S, NEW s \in Seq(S), NEW i \in 1 .. Len(s), NEW x \in S
    PROVE  Quitar([s EXCEPT ![i] = x], i) = Quitar(s, i)
<1> DEFINE b == [s EXCEPT ![i] = x]
<1>1. Len(s) \in Nat
    BY LenProperties
<1>2. /\ b \in Seq(S) /\ Len(b) = Len(s)
      /\ \A j \in 1 .. Len(s) : b[j] = IF j = i THEN x ELSE s[j]
    BY ExceptSeq
<1> HIDE DEF b
<1>3. /\ Quitar(s, i) \in Seq(S) /\ Len(Quitar(s, i)) = Len(s) - 1
      /\ \A j \in 1 .. Len(s) - 1 : Quitar(s, i)[j] = IF j = i THEN s[Len(s)] ELSE s[j]
    BY QuitarProps
<1>4. /\ Quitar(b, i) \in Seq(S) /\ Len(Quitar(b, i)) = Len(s) - 1
      /\ \A j \in 1 .. Len(s) - 1 : Quitar(b, i)[j] = IF j = i THEN b[Len(s)] ELSE b[j]
  <2>1. b \in Seq(S) /\ i \in 1 .. Len(b)
      BY <1>2
  <2>2. /\ Quitar(b, i) \in Seq(S) /\ Len(Quitar(b, i)) = Len(b) - 1
        /\ \A j \in 1 .. Len(b) - 1 :
              Quitar(b, i)[j] = IF j = i THEN b[Len(b)] ELSE b[j]
      BY <2>1, QuitarProps
  <2> QED
      BY <1>2, <2>2
<1>5. \A j \in 1 .. Len(s) - 1 : Quitar(b, i)[j] = Quitar(s, i)[j]
    BY <1>1, <1>2, <1>3, <1>4
<1>6. Quitar(b, i) = Quitar(s, i)
    BY <1>3, <1>4, <1>5, SeqEqual
<1> QED
    BY <1>6 DEF b

\* delete: the same for the files of a tuple, in three assignments.
LEMMA BorraEnTres ==
    ASSUME NEW fs \in Seq(FicheroEscrito), Len(fs) >= 1
    PROVE  /\ \A k \in 1 .. Len(fs) :
                 /\ Len([fs EXCEPT ![k] = fs[Len(fs)]]) = Len(fs)
                 /\ SubSeq([fs EXCEPT ![k] = fs[Len(fs)]], 1, Len(fs) - 1) = Quitar(fs, k)
           /\ Len([fs EXCEPT ![Len(fs)] = FicheroBorrado]) = Len(fs)
           /\ SubSeq([fs EXCEPT ![Len(fs)] = FicheroBorrado], 1, Len(fs) - 1) =
                 SubSeq(fs, 1, Len(fs) - 1)
<1> DEFINE l == Len(fs)
<1>1. l \in Nat /\ l \in 1 .. l /\ l - 1 \in 0 .. l /\ fs[l] \in FicheroEscrito
    BY LenProperties, ElementOfSeq
<1>2. SubSeq(fs, 1, l) = fs
    BY SubSeqFull
<1>3. ASSUME NEW k \in 1 .. l
      PROVE  /\ Len([fs EXCEPT ![k] = fs[l]]) = l
             /\ SubSeq([fs EXCEPT ![k] = fs[l]], 1, l - 1) = Quitar(fs, k)
  <2>1. Len([fs EXCEPT ![k] = fs[l]]) = l
      BY <1>1, ExceptSeq
  <2>2. SubSeq([fs EXCEPT ![k] = fs[l]], 1, l - 1) = Quitar(SubSeq(fs, 1, l), k)
      BY <1>1, CopiaYBaja
  <2> QED
      BY <1>2, <2>1, <2>2
<1>4. FicheroBorrado \in FicheroEscrito
    BY Celdas
<1>5. /\ Len([fs EXCEPT ![l] = FicheroBorrado]) = l
      /\ SubSeq([fs EXCEPT ![l] = FicheroBorrado], 1, l - 1) = SubSeq(fs, 1, l - 1)
  <2> DEFINE n == l - 1
  <2>1. n \in 0 .. Len(fs) /\ l \in 1 .. Len(fs) /\ l > n
      BY <1>1
  <2> HIDE DEF n
  <2>2. /\ Len([fs EXCEPT ![l] = FicheroBorrado]) = Len(fs)
        /\ l > n => SubSeq([fs EXCEPT ![l] = FicheroBorrado], 1, n) = SubSeq(fs, 1, n)
      BY <1>4, <2>1, PrefijoCambiado
  <2> QED
      BY <2>1, <2>2 DEF n
<1> QED
    BY <1>3, <1>5

-----------------------------------------------------------------------------
(* One assignment of the update in progress.                               *)

LEMMA EscribePaso ==
    ASSUME TypeOK, ControlInv, RestoInv, NEW h \in Hilos, Escribe(h)
    PROVE  /\ fase = "sirve" /\ cambio # NoCambio /\ bloque # "nulo"
           /\ W \in Asignaciones /\ resto = Cola(W)
           /\ almacen' = Asigna(W)
           /\ bloque' = IF W = "suelta" THEN "movido"
                        ELSE IF W = "asigna" THEN "propio" ELSE bloque
           /\ max_tuplas' = IF W = "max" THEN 2 * max_tuplas ELSE max_tuplas
           /\ n_elementos' = IF W = "sube" THEN n_elementos + 1
                             ELSE IF W = "baja" THEN n_elementos - 1 ELSE n_elementos
           /\ W \in Ultimas => cambio' = NoCambio /\ resto' = <<>>
           /\ W \notin Ultimas =>
                 cambio' = cambio /\ resto' = Cola(W') /\ W' = Siguiente(W) /\ W' \in Asignaciones
           /\ UNCHANGED <<fase, manejador, fichero, debido, tocados, vidas, hechos>>
<1>1. cambio # NoCambio /\ fase = "sirve"
    BY PersistenciaAssumption DEF Escribe, NoCambio, ControlInv, PersistenciaAssumption
<1>2. W \in Asignaciones /\ resto = Cola(W)
    BY <1>1 DEF RestoInv
<1>3. /\ Len(resto) = 1 <=> W \in Ultimas
      /\ W \in Ultimas => Tail(resto) = <<>>
      /\ W \notin Ultimas => Siguiente(W) \in Asignaciones /\ Tail(resto) = Cola(Siguiente(W))
      /\ W \notin Ultimas => Head(Cola(Siguiente(W))) = Siguiente(W)
    BY <1>2, ColaProps
<1>4. /\ bloque # "nulo"
      /\ almacen' = Asigna(W)
      /\ bloque' = IF W = "suelta" THEN "movido"
                   ELSE IF W = "asigna" THEN "propio" ELSE bloque
      /\ max_tuplas' = IF W = "max" THEN 2 * max_tuplas ELSE max_tuplas
      /\ resto' = Tail(resto)
      /\ cambio' = IF Len(resto) = 1 THEN NoCambio ELSE cambio
      /\ UNCHANGED <<fase, manejador, fichero, debido, tocados, vidas, hechos>>
    BY DEF Escribe, W
<1>5. n_elementos' = IF W = "sube" THEN n_elementos + 1
                     ELSE IF W = "baja" THEN n_elementos - 1 ELSE n_elementos
    BY DEF Escribe, W, TypeOK
<1>6. W \notin Ultimas => W' = Siguiente(W)
    BY <1>3, <1>4 DEF W
<1> QED
    BY <1>1, <1>2, <1>3, <1>4, <1>5, <1>6

\* What the array and the counters are between two assignments.
LEMMA Entre ==
    ASSUME TypeOK, RestoInv, BloqueInv, bloque # "nulo"
    PROVE  /\ almacen \in Seq(Celda) /\ Len(almacen) \in Nat
           /\ n_elementos \in 0 .. Len(almacen)
           /\ Contenido \in Seq(Celda) /\ Len(Contenido) = n_elementos
           /\ \A j \in 1 .. n_elementos : Contenido[j] = almacen[j]
<1>1. almacen \in Seq(Celda) /\ Len(almacen) \in Nat
    BY LenProperties DEF TypeOK
<1>2. n_elementos \in 0 .. Len(almacen)
    BY <1>1 DEF TypeOK, BloqueInv
<1> QED
    BY <1>1, <1>2, Prefijo DEF Contenido

LEMMA EscribeAlta ==
    ASSUME TypeOK, ControlInv, RestoInv, BloqueInv, MemoriaInv,
           NEW h \in Hilos, Escribe(h), W \in DeAlta
    PROVE  /\ almacen' \in Seq(Celda) /\ n_elementos' \in Nat /\ max_tuplas' \in Nat
           /\ RestoInv' /\ BloqueInv'
           /\ IF cambio' = NoCambio THEN Contenido' = debido' ELSE Falta'
<1>1. /\ almacen \in Seq(Celda) /\ Len(almacen) \in Nat
      /\ n_elementos \in 0 .. Len(almacen) /\ n_elementos \in Nat
      /\ max_tuplas \in Nat /\ max_tuplas >= 1 /\ n_elementos <= max_tuplas
      /\ Len(almacen) = IF W = "max" THEN 2 * max_tuplas ELSE max_tuplas
      /\ W \in {"inserta", "sube"} => n_elementos < max_tuplas
      /\ cambio.user \in Users /\ Falta
    BY EscribePaso, Entre DEF TypeOK, RestoInv, BloqueInv, MemoriaInv
<1>2. TuplaVacia(cambio.user) \in Celda
    BY <1>1, Celdas
<1>3. CASE W = "suelta"
  <2>1. /\ almacen' = almacen /\ n_elementos' = n_elementos /\ max_tuplas' = max_tuplas
        /\ cambio' = cambio /\ resto' = Cola("asigna") /\ W' = "asigna" /\ debido' = debido
      BY <1>3, EscribePaso DEF Asigna, Ultimas, Siguiente
  <2> QED
      BY <1>1, <1>3, <2>1, EscribePaso
      DEF RestoInv, BloqueInv, Falta, Contenido, DeAlta, Asignaciones
<1>4. CASE W = "asigna"
  <2>1. /\ almacen' = Ampliado(almacen, 2 * max_tuplas)
        /\ n_elementos' = n_elementos /\ max_tuplas' = max_tuplas
        /\ cambio' = cambio /\ resto' = Cola("max") /\ W' = "max" /\ debido' = debido
      BY <1>4, EscribePaso DEF Asigna, Ultimas, Siguiente
  <2>2. 2 * max_tuplas \in Nat /\ 2 * max_tuplas >= Len(almacen)
      BY <1>1, <1>4
  <2>3. /\ almacen' \in Seq(Celda) /\ Len(almacen') = 2 * max_tuplas
        /\ SubSeq(almacen', 1, n_elementos) = SubSeq(almacen, 1, n_elementos)
      BY <1>1, <2>1, <2>2, AmpliadoProps
  <2> QED
      BY <1>1, <1>4, <2>1, <2>3, EscribePaso
      DEF RestoInv, BloqueInv, Falta, Contenido, DeAlta, Asignaciones
<1>5. CASE W = "max"
  <2>1. /\ almacen' = almacen /\ n_elementos' = n_elementos /\ max_tuplas' = 2 * max_tuplas
        /\ cambio' = cambio /\ resto' = Cola("inserta") /\ W' = "inserta" /\ debido' = debido
      BY <1>5, EscribePaso DEF Asigna, Ultimas, Siguiente
  <2> QED
      BY <1>1, <1>5, <2>1, EscribePaso
      DEF RestoInv, BloqueInv, Falta, Contenido, DeAlta, Asignaciones
<1>6. CASE W = "inserta"
  <2>1. /\ almacen' = [almacen EXCEPT ![n_elementos + 1] = TuplaVacia(cambio.user)]
        /\ n_elementos' = n_elementos /\ max_tuplas' = max_tuplas
        /\ cambio' = cambio /\ resto' = Cola("sube") /\ W' = "sube" /\ debido' = debido
      BY <1>6, EscribePaso DEF Asigna, Ultimas, Siguiente
  <2>2. almacen' \in Seq(Celda) /\ Len(almacen') = Len(almacen)
      BY <1>1, <1>2, <1>6, <2>1, ExceptSeq
  <2>3. SubSeq(almacen', 1, n_elementos + 1) = debido
      BY <1>1, <1>2, <1>6, <2>1, InsertaFinal DEF Falta, Contenido
  <2> QED
      BY <1>1, <1>6, <2>1, <2>2, <2>3, EscribePaso
      DEF RestoInv, BloqueInv, Falta, Contenido, DeAlta, Asignaciones
<1>7. CASE W = "sube"
  <2>1. /\ almacen' = almacen /\ n_elementos' = n_elementos + 1 /\ max_tuplas' = max_tuplas
        /\ cambio' = NoCambio /\ resto' = <<>> /\ debido' = debido
      BY <1>7, EscribePaso DEF Asigna, Ultimas
  <2> QED
      BY <1>1, <1>7, <2>1, EscribePaso DEF RestoInv, BloqueInv, Falta, Contenido
<1> QED
    BY <1>3, <1>4, <1>5, <1>6, <1>7 DEF DeAlta

LEMMA EscribeOtra ==
    ASSUME TypeOK, ControlInv, RestoInv, BloqueInv, MemoriaInv,
           NEW h \in Hilos, Escribe(h), W \notin DeAlta
    PROVE  /\ almacen' \in Seq(Celda) /\ n_elementos' \in Nat /\ max_tuplas' \in Nat
           /\ RestoInv' /\ BloqueInv'
           /\ IF cambio' = NoCambio THEN Contenido' = debido' ELSE Falta'
<1> DEFINE i == cambio.i
           n == n_elementos
           fs == almacen[i].files
           l == Len(fs)
<1>1. /\ almacen \in Seq(Celda) /\ Len(almacen) \in Nat
      /\ n \in 1 .. Len(almacen) /\ n \in Nat /\ i \in 1 .. n
      /\ max_tuplas \in Nat /\ max_tuplas >= 1 /\ n <= max_tuplas
      /\ Len(almacen) = max_tuplas
      /\ Contenido \in Seq(Celda) /\ Len(Contenido) = n /\ Contenido[i] = almacen[i]
      /\ W \in Asignaciones /\ Falta /\ cambio \in Cambio
  <2>1. fase = "sirve" /\ cambio # NoCambio /\ bloque # "nulo" /\ W \in Asignaciones
      BY EscribePaso
  <2>2. /\ almacen \in Seq(Celda) /\ Len(almacen) \in Nat
        /\ n \in 0 .. Len(almacen)
        /\ Contenido \in Seq(Celda) /\ Len(Contenido) = n
        /\ \A j \in 1 .. n : Contenido[j] = almacen[j]
      BY <2>1, Entre
  <2>3. i \in 1 .. n /\ W # "max"
      BY <2>1 DEF RestoInv, DeAlta
  <2>4. Falta
      BY <2>1 DEF MemoriaInv
  <2> QED
      BY <2>1, <2>2, <2>3, <2>4 DEF TypeOK, BloqueInv
<1>2. CASE W = "baja"
  <2>1. /\ almacen' = almacen /\ n_elementos' = n - 1 /\ max_tuplas' = max_tuplas
        /\ cambio' = NoCambio /\ resto' = <<>> /\ debido' = debido
      BY <1>2, EscribePaso DEF Asigna, Ultimas
  <2> QED
      BY <1>1, <1>2, <2>1, EscribePaso DEF RestoInv, BloqueInv, Falta, Contenido
<1>3. ASSUME W # "baja"
      PROVE  /\ almacen' = [almacen EXCEPT ![Sitio(W)] = Nueva(W)]
             /\ Sitio(W) \in 1 .. n /\ Nueva(W) \in Celda
             /\ almacen' \in Seq(Celda) /\ Len(almacen') = Len(almacen)
             /\ n_elementos' = n /\ max_tuplas' = max_tuplas
             /\ Contenido' = [Contenido EXCEPT ![Sitio(W)] = Nueva(W)]
  <2>1. W \in Asignaciones \ (DeAlta \cup {"baja"})
      BY <1>1, <1>3
  <2>2. /\ W = "pisa" => cambio.k \in 1 .. l
        /\ W \in {"limpia", "quita"} => l >= 1
      BY <1>1 DEF Falta
  <2>3. /\ Asigna(W) = [almacen EXCEPT ![Sitio(W)] = Nueva(W)]
        /\ Sitio(W) \in 1 .. n /\ Nueva(W) \in Celda
      BY <1>1, <2>1, <2>2, AsignaCelda
  <2>4. almacen' = Asigna(W) /\ n_elementos' = n /\ max_tuplas' = max_tuplas
      BY <1>3, EscribePaso DEF DeAlta
  <2> DEFINE j == Sitio(W)
             x == Nueva(W)
  <2>5. n \in 0 .. Len(almacen) /\ j \in 1 .. Len(almacen) /\ j <= n
      BY <1>1, <2>3
  <2> HIDE DEF j, x
  <2>6. /\ [almacen EXCEPT ![j] = x] \in Seq(Celda)
        /\ Len([almacen EXCEPT ![j] = x]) = Len(almacen)
        /\ SubSeq([almacen EXCEPT ![j] = x], 1, n) = [SubSeq(almacen, 1, n) EXCEPT ![j] = x]
      BY <1>1, <2>3, <2>5, PrefijoCambiado DEF x
  <2> QED
      BY <2>3, <2>4, <2>6 DEF Contenido, j, x
<1>4. ASSUME W \notin Ultimas, W # "baja", Falta'
      PROVE  /\ almacen' \in Seq(Celda) /\ n_elementos' \in Nat /\ max_tuplas' \in Nat
             /\ RestoInv' /\ BloqueInv'
             /\ IF cambio' = NoCambio THEN Contenido' = debido' ELSE Falta'
  <2>1. /\ cambio # NoCambio /\ cambio' = cambio /\ resto' = Cola(W') /\ W' \in Asignaciones
        /\ W' = Siguiente(W)
      BY <1>4, EscribePaso
  <2>2. W' \notin DeAlta
      BY <1>1, <1>4, <2>1 DEF Siguiente, Asignaciones, Ultimas, DeAlta
  <2> QED
      BY <1>1, <1>3, <1>4, <2>1, <2>2, EscribePaso DEF RestoInv, BloqueInv, DeAlta
<1>5. ASSUME W \in Ultimas, W # "baja", Contenido' = debido'
      PROVE  /\ almacen' \in Seq(Celda) /\ n_elementos' \in Nat /\ max_tuplas' \in Nat
             /\ RestoInv' /\ BloqueInv'
             /\ IF cambio' = NoCambio THEN Contenido' = debido' ELSE Falta'
  <2>1. cambio' = NoCambio /\ resto' = <<>>
      BY <1>5, EscribePaso
  <2> QED
      BY <1>1, <1>3, <1>5, <2>1, EscribePaso DEF RestoInv, BloqueInv
<1>6. debido' = debido /\ i \in 1 .. Len(almacen) /\ i \in 1 .. Len(Contenido)
    BY <1>1, EscribePaso
<1>7. almacen[i] \in Celda /\ fs \in Seq(FicheroEscrito) /\ l \in Nat
    BY <1>1, <1>6, ElementOfSeq, CeldaCambiada, LenProperties
<1>8. CASE W = "nombre"
  <2>1. W' = "copia" /\ cambio' = cambio
      BY <1>8, EscribePaso DEF Ultimas, Siguiente
  <2>2. Quitar(Contenido', i) = Quitar(Contenido, i)
    <3>1. \A x \in Celda : Quitar([Contenido EXCEPT ![i] = x], i) = Quitar(Contenido, i)
        BY <1>1, <1>6, NombreAntes
    <3>2. Nueva(W) \in Celda /\ Contenido' = [Contenido EXCEPT ![i] = Nueva(W)]
        BY <1>3, <1>8 DEF Sitio
    <3> QED
        BY <3>1, <3>2
  <2>3. Falta'
      BY <1>1, <1>6, <1>8, <2>1, <2>2 DEF Falta
  <2> QED
      BY <1>4, <1>8, <2>3 DEF Ultimas
<1>9. CASE W = "copia"
  <2>1. W' = "borra" /\ cambio' = cambio
      BY <1>9, EscribePaso DEF Ultimas, Siguiente
  <2>2. SubSeq(almacen', 1, n - 1) = Quitar(Contenido, i)
    <3>1. SubSeq([almacen EXCEPT ![i] = almacen[n]], 1, n - 1) = Quitar(SubSeq(almacen, 1, n), i)
        BY <1>1, CopiaYBaja
    <3>2. almacen' = [almacen EXCEPT ![i] = almacen[n]]
        BY <1>3, <1>9 DEF Sitio, Nueva
    <3> QED
        BY <3>1, <3>2 DEF Contenido
  <2>3. Falta'
      BY <1>1, <1>3, <1>6, <1>9, <2>1, <2>2 DEF Falta
  <2> QED
      BY <1>4, <1>9, <2>3 DEF Ultimas
<1>10. CASE W = "borra"
  <2>1. W' = "baja" /\ cambio' = cambio
      BY <1>10, EscribePaso DEF Ultimas, Siguiente
  <2> DEFINE m == n - 1
  <2>2. m \in 0 .. Len(almacen) /\ n > m
      BY <1>1
  <2> HIDE DEF m
  <2>3. SubSeq(almacen', 1, m) = SubSeq(almacen, 1, m)
      BY <1>1, <1>3, <1>10, <2>2, Celdas, PrefijoCambiado DEF Sitio, Nueva
  <2>4. Falta'
      BY <1>1, <1>3, <1>6, <1>10, <2>1, <2>3 DEF Falta, m
  <2> QED
      BY <1>4, <1>10, <2>4 DEF Ultimas
<1>11. CASE W = "conectado"
  <2>1. W' = "direccion" /\ cambio' = cambio
      BY <1>11, EscribePaso DEF Ultimas, Siguiente
  <2>2. Contenido' = [Contenido EXCEPT ![i] = [Contenido[i] EXCEPT !.connected = 1]]
      BY <1>1, <1>3, <1>11 DEF Sitio, Nueva
  <2>3. debido = [Contenido' EXCEPT ![i].addr = cambio.addr]
      BY <1>1, <1>6, <1>11, <2>2 DEF Falta, Conectar
  <2>4. Falta'
      BY <1>6, <2>1, <2>3 DEF Falta
  <2> QED
      BY <1>4, <1>11, <2>4 DEF Ultimas
<1>12. CASE W \in {"direccion", "desconectado", "fichero", "quita"}
  <2>1. Contenido' = debido
      BY <1>1, <1>3, <1>6, <1>12 DEF Sitio, Nueva, Falta, Desconectar, Publicar
  <2> QED
      BY <1>5, <1>6, <1>12, <2>1 DEF Ultimas
<1>13. CASE W = "pisa"
  <2> DEFINE gs == [fs EXCEPT ![cambio.k] = fs[l]]
  <2>1. W' = "limpia" /\ cambio' = cambio
      BY <1>13, EscribePaso DEF Ultimas, Siguiente
  <2>2. /\ Contenido' = [Contenido EXCEPT ![i] = [almacen[i] EXCEPT !.files = gs]]
        /\ almacen'[i] = [almacen[i] EXCEPT !.files = gs]
      BY <1>1, <1>3, <1>6, <1>13 DEF Sitio, Nueva
  <2>3. Len(gs) = l /\ SubSeq(gs, 1, l - 1) = Quitar(fs, cambio.k) /\ l >= 1
      BY <1>1, <1>7, <1>13, BorraEnTres DEF Falta
  <2> HIDE DEF gs
  <2>4. debido = [Contenido EXCEPT ![i] = [almacen[i] EXCEPT !.files = SubSeq(gs, 1, l - 1)]]
      BY <1>1, <1>6, <1>13, <2>3 DEF Falta, Borrar
  <2>5. debido = [Contenido' EXCEPT ![i].files = SubSeq(@, 1, Len(@) - 1)]
      BY <1>1, <1>6, <1>7, <2>2, <2>3, <2>4 DEF Celda
  <2>6. Len(almacen'[i].files) >= 1
      BY <1>7, <2>2, <2>3 DEF Celda
  <2>7. Falta'
      BY <1>6, <2>1, <2>5, <2>6 DEF Falta
  <2> QED
      BY <1>4, <1>13, <2>7 DEF Ultimas
<1>14. CASE W = "limpia"
  <2> DEFINE gs == [fs EXCEPT ![l] = FicheroBorrado]
  <2>1. W' = "quita" /\ cambio' = cambio
      BY <1>14, EscribePaso DEF Ultimas, Siguiente
  <2>2. /\ Contenido' = [Contenido EXCEPT ![i] = [almacen[i] EXCEPT !.files = gs]]
        /\ almacen'[i] = [almacen[i] EXCEPT !.files = gs]
      BY <1>1, <1>3, <1>6, <1>14 DEF Sitio, Nueva
  <2>3. Len(gs) = l /\ SubSeq(gs, 1, l - 1) = SubSeq(fs, 1, l - 1) /\ l >= 1
      BY <1>1, <1>7, <1>14, BorraEnTres DEF Falta
  <2> HIDE DEF gs
  <2>4. debido = [Contenido EXCEPT ![i] = [almacen[i] EXCEPT !.files = SubSeq(gs, 1, l - 1)]]
      BY <1>1, <1>6, <1>14, <2>3 DEF Falta
  <2>5. debido = [Contenido' EXCEPT ![i].files = SubSeq(@, 1, Len(@) - 1)]
      BY <1>1, <1>6, <1>7, <2>2, <2>3, <2>4 DEF Celda
  <2>6. Len(almacen'[i].files) >= 1
      BY <1>7, <2>2, <2>3 DEF Celda
  <2>7. Falta'
      BY <1>6, <2>1, <2>5, <2>6 DEF Falta
  <2> QED
      BY <1>4, <1>14, <2>7 DEF Ultimas
<1> QED
    BY <1>1, <1>2, <1>8, <1>9, <1>10, <1>11, <1>12, <1>13, <1>14 DEF Asignaciones, DeAlta

LEMMA CambioNulo == NoCambio \in Cambio
BY DEF NoCambio, Cambio

LEMMA EscribeInv ==
    ASSUME IInv, NEW h \in Hilos, Escribe(h)
    PROVE  IInv'
<1> USE DEF IInv
<1>1. /\ almacen' \in Seq(Celda) /\ n_elementos' \in Nat /\ max_tuplas' \in Nat
      /\ RestoInv' /\ BloqueInv'
      /\ IF cambio' = NoCambio THEN Contenido' = debido' ELSE Falta'
    BY EscribeAlta, EscribeOtra
<1>2. /\ fase = "sirve" /\ cambio # NoCambio /\ bloque # "nulo"
      /\ bloque' = IF W = "suelta" THEN "movido"
                   ELSE IF W = "asigna" THEN "propio" ELSE bloque
      /\ W \in Ultimas => cambio' = NoCambio /\ resto' = <<>>
      /\ W \notin Ultimas =>
            cambio' = cambio /\ resto' = Cola(W') /\ W' = Siguiente(W) /\ W' \in Asignaciones
      /\ UNCHANGED <<fase, manejador, fichero, debido, tocados, vidas, hechos>>
    BY EscribePaso
<1>3. causas' = causas \cup Durante
    BY DEF Escribe
<1>4. cambio' \in Cambio /\ resto' \in Seq(Asignaciones)
  <2>1. <<>> \in Seq(Asignaciones)
      OBVIOUS
  <2>2. \A w \in Asignaciones : Cola(w) \in Seq(Asignaciones)
      BY ColaProps
  <2> QED
      BY <1>2, <2>1, <2>2, CambioNulo DEF TypeOK
<1>5. TypeOK'
    BY <1>1, <1>2, <1>3, <1>4 DEF TypeOK, Durante
<1>6. bloque' # "nulo" /\ (bloque' = "movido" => cambio' # NoCambio /\ W' = "asigna")
    BY <1>2 DEF ControlInv, TypeOK, Ultimas, Siguiente
<1>7. ControlInv'
    BY <1>2, <1>6 DEF ControlInv, Vivo, Libre, EnMarcha
<1>8. MemoriaInv'
    BY <1>1, <1>2 DEF MemoriaInv
<1>9. VolcadoInv'
    BY <1>2, <1>3 DEF VolcadoInv, Durante, EnMarcha, Libre
<1> QED
    BY <1>1, <1>5, <1>7, <1>8, <1>9

-----------------------------------------------------------------------------
(* main.                                                                   *)

\* The end of the process, when it leaves the file as it should be unless
\* causas says otherwise.
LEMMA TerminaInv ==
    ASSUME IInv, Termina, fichero' = fichero,
           causas' \subseteq {"muerte", "durante", "a_medias", "movido", "carga",
                              "doble", "disco"},
           causas' = {} => fichero = debido
    PROVE  IInv'
<1> USE DEF IInv, Termina
<1>1. <<>> \in Seq(Celda) /\ <<>> \in Seq(Asignaciones)
    OBVIOUS
<1>2. /\ manejador' \in [Hilos -> [pc : {"fuera", "abre", "escribe", "libera", "sale"},
                                   i : Nat, escritas : Nat]]
      /\ \A h \in Hilos : manejador'[h].pc = "fuera" /\ manejador'[h].i = 1
                          /\ manejador'[h].escritas = 0
    BY DEF Fuera
<1>3. MaxInicial \in Nat /\ MaxInicial >= 1
    BY PersistenciaAssumption DEF PersistenciaAssumption
<1>4. TypeOK'
    BY <1>1, <1>2, <1>3, CambioNulo DEF TypeOK
<1>5. ControlInv' /\ BloqueInv'
    BY <1>2, <1>3 DEF ControlInv, BloqueInv, Libre, EnMarcha, Vivo
<1>6. RestoInv' /\ MemoriaInv'
    BY DEF RestoInv, MemoriaInv
<1>7. VolcadoInv'
    BY <1>2 DEF VolcadoInv, Libre
<1> QED
    BY <1>4, <1>5, <1>6, <1>7

\* While load runs nothing else does.
LEMMA CargaSola ==
    ASSUME ControlInv, TypeOK, fase \in {"abre", "lee", "vacia"}, Libre(Principal)
    PROVE  /\ \A h \in Hilos : Libre(h)
           /\ bloque = "propio" /\ cambio = NoCambio
<1>1. \A h \in Hilos : Libre(h)
    BY DEF ControlInv
<1> QED
    BY <1>1 DEF ControlInv, TypeOK, Vivo, Libre

LEMMA ArrancaInv ==
    ASSUME IInv, Arranca
    PROVE  IInv'
<1> USE DEF IInv, Arranca
<1>1. MaxInicial \in Nat /\ MaxInicial >= 1 /\ MaxVidas \in Nat
    BY PersistenciaAssumption DEF PersistenciaAssumption
<1>2. /\ n_elementos = 0 /\ max_tuplas = MaxInicial /\ cambio = NoCambio
      /\ \A h \in Hilos : Libre(h)
    BY DEF ControlInv, EnMarcha
<1>3. almacen' \in Seq(Celda) /\ Len(almacen') = MaxInicial
  <2>1. almacen' \in [1 .. MaxInicial -> Celda]
      BY Celdas
  <2>2. almacen' \in Seq(Celda)
      BY <1>1, <2>1, SeqDef
  <2>3. DOMAIN almacen' = 1 .. Len(almacen') /\ Len(almacen') \in Nat
      BY <2>2, LenProperties
  <2>4. Len(almacen') = MaxInicial
      BY <1>1, <2>1, <2>3
  <2> QED
      BY <2>2, <2>4
<1>4. TypeOK'
    BY <1>1, <1>3 DEF TypeOK
<1>5. ControlInv'
    BY <1>2 DEF ControlInv, Libre, EnMarcha, Vivo
<1>6. RestoInv' /\ BloqueInv'
    BY <1>1, <1>2, <1>3 DEF RestoInv, BloqueInv
<1>7. MemoriaInv'
  <2>1. SubSeq(almacen', 1, 0) = <<>> /\ SubSeq(fichero, 1, 0) = <<>>
      BY SubSeqEmpty
  <2>2. Len(fichero) \in Nat
      BY LenProperties DEF TypeOK
  <2> QED
      BY <1>2, <2>1, <2>2 DEF MemoriaInv, Contenido
<1>8. VolcadoInv'
    BY <1>2 DEF VolcadoInv, Libre
<1> QED
    BY <1>4, <1>5, <1>6, <1>7, <1>8

\* One more tuple of the file.
LEMMA PrefijoMas ==
    ASSUME NEW s \in Seq(Celda), NEW n \in Nat, n < Len(s)
    PROVE  SubSeq(s, 1, n + 1) = Append(SubSeq(s, 1, n), s[n + 1])
<1>1. n + 1 \in 1 .. Len(s) /\ s[n + 1] \in Celda
    BY LenProperties, ElementOfSeq
<1>2. [s EXCEPT ![n + 1] = s[n + 1]] = s
    BY LenProperties
<1>3. SubSeq([s EXCEPT ![n + 1] = s[n + 1]], 1, n + 1) = Append(SubSeq(s, 1, n), s[n + 1])
    BY <1>1, InsertaFinal
<1> QED
    BY <1>2, <1>3

LEMMA CargaTuplaInv ==
    ASSUME IInv, CargaTupla
    PROVE  IInv'
<1> USE DEF IInv
<1> DEFINE n == n_elementos
           b == [almacen EXCEPT ![n + 1] = fichero[n + 1]]
<1>1. /\ fase = "lee" /\ Libre(Principal) /\ n < Len(fichero)
      /\ max_tuplas' = DoblarAlLeer(n, max_tuplas)
      /\ almacen' = Ampliado(b, max_tuplas') /\ n_elementos' = n + 1
      /\ UNCHANGED <<fase, bloque, fichero, cambio, resto, manejador, debido, causas,
                     tocados, vidas, hechos>>
    BY DEF CargaTupla, Carga
<1>2. (\A h \in Hilos : Libre(h)) /\ bloque = "propio" /\ cambio = NoCambio
    BY <1>1, CargaSola
<1>3. /\ almacen \in Seq(Celda) /\ Len(almacen) = max_tuplas /\ n \in Nat
      /\ max_tuplas \in Nat /\ n < max_tuplas
      /\ fichero \in Seq(Celda) /\ Len(fichero) \in Nat
    BY <1>1, <1>2, LenProperties DEF TypeOK, BloqueInv
<1>4. max_tuplas' \in Nat /\ max_tuplas' >= max_tuplas /\ n + 1 < max_tuplas'
    BY <1>1, <1>3 DEF DoblarAlLeer
<1>5. fichero[n + 1] \in Celda
    BY <1>1, <1>3, ElementOfSeq
<1>6. b \in Seq(Celda) /\ Len(b) = max_tuplas
    BY <1>3, <1>5, ExceptSeq
<1>7. SubSeq(b, 1, n + 1) = Append(SubSeq(almacen, 1, n), fichero[n + 1])
    BY <1>3, <1>5, InsertaFinal
<1> HIDE DEF b
<1>8. /\ almacen' \in Seq(Celda) /\ Len(almacen') = max_tuplas'
      /\ SubSeq(almacen', 1, n + 1) = SubSeq(b, 1, n + 1)
    BY <1>1, <1>3, <1>4, <1>6, AmpliadoProps
<1>9. SubSeq(almacen', 1, n + 1) = SubSeq(fichero, 1, n + 1)
  <2>1. SubSeq(almacen, 1, n) = SubSeq(fichero, 1, n)
      BY <1>1 DEF MemoriaInv, Contenido
  <2> QED
      BY <1>1, <1>3, <1>7, <1>8, <2>1, PrefijoMas
<1>10. TypeOK'
    BY <1>1, <1>3, <1>4, <1>8 DEF TypeOK
<1>11. ControlInv' /\ RestoInv'
    BY <1>1, <1>2 DEF ControlInv, RestoInv, Libre, EnMarcha, Vivo, W
<1>12. BloqueInv'
    BY <1>1, <1>2, <1>3, <1>4, <1>8 DEF BloqueInv
<1>13. MemoriaInv'
    BY <1>1, <1>3, <1>9 DEF MemoriaInv, Contenido
<1>14. VolcadoInv'
    BY <1>1, <1>2 DEF VolcadoInv, Libre
<1> QED
    BY <1>10, <1>11, <1>12, <1>13, <1>14

LEMMA CargaInv ==
    ASSUME IInv, CargaAbre \/ CargaFin \/ CargaVacia
    PROVE  IInv'
<1> USE DEF IInv
<1>1. /\ fase \in {"abre", "lee", "vacia"} /\ Libre(Principal)
      /\ fase' = IF fase = "abre" THEN "lee" ELSE IF fase = "lee" THEN "vacia" ELSE "sirve"
      /\ fase = "lee" => n_elementos = Len(fichero)
      /\ fichero' = IF fase = "vacia" THEN <<>> ELSE fichero
      /\ UNCHANGED <<almacen, bloque, n_elementos, max_tuplas, cambio, resto, manejador,
                     debido, causas, tocados, vidas, hechos>>
    BY DEF CargaAbre, CargaFin, CargaVacia, Carga, memoria
<1>2. (\A h \in Hilos : Libre(h)) /\ bloque = "propio" /\ cambio = NoCambio
    BY <1>1, CargaSola
<1>3. fichero' \in Seq(Celda)
  <2>1. <<>> \in Seq(Celda)
      OBVIOUS
  <2> QED
      BY <1>1, <2>1 DEF TypeOK
<1>4. TypeOK'
    BY <1>1, <1>3 DEF TypeOK
<1>5. ControlInv' /\ RestoInv' /\ BloqueInv'
    BY <1>1, <1>2 DEF ControlInv, RestoInv, BloqueInv, Libre, EnMarcha, Vivo, W
<1>6. /\ fichero = debido /\ n_elementos <= Len(fichero)
      /\ Contenido = SubSeq(fichero, 1, n_elementos)
      /\ fase = "vacia" => n_elementos = Len(fichero)
    BY <1>1 DEF MemoriaInv
<1>7. n_elementos = Len(fichero) => Contenido = debido
    BY <1>6, SubSeqFull DEF TypeOK
<1>8. MemoriaInv'
    BY <1>1, <1>2, <1>6, <1>7 DEF MemoriaInv, Contenido
<1>9. VolcadoInv'
    BY <1>1, <1>2 DEF VolcadoInv, Libre
<1> QED
    BY <1>4, <1>5, <1>8, <1>9

\* load that fails, and every end that is not close_server.
LEMMA FinInv ==
    ASSUME IInv, CargaFalla \/ Muere
    PROVE  IInv'
<1>1. Termina /\ fichero' = fichero
    BY DEF CargaFalla, Muere
<1>2. causas' \subseteq {"muerte", "durante", "a_medias", "movido", "carga", "doble", "disco"}
    BY DEF CargaFalla, Muere, IInv, TypeOK
<1>3. ASSUME causas' = {} PROVE fichero = debido
  <2>1. CASE CargaFalla
      BY <2>1 DEF CargaFalla, IInv, MemoriaInv
  <2>2. CASE Muere
    <3>1. fase \in {"abre", "lee", "vacia"} /\ ~EnMarcha
        BY <1>3, <2>2 DEF Muere, IInv, TypeOK, Vivo
    <3>2. Libre(Principal)
        BY <3>1, PersistenciaAssumption DEF EnMarcha, PersistenciaAssumption
    <3> QED
        BY <3>1, <3>2 DEF IInv, MemoriaInv
  <2> QED
      BY <2>1, <2>2
<1> QED
    BY <1>1, <1>2, <1>3, TerminaInv

-----------------------------------------------------------------------------
(* An update begins.                                                       *)

LEMMA EmpiezaInv ==
    ASSUME IInv, NEW h \in Hilos, Empieza(h)
    PROVE  IInv'
<1> USE DEF IInv
<1> DEFINE n == n_elementos
           lleno == n = max_tuplas
<1>1. /\ fase = "sirve" /\ bloque = "propio" /\ cambio = NoCambio
      /\ hechos < MaxCambios /\ hechos' = hechos + 1
      /\ causas' = causas \cup Durante
      /\ UNCHANGED <<fase, almacen, bloque, n_elementos, max_tuplas, manejador, fichero, vidas>>
    BY DEF Empieza, memoria
<1>2. /\ almacen \in Seq(Celda) /\ n \in 0 .. Len(almacen) /\ n \in Nat
      /\ Contenido \in Seq(Celda) /\ Len(Contenido) = n
      /\ \A j \in 1 .. n : Contenido[j] = almacen[j]
    BY <1>1, Entre DEF TypeOK
<1>3. PICK c \in Cambios(Contenido) :
          /\ cambio' = [c EXCEPT !.hilo = h]
          /\ resto' = Pasos(c.op, lleno)
          /\ debido' = Hecho(Contenido, c)
          /\ tocados' = IF EnMarcha THEN tocados \cup {c.user} ELSE tocados
    BY DEF Empieza
<1>4. CambioDe(Contenido, c)
    BY <1>2, CambiosType
<1>5. /\ CambioDe(Contenido, cambio') /\ cambio' # NoCambio
      /\ cambio'.op = c.op /\ cambio'.user = c.user /\ cambio'.i = c.i /\ cambio'.k = c.k
      /\ cambio'.addr = c.addr /\ cambio'.file = c.file /\ cambio'.descr = c.descr
    BY <1>3, <1>4, CambioEnHilo
<1>6. debido' \in Seq(Celda)
    BY <1>2, <1>3, <1>4, HechoType
<1>7. /\ c.op \in {"register", "unregister", "connect", "disconnect", "publish", "delete"}
      /\ resto' = Cola(Primera(c.op, lleno)) /\ Primera(c.op, lleno) \in Asignaciones
  <2>1. lleno \in BOOLEAN
      OBVIOUS
  <2> QED
      BY <1>3, <1>4, <2>1, PasosCola DEF CambioDe
<1>8. resto' \in Seq(Asignaciones) /\ W' = Primera(c.op, lleno)
    BY <1>7, ColaProps DEF W
<1>9. TypeOK'
  <2>1. MaxCambios \in Nat
      BY PersistenciaAssumption DEF PersistenciaAssumption
  <2>2. cambio' \in Cambio /\ c.user \in Users \cup {Cero}
      BY <1>4, <1>5 DEF CambioDe, Cambio
  <2> QED
      BY <1>1, <1>3, <1>6, <1>8, <2>1, <2>2 DEF TypeOK, Durante
<1>10. ControlInv'
    BY <1>1, <1>5 DEF ControlInv, Libre, EnMarcha, Vivo
<1>11. /\ W' \in DeAlta <=> c.op = "register"
       /\ W' \in {"suelta", "inserta"} \/ W' \notin DeAlta
       /\ W' = "inserta" => ~lleno
    BY <1>7, <1>8 DEF Primera, DeAlta
<1>12. RestoInv'
    BY <1>1, <1>2, <1>5, <1>7, <1>8, <1>11 DEF RestoInv, CambioDe
<1>13. BloqueInv'
    BY <1>1, <1>5, <1>11 DEF BloqueInv, DeAlta, TypeOK
<1>14. Falta'
  <2>1. Contenido' = Contenido /\ almacen' = almacen
      BY <1>1 DEF Contenido
  <2>2. CASE c.op = "register"
      BY <1>3, <1>5, <1>8, <2>1, <2>2 DEF Falta, Primera, Hecho
  <2>3. CASE c.op \in {"unregister", "connect", "disconnect", "publish"}
      BY <1>3, <1>5, <1>8, <2>1, <2>3 DEF Falta, Primera, Hecho
  <2>4. CASE c.op = "delete"
    <3>1. c.i \in 1 .. n /\ c.k \in 1 .. Len(almacen[c.i].files)
        BY <1>2, <1>4, <2>4 DEF CambioDe
    <3> QED
        BY <1>3, <1>5, <1>8, <2>1, <2>4, <3>1 DEF Falta, Primera, Hecho
  <2> QED
      BY <1>7, <2>2, <2>3, <2>4
<1>15. MemoriaInv'
    BY <1>1, <1>5, <1>14 DEF MemoriaInv
<1>16. VolcadoInv'
    BY <1>1 DEF VolcadoInv, Durante, EnMarcha, Libre
<1> QED
    BY <1>9, <1>10, <1>12, <1>13, <1>15, <1>16
-----------------------------------------------------------------------------
(* close_server.                                                           *)

LEMMA SigintInv ==
    ASSUME IInv, NEW h \in Hilos, Sigint(h)
    PROVE  IInv'
<1> USE DEF IInv
<1>1. /\ Vivo /\ Libre(h) /\ (fase # "sirve" => h = Principal)
      /\ manejador' = [manejador EXCEPT ![h].pc = "abre"]
      /\ causas' = causas \cup Sorprende
      /\ tocados' = IF cambio = NoCambio THEN tocados ELSE tocados \cup {cambio.user}
      /\ UNCHANGED <<fase, almacen, bloque, n_elementos, max_tuplas, cambio, resto, fichero,
                     debido, vidas, hechos>>
    BY DEF Sigint, memoria
<1>2. /\ manejador' \in [Hilos -> [pc : {"fuera", "abre", "escribe", "libera", "sale"},
                                   i : Nat, escritas : Nat]]
      /\ manejador'[h].pc = "abre" /\ manejador'[h].i = 1 /\ manejador'[h].escritas = 0
      /\ \A g \in Hilos \ {h} : manejador'[g] = manejador[g]
    BY <1>1 DEF TypeOK, ControlInv, Libre
<1>3. TypeOK'
    BY <1>1, <1>2 DEF TypeOK, Sorprende, Cambio
<1>4. ControlInv'
    BY <1>1, <1>2 DEF ControlInv, Libre, EnMarcha, Vivo, W
<1>5. RestoInv' /\ BloqueInv'
    BY <1>1 DEF RestoInv, BloqueInv, W
<1>6. MemoriaInv'
    BY <1>1, <1>2 DEF MemoriaInv, Contenido, Falta, W, Libre
<1>7. ASSUME causas' = {}
      PROVE  /\ causas = {} /\ cambio = NoCambio /\ bloque = "propio"
             /\ \A g \in Hilos : Libre(g)
             /\ ~(fase \in {"abre", "lee"} /\ n_elementos < Len(fichero))
    BY <1>1, <1>7 DEF Sorprende, EnMarcha
<1>8. ASSUME causas' = {} PROVE Contenido = debido
  <2>1. CASE fase = "sirve"
      BY <1>7, <1>8, <2>1 DEF MemoriaInv
  <2>2. CASE fase \in {"abre", "lee", "vacia"}
    <3>1. Libre(Principal)
        BY <1>7, <1>8, PersistenciaAssumption DEF PersistenciaAssumption
    <3>2. /\ fichero = debido /\ n_elementos <= Len(fichero)
          /\ Contenido = SubSeq(fichero, 1, n_elementos)
          /\ fase = "vacia" => n_elementos = Len(fichero)
        BY <2>2, <3>1 DEF MemoriaInv
    <3>3. n_elementos = Len(fichero)
        BY <1>7, <1>8, <2>2, <3>2, LenProperties DEF TypeOK
    <3> QED
        BY <3>2, <3>3, SubSeqFull DEF TypeOK
  <2> QED
      BY <1>1, <2>1, <2>2 DEF TypeOK, Vivo
<1>9. VolcadoInv'
  <2> SUFFICES ASSUME causas' = {} PROVE VolcadoInv'
      BY DEF VolcadoInv
  <2>1. \A g \in Hilos \ {h} : Libre(g)'
      BY <1>2, <1>7 DEF Libre
  <2>2. Contenido' = debido' /\ bloque' = "propio" /\ cambio' = NoCambio /\ fase' # "parado"
      BY <1>1, <1>7, <1>8 DEF Contenido, Vivo
  <2> QED
      BY <1>2, <2>1, <2>2 DEF VolcadoInv
<1> QED
    BY <1>3, <1>4, <1>5, <1>6, <1>9

\* A step of close_server that leaves the memory alone.
LEMMA CierreInv ==
    ASSUME IInv, NEW h \in Hilos, ~Libre(h), manejador[h].pc # "sale",
           NEW m \in [pc : {"fuera", "abre", "escribe", "libera", "sale"},
                      i : Nat, escritas : Nat],
           m.pc \in {"escribe", "libera"}, m.i >= 1,
           manejador' = [manejador EXCEPT ![h] = m],
           fichero' \in Seq(Celda),
           causas' \subseteq {"muerte", "durante", "a_medias", "movido", "carga",
                              "doble", "disco"},
           UNCHANGED <<fase, memoria, cambio, resto, debido, tocados, vidas, hechos>>
    PROVE  /\ TypeOK' /\ ControlInv' /\ RestoInv' /\ BloqueInv' /\ MemoriaInv'
           /\ fase' # "parado"
           /\ manejador'[h] = m
           /\ causas = {} => /\ cambio' = NoCambio /\ \A g \in Hilos \ {h} : Libre(g)'
                             /\ (Contenido = debido => Contenido' = debido')
<1> USE DEF IInv, memoria
<1>1. /\ manejador' \in [Hilos -> [pc : {"fuera", "abre", "escribe", "libera", "sale"},
                                   i : Nat, escritas : Nat]]
      /\ manejador'[h] = m
      /\ \A g \in Hilos \ {h} : manejador'[g] = manejador[g]
    BY DEF TypeOK
<1>2. TypeOK'
    BY <1>1 DEF TypeOK
<1>3. fase # "parado" /\ (fase # "sirve" => h = Principal)
    BY DEF ControlInv, EnMarcha
<1>4. ControlInv'
    BY <1>1, <1>3 DEF ControlInv, Libre, EnMarcha, Vivo, W
<1>5. RestoInv' /\ BloqueInv'
    BY DEF RestoInv, BloqueInv, W
<1>6. MemoriaInv'
    BY <1>1, <1>3 DEF MemoriaInv, Contenido, Falta, W, Libre
<1>7. causas = {} => /\ cambio' = NoCambio /\ \A g \in Hilos \ {h} : Libre(g)'
                     /\ (Contenido = debido => Contenido' = debido')
    BY <1>1 DEF VolcadoInv, Libre, Contenido
<1> QED
    BY <1>1, <1>2, <1>3, <1>4, <1>5, <1>6, <1>7

LEMMA AbreInv ==
    ASSUME IInv, NEW h \in Hilos, Abre(h)
    PROVE  IInv'
<1> DEFINE m == [manejador[h] EXCEPT !.pc = "escribe"]
<1>1. /\ manejador[h].pc = "abre" /\ ~Libre(h)
      /\ manejador[h] \in [pc : {"fuera", "abre", "escribe", "libera", "sale"},
                           i : Nat, escritas : Nat]
      /\ manejador[h].i = 1 /\ manejador[h].escritas = 0
    BY DEF Abre, EntraEnCierre, Libre, IInv, TypeOK, ControlInv
<1>2. /\ m \in [pc : {"fuera", "abre", "escribe", "libera", "sale"}, i : Nat, escritas : Nat]
      /\ m.pc \in {"escribe", "libera"}
      /\ m.pc = "escribe" /\ m.i = 1 /\ m.i >= 1 /\ m.escritas = 0
      /\ manejador[h].pc # "sale"
    BY <1>1
<1>3. /\ manejador' = [manejador EXCEPT ![h] = m] /\ fichero' = <<>> /\ causas' = causas
      /\ UNCHANGED <<fase, memoria, cambio, resto, debido, tocados, vidas, hechos>>
    BY DEF Abre, IInv, TypeOK
<1>4. fichero' \in Seq(Celda)
    BY <1>3
<1>5. causas' \subseteq {"muerte", "durante", "a_medias", "movido", "carga", "doble", "disco"}
    BY <1>3 DEF IInv, TypeOK
<1> HIDE DEF m
<1>6. /\ TypeOK' /\ ControlInv' /\ RestoInv' /\ BloqueInv' /\ MemoriaInv'
      /\ fase' # "parado"
      /\ manejador'[h] = m
      /\ causas = {} => /\ cambio' = NoCambio /\ \A g \in Hilos \ {h} : Libre(g)'
                        /\ (Contenido = debido => Contenido' = debido')
    BY <1>1, <1>2, <1>3, <1>4, <1>5, CierreInv
<1>7. ASSUME causas = {} PROVE bloque' = "propio" /\ Contenido = debido
    BY <1>1, <1>3, <1>7 DEF IInv, VolcadoInv, memoria
<1>8. SubSeq(debido', 1, 0) = <<>>
    BY SubSeqEmpty
<1>9. n_elementos' \in Nat
    BY <1>6 DEF TypeOK
<1>10. VolcadoInv'
    BY <1>2, <1>3, <1>6, <1>7, <1>8, <1>9 DEF VolcadoInv
<1> QED
    BY <1>6, <1>10 DEF IInv

\* fopen or fwrite fails.
LEMMA FallaInv ==
    ASSUME IInv, NEW h \in Hilos, AbreFalla(h) \/ VuelcaFalla(h)
    PROVE  IInv'
<1> DEFINE m == IF AbreFalla(h) THEN [manejador[h] EXCEPT !.pc = "libera"]
                ELSE [manejador[h] EXCEPT !.i = @ + 1]
<1>1. /\ manejador[h].pc \in {"abre", "escribe"} /\ ~Libre(h)
      /\ ~AbreFalla(h) => manejador[h].pc = "escribe"
      /\ manejador[h] \in [pc : {"fuera", "abre", "escribe", "libera", "sale"},
                           i : Nat, escritas : Nat]
      /\ manejador[h].i >= 1
    BY DEF AbreFalla, VuelcaFalla, EntraEnCierre, Libre, IInv, TypeOK, ControlInv
<1>2. m \in [pc : {"fuera", "abre", "escribe", "libera", "sale"}, i : Nat, escritas : Nat]
      /\ m.pc \in {"escribe", "libera"} /\ m.i >= 1
    BY <1>1
<1>3. /\ manejador' = [manejador EXCEPT ![h] = m] /\ fichero' = fichero
      /\ causas' = causas \cup {"disco"} \/ causas' = causas \cup {"movido"}
      /\ UNCHANGED <<fase, memoria, cambio, resto, debido, tocados, vidas, hechos>>
    BY DEF AbreFalla, VuelcaFalla, IInv, TypeOK
<1>4. fichero' \in Seq(Celda)
      /\ causas' \subseteq {"muerte", "durante", "a_medias", "movido", "carga", "doble", "disco"}
    BY <1>3 DEF IInv, TypeOK
<1> HIDE DEF m
<1>5. TypeOK' /\ ControlInv' /\ RestoInv' /\ BloqueInv' /\ MemoriaInv'
    BY <1>1, <1>2, <1>3, <1>4, CierreInv
<1>6. VolcadoInv'
    BY <1>3 DEF VolcadoInv
<1> QED
    BY <1>5, <1>6 DEF IInv

\* The file after a tuple is written at a place of it or behind it.
LEMMA EnFicheroProps ==
    ASSUME NEW s \in Seq(Celda), NEW p \in Nat \ {0}, NEW t \in Celda
    PROVE  /\ EnFichero(s, p, t) \in Seq(Celda)
           /\ p = Len(s) + 1 => EnFichero(s, p, t) = Append(s, t)
<1> DEFINE l == IF p > Len(s) THEN p ELSE Len(s)
           e == EnFichero(s, p, t)
<1>1. Len(s) \in Nat /\ l \in Nat /\ \A j \in 1 .. Len(s) : s[j] \in Celda
    BY LenProperties, ElementOfSeq
<1>2. e = [j \in 1 .. l |-> IF j = p THEN t ELSE IF j <= Len(s) THEN s[j] ELSE TuplaBorrada]
    BY DEF EnFichero
<1>3. e \in [1 .. l -> Celda]
    BY <1>1, <1>2, Celdas
<1>4. e \in Seq(Celda)
    BY <1>1, <1>3, SeqDef
<1>5. DOMAIN e = 1 .. l /\ DOMAIN e = 1 .. Len(e) /\ Len(e) \in Nat
    BY <1>3, <1>4, LenProperties
<1>6. Len(e) = l
    BY <1>1, <1>5
<1>7. \A j \in 1 .. l : e[j] = IF j = p THEN t ELSE IF j <= Len(s) THEN s[j] ELSE TuplaBorrada
    BY <1>2
<1>8. ASSUME p = Len(s) + 1 PROVE e = Append(s, t)
  <2>1. l = Len(s) + 1
      BY <1>1, <1>8
  <2> HIDE DEF e, l
  <2>2. /\ Append(s, t) \in Seq(Celda) /\ Len(Append(s, t)) = Len(s) + 1
        /\ \A j \in 1 .. Len(s) : Append(s, t)[j] = s[j]
        /\ Append(s, t)[Len(s) + 1] = t
      BY AppendProperties
  <2>3. \A j \in 1 .. Len(s) + 1 : e[j] = Append(s, t)[j]
      BY <1>1, <1>7, <1>8, <2>1, <2>2
  <2> QED
      BY <1>4, <1>6, <2>1, <2>2, <2>3, SeqEqual
<1> QED
    BY <1>4, <1>8

LEMMA VuelcaInv ==
    ASSUME IInv, NEW h \in Hilos, Vuelca(h)
    PROVE  IInv'
<1> DEFINE i == manejador[h].i
           p == manejador[h].escritas
           m == [manejador[h] EXCEPT !.i = i + 1, !.escritas = p + 1]
<1>1. /\ manejador[h].pc = "escribe" /\ ~Libre(h)
      /\ manejador[h] \in [pc : {"fuera", "abre", "escribe", "libera", "sale"},
                           i : Nat, escritas : Nat]
      /\ i \in Nat /\ p \in Nat /\ manejador[h].pc # "sale"
      /\ i >= 1 /\ i <= n_elementos /\ bloque # "nulo"
    BY DEF Vuelca, QuedaPorEscribir, Libre, IInv, TypeOK, ControlInv
<1>2. /\ m \in [pc : {"fuera", "abre", "escribe", "libera", "sale"}, i : Nat, escritas : Nat]
      /\ m.pc \in {"escribe", "libera"}
      /\ m.pc = "escribe" /\ m.i = i + 1 /\ m.escritas = p + 1 /\ m.i >= 1
      /\ p + 1 \in Nat \ {0}
  <2>1. /\ manejador[h].pc = "escribe"
        /\ manejador[h] \in [pc : {"fuera", "abre", "escribe", "libera", "sale"},
                             i : Nat, escritas : Nat]
        /\ i + 1 \in Nat /\ i + 1 >= 1 /\ p + 1 \in Nat /\ p + 1 \in Nat \ {0}
      BY <1>1
  <2> HIDE DEF i, p
  <2>2. m \in [pc : {"fuera", "abre", "escribe", "libera", "sale"}, i : Nat, escritas : Nat]
      BY <2>1
  <2>3. m.pc = "escribe" /\ m.i = i + 1 /\ m.escritas = p + 1
      BY <2>1
  <2> QED
      BY <2>1, <2>2, <2>3
<1>3. /\ manejador' = [manejador EXCEPT ![h] = m] /\ causas' = causas
      /\ fichero' = EnFichero(fichero, p + 1, almacen[i])
      /\ UNCHANGED <<fase, memoria, cambio, resto, debido, tocados, vidas, hechos>>
  <2>1. /\ manejador' = [manejador EXCEPT ![h].i = @ + 1, ![h].escritas = @ + 1]
        /\ causas' = causas /\ fichero' = EnFichero(fichero, p + 1, almacen[i])
        /\ UNCHANGED <<fase, memoria, cambio, resto, debido, tocados, vidas, hechos>>
      BY DEF Vuelca
  <2>2. manejador' = [manejador EXCEPT ![h] = m]
      BY <2>1 DEF IInv, TypeOK
  <2> QED
      BY <2>1, <2>2
<1>4. /\ almacen \in Seq(Celda) /\ Len(almacen) \in Nat
      /\ n_elementos \in 0 .. Len(almacen)
      /\ Contenido \in Seq(Celda) /\ Len(Contenido) = n_elementos
      /\ \A j \in 1 .. n_elementos : Contenido[j] = almacen[j]
    BY <1>1, Entre DEF IInv
<1>5. almacen[i] \in Celda
    BY <1>1, <1>2, <1>4, ElementOfSeq
<1>6. fichero \in Seq(Celda)
      /\ causas' \subseteq {"muerte", "durante", "a_medias", "movido", "carga", "doble", "disco"}
    BY <1>3 DEF IInv, TypeOK
<1>7. fichero' \in Seq(Celda)
  <2> HIDE DEF i, p
  <2> QED
      BY <1>2, <1>3, <1>5, <1>6, EnFicheroProps
<1> HIDE DEF m
<1>8. /\ TypeOK' /\ ControlInv' /\ RestoInv' /\ BloqueInv' /\ MemoriaInv'
      /\ fase' # "parado"
      /\ manejador'[h] = m
      /\ causas = {} => /\ cambio' = NoCambio /\ \A g \in Hilos \ {h} : Libre(g)'
                        /\ (Contenido = debido => Contenido' = debido')
    BY <1>1, <1>2, <1>3, <1>6, <1>7, CierreInv
<1>9. ASSUME causas = {}
      PROVE  /\ bloque' = "propio" /\ Contenido = debido /\ p + 1 = i
             /\ fichero' = SubSeq(debido, 1, i)
  <2>1. /\ bloque = "propio" /\ Contenido = debido /\ p = i - 1
        /\ fichero = SubSeq(debido, 1, i - 1)
      BY <1>1, <1>9 DEF IInv, VolcadoInv
  <2>2. Len(fichero) = i - 1
      BY <1>1, <1>4, <2>1, Prefijo
  <2>3. fichero' = Append(fichero, debido[i])
    <3>1. p + 1 = Len(fichero) + 1 /\ debido[i] = almacen[i]
        BY <1>1, <1>4, <2>1, <2>2
    <3> HIDE DEF i, p
    <3> QED
        BY <1>2, <1>3, <1>5, <1>6, <3>1, EnFicheroProps
  <2>4. SubSeq(debido, 1, (i - 1) + 1) = Append(SubSeq(debido, 1, i - 1), debido[(i - 1) + 1])
    <3>1. i - 1 \in Nat /\ i - 1 < Len(debido) /\ debido \in Seq(Celda)
        BY <1>1, <1>4, <2>1
    <3> QED
        BY <3>1, PrefijoMas
  <2>5. (i - 1) + 1 = i
      BY <1>1
  <2>6. fichero' = SubSeq(debido, 1, i)
      BY <2>1, <2>3, <2>4, <2>5
  <2>7. bloque' = bloque /\ p + 1 = i
      BY <1>1, <1>3, <2>1 DEF memoria
  <2> QED
      BY <2>1, <2>6, <2>7
<1> HIDE DEF i, p
<1>10. VolcadoInv'
  <2> SUFFICES ASSUME causas = {} PROVE VolcadoInv'
      BY <1>3 DEF VolcadoInv
  <2>1. n_elementos' = n_elementos /\ debido' = debido /\ n_elementos \in Nat
      BY <1>3, <1>4 DEF memoria
  <2>2. m.i - 1 = i /\ m.escritas = i /\ m.i <= n_elementos + 1
      BY <1>1, <1>2, <1>9, <2>1
  <2> QED
      BY <1>2, <1>8, <1>9, <2>1, <2>2 DEF VolcadoInv
<1> QED
    BY <1>8, <1>10 DEF IInv

LEMMA CierraInv ==
    ASSUME IInv, NEW h \in Hilos, Cierra(h)
    PROVE  IInv'
<1> DEFINE m == [manejador[h] EXCEPT !.pc = "libera"]
<1>1. /\ manejador[h].pc = "escribe" /\ ~Libre(h)
      /\ manejador[h] \in [pc : {"fuera", "abre", "escribe", "libera", "sale"},
                           i : Nat, escritas : Nat]
      /\ manejador[h].i >= 1 /\ manejador[h].i > n_elementos
    BY DEF Cierra, QuedaPorEscribir, Libre, IInv, TypeOK, ControlInv
<1>2. m \in [pc : {"fuera", "abre", "escribe", "libera", "sale"}, i : Nat, escritas : Nat]
      /\ m.pc \in {"escribe", "libera"} /\ m.pc = "libera" /\ m.i >= 1
    BY <1>1
<1>3. /\ manejador' = [manejador EXCEPT ![h] = m] /\ fichero' = fichero /\ causas' = causas
      /\ UNCHANGED <<fase, memoria, cambio, resto, debido, tocados, vidas, hechos>>
    BY DEF Cierra, IInv, TypeOK
<1>4. fichero' \in Seq(Celda)
      /\ causas' \subseteq {"muerte", "durante", "a_medias", "movido", "carga", "doble", "disco"}
    BY <1>3 DEF IInv, TypeOK
<1> HIDE DEF m
<1>5. /\ TypeOK' /\ ControlInv' /\ RestoInv' /\ BloqueInv' /\ MemoriaInv'
      /\ fase' # "parado"
      /\ manejador'[h] = m
      /\ causas = {} => /\ cambio' = NoCambio /\ \A g \in Hilos \ {h} : Libre(g)'
                        /\ (Contenido = debido => Contenido' = debido')
    BY <1>1, <1>2, <1>3, <1>4, CierreInv
<1>6. ASSUME causas = {}
      PROVE  fichero' = debido' /\ bloque' = "propio" /\ Contenido = debido
  <2>1. /\ bloque = "propio" /\ Contenido = debido /\ manejador[h].i <= n_elementos + 1
        /\ fichero = SubSeq(debido, 1, manejador[h].i - 1)
      BY <1>1, <1>6 DEF IInv, VolcadoInv
  <2>2. /\ n_elementos \in 0 .. Len(almacen) /\ Len(almacen) \in Nat
        /\ Contenido \in Seq(Celda) /\ Len(Contenido) = n_elementos
      BY <2>1, Entre DEF IInv
  <2>3. manejador[h].i - 1 = Len(debido)
      BY <1>1, <2>1, <2>2
  <2>4. SubSeq(debido, 1, Len(debido)) = debido
      BY <2>1, <2>2, SubSeqFull
  <2> QED
      BY <1>3, <2>1, <2>3, <2>4 DEF memoria
<1>7. VolcadoInv'
    BY <1>2, <1>3, <1>5, <1>6 DEF VolcadoInv
<1> QED
    BY <1>5, <1>7 DEF IInv

LEMMA LiberaInv ==
    ASSUME IInv, NEW h \in Hilos, Libera(h)
    PROVE  IInv'
<1> USE DEF IInv
<1>1. /\ manejador[h].pc = "libera" /\ ~Libre(h)
      /\ manejador' = [manejador EXCEPT ![h].pc = "sale"]
      /\ almacen' = <<>> /\ bloque' = "nulo"
      /\ UNCHANGED <<fase, n_elementos, max_tuplas, cambio, resto, fichero, debido,
                     causas, tocados, vidas, hechos>>
    BY DEF Libera, Libre
<1>2. /\ manejador' \in [Hilos -> [pc : {"fuera", "abre", "escribe", "libera", "sale"},
                                   i : Nat, escritas : Nat]]
      /\ manejador'[h].pc = "sale" /\ manejador'[h].i = manejador[h].i
      /\ \A g \in Hilos \ {h} : manejador'[g] = manejador[g]
    BY <1>1 DEF TypeOK
<1>3. almacen' \in Seq(Celda)
    BY <1>1
<1>4. TypeOK'
    BY <1>1, <1>2, <1>3 DEF TypeOK
<1>5. fase # "parado" /\ (fase # "sirve" => h = Principal)
    BY <1>1 DEF ControlInv, EnMarcha
<1>6. ControlInv'
    BY <1>1, <1>2, <1>5 DEF ControlInv, Libre, EnMarcha, Vivo, W
<1>7. RestoInv' /\ BloqueInv'
    BY <1>1 DEF RestoInv, BloqueInv, W
<1>8. MemoriaInv'
    BY <1>1, <1>2, <1>5 DEF MemoriaInv, Libre
<1>9. VolcadoInv'
  <2> SUFFICES ASSUME causas = {} PROVE VolcadoInv'
      BY <1>1 DEF VolcadoInv
  <2>1. cambio = NoCambio /\ (\A g \in Hilos \ {h} : Libre(g)) /\ fichero = debido
      BY <1>1 DEF VolcadoInv
  <2>2. \A g \in Hilos \ {h} : Libre(g)'
      BY <1>2, <2>1 DEF Libre
  <2> QED
      BY <1>1, <1>2, <1>5, <2>1, <2>2 DEF VolcadoInv
<1> QED
    BY <1>4, <1>6, <1>7, <1>8, <1>9

LEMMA SaleInv ==
    ASSUME IInv, NEW h \in Hilos, Sale(h)
    PROVE  IInv'
<1>1. Termina /\ fichero' = fichero /\ causas' = causas /\ manejador[h].pc = "sale"
    BY DEF Sale
<1>2. causas' \subseteq {"muerte", "durante", "a_medias", "movido", "carga", "doble", "disco"}
    BY <1>1 DEF IInv, TypeOK
<1>3. causas' = {} => fichero = debido
    BY <1>1 DEF IInv, VolcadoInv, Libre
<1> QED
    BY <1>1, <1>2, <1>3, TerminaInv

-----------------------------------------------------------------------------
(* The system.                                                             *)

LEMMA InitIInv == Init => IInv
<1> SUFFICES ASSUME Init PROVE IInv
    OBVIOUS
<1> USE DEF Init
<1>1. /\ MaxInicial \in Nat /\ MaxInicial >= 1 /\ MaxVidas \in Nat /\ MaxCambios \in Nat
      /\ Guardados \subseteq Seq(Tupla)
    BY PersistenciaAssumption DEF PersistenciaAssumption
<1>2. fichero \in Seq(Celda)
    BY <1>1, Celdas, SeqMonotonic
<1>3. <<>> \in Seq(Celda) /\ <<>> \in Seq(Asignaciones)
    OBVIOUS
<1>4. /\ manejador \in [Hilos -> [pc : {"fuera", "abre", "escribe", "libera", "sale"},
                                  i : Nat, escritas : Nat]]
      /\ \A h \in Hilos : manejador[h].pc = "fuera" /\ manejador[h].i = 1
                          /\ manejador[h].escritas = 0
    BY DEF Fuera
<1>5. TypeOK
    BY <1>1, <1>2, <1>3, <1>4, CambioNulo DEF TypeOK
<1>6. ControlInv /\ BloqueInv
    BY <1>1, <1>4 DEF ControlInv, BloqueInv, Libre, EnMarcha, Vivo
<1>7. RestoInv /\ MemoriaInv /\ VolcadoInv
    BY <1>4 DEF RestoInv, MemoriaInv, VolcadoInv, Libre
<1> QED
    BY <1>5, <1>6, <1>7 DEF IInv

LEMMA StepIInv == IInv /\ [Next]_vars => IInv'
<1> SUFFICES ASSUME IInv, [Next]_vars PROVE IInv'
    OBVIOUS
<1>1. CASE Arranca
    BY <1>1, ArrancaInv
<1>2. CASE CargaTupla
    BY <1>2, CargaTuplaInv
<1>3. CASE CargaAbre \/ CargaFin \/ CargaVacia
    BY <1>3, CargaInv
<1>4. CASE CargaFalla \/ Muere
    BY <1>4, FinInv
<1>5. ASSUME NEW h \in Hilos, Empieza(h) \/ Escribe(h) \/ Sigint(h) PROVE IInv'
    BY <1>5, EmpiezaInv, EscribeInv, SigintInv
<1>6. ASSUME NEW h \in Hilos, CloseServer(h) PROVE IInv'
  <2>1. CASE Abre(h)
      BY <2>1, AbreInv
  <2>2. CASE AbreFalla(h) \/ VuelcaFalla(h)
      BY <2>2, FallaInv
  <2>3. CASE Vuelca(h)
      BY <2>3, VuelcaInv
  <2>4. CASE Cierra(h)
      BY <2>4, CierraInv
  <2>5. CASE Libera(h)
      BY <2>5, LiberaInv
  <2>6. CASE Sale(h)
      BY <2>6, SaleInv
  <2> QED
      BY <1>6, <2>1, <2>2, <2>3, <2>4, <2>5, <2>6 DEF CloseServer
<1>7. CASE UNCHANGED vars
    BY <1>7 DEF vars, IInv, TypeOK, ControlInv, RestoInv, BloqueInv, MemoriaInv, VolcadoInv,
                Libre, EnMarcha, Vivo, W, Contenido, Falta
<1> QED
    BY <1>1, <1>2, <1>3, <1>4, <1>5, <1>6, <1>7 DEF Next, Terminado

THEOREM Invariante == Spec => []IInv
BY InitIInv, StepIInv, PTL DEF Spec

\* Type correctness, for any threads, any updates and any number of starts
\* (server.c 31-35, 954-1024).
THEOREM TypeCorrect == Spec => []TypeOK
<1>1. IInv => TypeOK
    BY DEF IInv
<1> QED
    BY <1>1, Invariante, PTL

\* Neither load nor register writes past the end of the block, for any initial
\* capacity and any file (server.c 278-288, 984-992).
THEOREM StoreFits == Spec => []BlockFits
<1>1. ASSUME IInv PROVE BlockFits
  <2> SUFFICES ASSUME bloque # "nulo" PROVE BlockFits
      BY DEF BlockFits
  <2>1. n_elementos \in Nat /\ max_tuplas \in Nat /\ n_elementos <= max_tuplas
      BY <1>1 DEF IInv, TypeOK, BloqueInv
  <2>2. Len(almacen) = IF cambio # NoCambio /\ W = "max" THEN 2 * max_tuplas ELSE max_tuplas
      BY <1>1 DEF IInv, BloqueInv
  <2>3. fase \in {"abre", "lee"} => cambio = NoCambio /\ n_elementos < max_tuplas
      BY <1>1 DEF IInv, BloqueInv, ControlInv
  <2>4. resto # <<>> /\ W = "inserta" => cambio # NoCambio /\ n_elementos < max_tuplas
      BY <1>1 DEF IInv, BloqueInv, RestoInv
  <2> QED
      BY <2>1, <2>2, <2>3, <2>4 DEF BlockFits, W
<1> QED
    BY <1>1, Invariante, PTL

\* However many assignments an update is and whenever the block is moved, the
\* array is between updates what the updates should have made of the file
\* (server.c 278-288, 321-329, 396-398, 470-472, 546-548, 841, 984-992).
THEOREM MemoryIsRight == Spec => []MemoryRight
<1>1. IInv => MemoryRight
    BY DEF IInv, MemoriaInv, MemoryRight
<1> QED
    BY <1>1, Invariante, PTL

\* While nothing comes at a bad moment the store is whole in memory or in the
\* file at every point between updates (server.c 947-948, 995).
THEOREM WholeSomewhere == Spec => []SomewhereWhole
<1>1. ASSUME IInv PROVE SomewhereWhole
  <2> SUFFICES ASSUME causas = {}, cambio = NoCambio
               PROVE  fichero = debido \/ (bloque = "propio" /\ Contenido = debido)
      BY DEF SomewhereWhole
  <2> USE <1>1 DEF IInv
  <2>1. CASE fase = "parado"
      BY <2>1 DEF VolcadoInv
  <2>2. CASE EnMarcha
    <3>1. PICK h \in Hilos : ~Libre(h)
        BY <2>2 DEF EnMarcha
    <3>2. manejador[h].pc \in {"abre", "escribe", "libera", "sale"}
        BY <3>1 DEF TypeOK, Libre
    <3> QED
        BY <3>1, <3>2 DEF VolcadoInv
  <2>3. CASE fase \in {"abre", "lee", "vacia"} /\ ~EnMarcha
      BY <2>3, PersistenciaAssumption DEF MemoriaInv, EnMarcha, PersistenciaAssumption
  <2>4. CASE fase = "sirve" /\ ~EnMarcha
    <3>1. bloque = "propio"
        BY <2>4 DEF ControlInv, TypeOK, EnMarcha, Vivo, Libre
    <3> QED
        BY <2>4, <3>1 DEF MemoriaInv
  <2> QED
      BY <2>1, <2>2, <2>3, <2>4 DEF TypeOK
<1> QED
    BY <1>1, Invariante, PTL

-----------------------------------------------------------------------------
(* The server and its file are one store that survives stops and starts.   *)

\* While nothing has come at a bad moment that store is what the updates
\* should have made.
LEMMA AlmacenadoEsDebido == IInv /\ causas = {} => Almacenado = debido
<1> SUFFICES ASSUME IInv, causas = {} PROVE Almacenado = debido
    OBVIOUS
<1> USE DEF IInv
<1>1. CASE fase = "parado"
    BY <1>1 DEF ControlInv, VolcadoInv, Almacenado
<1>2. CASE EnMarcha
  <2>1. PICK h \in Hilos : ~Libre(h)
      BY <1>2 DEF EnMarcha
  <2>2. cambio = NoCambio
      BY <2>1 DEF VolcadoInv
  <2>3. CASE manejador[h].pc \in {"abre", "escribe", "libera"}
      BY <1>2, <2>1, <2>2, <2>3 DEF VolcadoInv, Almacenado
  <2>4. CASE manejador[h].pc = "sale"
    <3>1. fichero = debido
        BY <2>1, <2>4 DEF VolcadoInv
    <3>2. bloque = "nulo"
        BY <1>2, <2>4 DEF ControlInv, Vivo
    <3> QED
        BY <3>1, <3>2 DEF Almacenado
  <2> QED
      BY <2>1, <2>3, <2>4 DEF TypeOK, Libre
<1>3. CASE fase \in {"abre", "lee", "vacia"} /\ ~EnMarcha
  <2>1. fichero = debido
      BY <1>3, PersistenciaAssumption DEF MemoriaInv, EnMarcha, PersistenciaAssumption
  <2> QED
      BY <1>3, <2>1 DEF Almacenado
<1>4. CASE fase = "sirve" /\ ~EnMarcha
  <2>1. bloque # "nulo"
      BY <1>4 DEF ControlInv, EnMarcha, Vivo, Libre
  <2> QED
      BY <1>4, <2>1 DEF MemoriaInv, Almacenado
<1> QED
    BY <1>1, <1>2, <1>3, <1>4 DEF TypeOK

\* Every update of a handler is an update of the store.
LEMMA HechoActualiza ==
    ASSUME NEW a \in Seq(Celda), NEW c, CambioDe(a, c)
    PROVE  \/ \E u \in Users : Hecho(a, c) = Append(a, TuplaVacia(u))
           \/ \E i \in 1 .. Len(a) :
                 \/ Hecho(a, c) = Quitar(a, i)
                 \/ \E addr \in Addrs : Hecho(a, c) = Conectar(a, i, addr)
                 \/ Hecho(a, c) = Desconectar(a, i)
                 \/ \E f \in Files, d \in Descrs : Hecho(a, c) = Publicar(a, i, f, d)
                 \/ \E k \in 1 .. Len(a[i].files) : Hecho(a, c) = Borrar(a, i, k)
<1>1. CASE c.op = "register"
    BY <1>1 DEF CambioDe, Hecho
<1>2. CASE c.op = "unregister"
    BY <1>2 DEF CambioDe, Hecho
<1>3. CASE c.op = "connect"
    BY <1>3 DEF CambioDe, Hecho
<1>4. CASE c.op = "disconnect"
    BY <1>4 DEF CambioDe, Hecho
<1>5. CASE c.op = "publish"
    BY <1>5 DEF CambioDe, Hecho
<1>6. CASE c.op = "delete"
    BY <1>6 DEF CambioDe, Hecho
<1> QED
    BY <1>1, <1>2, <1>3, <1>4, <1>5, <1>6 DEF CambioDe

LEMMA InitPerdurable == Init => P!Init
<1>1. P!Tupla = Tupla
    BY DEF P!Tupla, Tupla, P!Fichero, Fichero
<1> QED
    BY <1>1, PersistenciaAssumption
    DEF Init, P!Init, Almacenado, Vivo, EnMarcha, PersistenciaAssumption

LEMMA AlmacenadoDespues == (IInv /\ causas = {} => Almacenado = debido)'
BY AlmacenadoEsDebido, PTL

\* Only a start forgets what came at a bad moment.
LEMMA CausasQuedan ==
    ASSUME [Next]_vars, ~Arranca
    PROVE  causas \subseteq causas'
BY DEF Next, vars, Carga, CargaAbre, CargaTupla, CargaFin, CargaVacia, CargaFalla,
       Muere, Empieza, Escribe, Sigint, CloseServer, Abre, AbreFalla, Vuelca,
       VuelcaFalla, Cierra, Libera, Sale, Terminado

\* Only a start and an update change what the store should be.
LEMMA DebidoQueda ==
    ASSUME [Next]_vars, ~Arranca, ~\E h \in Hilos : Empieza(h)
    PROVE  debido' = debido
BY DEF Next, vars, Termina, Carga, CargaAbre, CargaTupla, CargaFin, CargaVacia, CargaFalla,
       Muere, Escribe, Sigint, CloseServer, Abre, AbreFalla, Vuelca, VuelcaFalla, Cierra,
       Libera, Sale, Terminado

LEMMA StepPerdurable ==
    ASSUME IInv, IInv', [Next]_vars, causas' = {}
    PROVE  P!Next \/ UNCHANGED P!vars
<1>1. Almacenado' = debido'
    BY AlmacenadoDespues
<1>2. CASE Arranca
  <2>1. Almacenado = fichero
      BY <1>2 DEF Arranca, Almacenado, IInv, ControlInv
  <2> QED
      BY <1>1, <1>2, <2>1 DEF Arranca, P!Next, P!Arranca, Vivo
<1>3. ASSUME ~Arranca PROVE Almacenado = debido
    BY <1>3, CausasQuedan, AlmacenadoEsDebido
<1>4. CASE \E h \in Hilos : Empieza(h)
  <2>1. PICK h \in Hilos : Empieza(h)
      BY <1>4
  <2>2. /\ fase = "sirve" /\ fase' = fase /\ bloque = "propio" /\ cambio = NoCambio
        /\ debido = Contenido
      BY <2>1 DEF Empieza, IInv, MemoriaInv
  <2>3. ~Arranca
      BY <2>2 DEF Arranca
  <2>4. Contenido \in Seq(Celda)
      BY <2>2, Entre DEF IInv
  <2>5. PICK c \in Cambios(Contenido) : debido' = Hecho(Contenido, c)
      BY <2>1 DEF Empieza
  <2>6. CambioDe(Contenido, c)
      BY <2>4, CambiosType
  <2>7. Almacenado = Contenido /\ Almacenado' = Hecho(Contenido, c)
      BY <1>1, <1>3, <2>2, <2>3, <2>5
  <2>8. P!Actualiza
    <3> DEFINE a == Contenido
    <3>1. /\ \A u : P!TuplaVacia(u) = TuplaVacia(u)
          /\ \A i : P!Quitar(a, i) = Quitar(a, i)
          /\ \A i, addr : P!Conectar(a, i, addr) = Conectar(a, i, addr)
          /\ \A i : P!Desconectar(a, i) = Desconectar(a, i)
          /\ \A i, f, d : P!Publicar(a, i, f, d) = Publicar(a, i, f, d)
          /\ \A i, k : P!Borrar(a, i, k) = Borrar(a, i, k)
        BY DEF P!TuplaVacia, TuplaVacia, P!Quitar, Quitar, P!Conectar, Conectar,
               P!Desconectar, Desconectar, P!Publicar, Publicar, P!Borrar, Borrar
    <3> HIDE DEF a
    <3> QED
        BY <2>2, <2>4, <2>6, <2>7, <3>1, HechoActualiza DEF P!Actualiza, Vivo, a
  <2> QED
      BY <2>8 DEF P!Next
<1>5. CASE Termina
  <2>1. ~Arranca /\ debido' = debido
      BY <1>5 DEF Termina, Arranca
  <2> QED
      BY <1>1, <1>3, <1>5, <2>1 DEF Termina, P!Next, P!Para, P!vars, Vivo
<1>6. ASSUME ~Arranca, ~\E h \in Hilos : Empieza(h), ~Termina
      PROVE  debido' = debido /\ Vivo' = Vivo
    BY <1>6 DEF Next, vars, Vivo, Carga, CargaAbre, CargaTupla, CargaFin, CargaVacia, CargaFalla,
                Muere, Escribe, Sigint, CloseServer, Abre, AbreFalla, Vuelca, VuelcaFalla,
                Cierra, Libera, Sale, Terminado
<1> QED
    BY <1>1, <1>2, <1>3, <1>4, <1>5, <1>6 DEF P!vars

\* While nothing comes at a bad moment the server with its file is one store,
\* which only the updates of the handlers change and which stops and starts
\* leave alone (server.c 943-952, 954-1024).
THEOREM StoreSurvives == Spec => ImplementsPerdurable
<1>1. IInv /\ IInv' /\ [Next]_vars =>
          [causas' = {} => P!Next \/ UNCHANGED P!vars]_vars
    BY StepPerdurable
<1> QED
    BY <1>1, Invariante, InitPerdurable, PTL DEF Spec, ImplementsPerdurable

-----------------------------------------------------------------------------
(* A store the handlers can work with stays one.                           *)

\* Every update leaves a sound store sound.
LEMMA HechoSolido ==
    ASSUME NEW a, Solido(a), NEW c, CambioDe(a, c)
    PROVE  Solido(Hecho(a, c))
<1>1. a \in Seq(Tupla) /\ Len(a) \in Nat
    BY LenProperties DEF Solido
<1>2. \A j \in 1 .. Len(a) : Sano(a[j])
    BY <1>1, SolidoSano
<1>3. CASE c.op = "register"
  <2>1. c.user \in Users
      BY <1>3 DEF CambioDe
  <2> DEFINE t == TuplaVacia(c.user)
  <2>2. /\ t.cliente = c.user /\ t.files = <<>> /\ t.connected = 0 /\ t.addr = NoAddr
        /\ t = [cliente |-> c.user, files |-> <<>>, connected |-> 0, addr |-> NoAddr]
      BY DEF TuplaVacia
  <2>3. <<>> \in Seq(Fichero) /\ Len(<<>>) = 0
      OBVIOUS
  <2>4. t \in Tupla
      BY <2>1, <2>2, <2>3 DEF Tupla
  <2>5. Sano(t)
    <3> HIDE DEF t
    <3> QED
        BY <2>2, <2>3, <2>4 DEF Sano, FicherosUnicos
  <2> HIDE DEF t
  <2>6. /\ Append(a, t) \in Seq(Tupla) /\ Len(Append(a, t)) = Len(a) + 1
        /\ \A j \in 1 .. Len(a) : Append(a, t)[j] = a[j]
        /\ Append(a, t)[Len(a) + 1] = t
      BY <1>1, <2>4, AppendProperties
  <2>7. \A j \in 1 .. Len(Append(a, t)) : Sano(Append(a, t)[j])
      BY <1>1, <1>2, <2>5, <2>6
  <2>8. Hecho(a, c) = Append(a, t)
      BY <1>3 DEF Hecho, t
  <2> QED
      BY <2>6, <2>7, <2>8, SolidoSano
<1>4. CASE c.op = "unregister"
  <2>1. c.i \in 1 .. Len(a) /\ Hecho(a, c) = Quitar(a, c.i)
      BY <1>4 DEF CambioDe, Hecho
  <2>2. /\ Quitar(a, c.i) \in Seq(Tupla) /\ Len(Quitar(a, c.i)) = Len(a) - 1
        /\ \A j \in 1 .. Len(a) - 1 :
              Quitar(a, c.i)[j] = IF j = c.i THEN a[Len(a)] ELSE a[j]
      BY <1>1, <2>1, QuitarProps
  <2>3. \A j \in 1 .. Len(a) - 1 : Sano(Quitar(a, c.i)[j])
      BY <1>1, <1>2, <2>1, <2>2
  <2> QED
      BY <2>1, <2>2, <2>3, SolidoSano
<1>5. ASSUME c.op \in {"connect", "disconnect", "publish", "delete"}
      PROVE  Solido(Hecho(a, c))
  <2> DEFINE t == a[c.i]
  <2>1. c.i \in 1 .. Len(a) /\ Sano(t)
      BY <1>2, <1>5 DEF CambioDe
  <2>2. t.files \in Seq(Fichero) /\ FicherosUnicos(t)
      BY <2>1 DEF Sano, Tupla
  <2>3. \A x : Sano(x) => Solido([a EXCEPT ![c.i] = x])
      BY <2>1, SolidoCambiado
  <2>4. CASE c.op = "connect"
    <3>1. Sano([t EXCEPT !.connected = 1, !.addr = c.addr])
        BY <2>1, <2>4, SanaCambiada DEF CambioDe
    <3>2. Hecho(a, c) = [a EXCEPT ![c.i] = [t EXCEPT !.connected = 1, !.addr = c.addr]]
        BY <2>1, <2>4 DEF Hecho, Conectar
    <3> QED
        BY <2>3, <3>1, <3>2
  <2>5. CASE c.op = "disconnect"
    <3>1. Sano([t EXCEPT !.connected = 0])
        BY <2>1, SanaCambiada
    <3>2. Hecho(a, c) = [a EXCEPT ![c.i] = [t EXCEPT !.connected = 0]]
        BY <2>1, <2>5 DEF Hecho, Desconectar
    <3> QED
        BY <2>3, <3>1, <3>2
  <2>6. CASE c.op = "publish"
    <3> DEFINE e == [name |-> c.file, descr |-> c.descr]
               fs == Append(t.files, e)
    <3>1. c.file \in Files /\ c.descr \in Descrs /\ ~Publicado(t, c.file)
        BY <2>6 DEF CambioDe
    <3>2. fs \in Seq(Fichero)
        BY <2>2, <3>1, AppendProperties DEF Fichero
    <3>3. \A i, j \in 1 .. Len(fs) : fs[i].name = fs[j].name => i = j
        BY <2>2, <3>1, PublicarFicheros
    <3>4. Hecho(a, c) = [a EXCEPT ![c.i] = [t EXCEPT !.files = fs]]
        BY <2>1, <2>6 DEF Hecho, Publicar
    <3> HIDE DEF fs, e, t
    <3>5. Sano([t EXCEPT !.files = fs])
        BY <2>1, <3>2, <3>3, SanaCambiada
    <3> QED
        BY <2>3, <3>4, <3>5
  <2>7. CASE c.op = "delete"
    <3> DEFINE fs == Quitar(t.files, c.k)
    <3>1. c.k \in 1 .. Len(t.files)
        BY <2>7 DEF CambioDe
    <3>2. fs \in Seq(Fichero)
        BY <2>2, <3>1, QuitarProps
    <3>3. \A i, j \in 1 .. Len(fs) : fs[i].name = fs[j].name => i = j
        BY <2>2, <3>1, QuitarFicheros
    <3>4. Hecho(a, c) = [a EXCEPT ![c.i] = [t EXCEPT !.files = fs]]
        BY <2>1, <2>7 DEF Hecho, Borrar
    <3> HIDE DEF fs, t
    <3>5. Sano([t EXCEPT !.files = fs])
        BY <2>1, <3>2, <3>3, SanaCambiada
    <3> QED
        BY <2>3, <3>4, <3>5
  <2> QED
      BY <1>5, <2>4, <2>5, <2>6, <2>7
<1> QED
    BY <1>3, <1>4, <1>5 DEF CambioDe

LEMMA StepSolido ==
    ASSUME IInv, IInv', [Next]_vars, causas' = {}, Solido(Almacenado)
    PROVE  Solido(Almacenado')
<1>1. Almacenado' = debido'
    BY AlmacenadoDespues
<1>2. CASE Arranca
  <2>1. Almacenado = fichero
      BY <1>2 DEF Arranca, Almacenado, IInv, ControlInv
  <2> QED
      BY <1>1, <1>2, <2>1 DEF Arranca
<1>3. ASSUME ~Arranca PROVE Almacenado = debido
    BY <1>3, CausasQuedan, AlmacenadoEsDebido
<1>4. CASE \E h \in Hilos : Empieza(h)
  <2>1. PICK h \in Hilos : Empieza(h)
      BY <1>4
  <2>2. /\ fase = "sirve" /\ bloque = "propio" /\ debido = Contenido
      BY <2>1 DEF Empieza, IInv, MemoriaInv
  <2>3. Contenido \in Seq(Celda)
      BY <2>2, Entre DEF IInv
  <2>4. PICK c \in Cambios(Contenido) : debido' = Hecho(Contenido, c)
      BY <2>1 DEF Empieza
  <2>5. CambioDe(Contenido, c)
      BY <2>3, CambiosType
  <2>6. Solido(Contenido)
      BY <1>3, <2>2 DEF Arranca
  <2>7. Solido(Hecho(Contenido, c))
      BY <2>5, <2>6, HechoSolido
  <2> QED
      BY <1>1, <2>4, <2>7
<1>5. ASSUME ~Arranca, ~\E h \in Hilos : Empieza(h)
      PROVE  Solido(Almacenado')
    BY <1>1, <1>3, <1>5, DebidoQueda
<1> QED
    BY <1>2, <1>4, <1>5

\* Over any updates, stops and starts a store that the handlers can work with
\* stays one, in memory and in the file, as long as nothing comes at a bad
\* moment: a file that a user has is not listed a second time, and nobody is
\* connected without an address (server.c 396-398, 470-472, 546-548, 954-1024).
THEOREM StoreIsSound == Spec => StoreStaysSound
<1>1. IInv /\ IInv' /\ [Next]_vars =>
          [causas' = {} /\ Solido(Almacenado) => Solido(Almacenado')]_vars
    BY StepSolido
<1> QED
    BY <1>1, Invariante, PTL DEF Spec, StoreStaysSound

-----------------------------------------------------------------------------
(* A SIGINT that comes upon an update.                                     *)

\* The tuple at cambio.i is of the user of the update until a removal copies
\* the last one over it; what is past the end of the array is not counted yet.
ObjetoInv ==
    fase = "sirve" /\ bloque # "nulo" /\ cambio # NoCambio =>
        LET t == almacen[cambio.i]
            n == n_elementos
        IN  /\ W = "sube" => almacen[n + 1].cliente = cambio.user
            /\ W \in {"nombre", "conectado", "direccion", "desconectado", "fichero",
                      "pisa", "limpia", "quita"} => t.cliente = cambio.user
            /\ W = "copia" => t.cliente = almacen[n].cliente
            /\ W = "borra" => t = almacen[n]
            /\ W \in {"copia", "borra"} /\ cambio.i = n => t.cliente = cambio.user
            /\ W = "baja" => almacen[n].cliente = Cero

\* Every user but those of tocados has in s the tuple it has in debido.
Conserva(s) ==
    NombresUnicos(debido) =>
        \A u \in Users \ tocados : TuplaDe(s, u) = TuplaDe(debido, u)

\* close_server when an update is half done and nothing else has come at a bad
\* moment: it writes the array as the update has left it.
InterrupcionInv ==
    /\ Vivo /\ ~EnMarcha => "a_medias" \notin causas
    /\ causas = {"a_medias"} =>
          \A h \in Hilos : ~Libre(h) =>
              /\ fase = "sirve" /\ cambio # NoCambio /\ cambio.user \in tocados
              /\ \A g \in Hilos \ {h} : Libre(g)
              /\ manejador[h].pc \in {"abre", "escribe", "libera"} => bloque = "propio"
              /\ manejador[h].pc = "escribe" =>
                    /\ manejador[h].i <= n_elementos + 1
                    /\ manejador[h].escritas = manejador[h].i - 1
                    /\ fichero = SubSeq(Contenido, 1, manejador[h].i - 1)
              /\ manejador[h].pc = "libera" => fichero = Contenido
              /\ manejador[h].pc = "sale" => Conserva(fichero)

IInv2 == IInv /\ ObjetoInv /\ InterrupcionInv

-----------------------------------------------------------------------------
(* What the searches find in two arrays that differ in tuples of others.   *)

LEMMA TuplaDeUltima ==
    ASSUME NEW s, NEW u, NEW j, Len(s) \in Nat, EsUltimo(s, u, j)
    PROVE  TuplaDe(s, u) = {s[j]}
<1>1. ASSUME NEW k \in 1 .. Len(s), EsUltimo(s, u, k) PROVE k = j
    BY <1>1 DEF EsUltimo
<1> QED
    BY <1>1 DEF TuplaDe, EsUltimo

\* A tuple of another user is rewritten.
LEMMA TuplaDeOtro ==
    ASSUME NEW s, NEW t, NEW u, Len(s) \in Nat, Len(t) = Len(s),
           \A j \in 1 .. Len(s) : s[j] = t[j] \/ (s[j].cliente # u /\ t[j].cliente # u)
    PROVE  TuplaDe(s, u) = TuplaDe(t, u)
<1>1. \A j \in 1 .. Len(s) : s[j].cliente = u <=> t[j].cliente = u
    OBVIOUS
<1>2. \A j \in 1 .. Len(s) : EsUltimo(s, u, j) <=> EsUltimo(t, u, j)
    BY <1>1 DEF EsUltimo
<1>3. \A j \in 1 .. Len(s) : EsUltimo(s, u, j) => s[j] = t[j]
    BY DEF EsUltimo
<1> QED
    BY <1>2, <1>3 DEF TuplaDe

\* One more tuple, of another user.
LEMMA TuplaDeMas ==
    ASSUME NEW s, NEW t, NEW u, Len(s) \in Nat, Len(t) = Len(s) + 1,
           \A j \in 1 .. Len(s) : t[j] = s[j],
           t[Len(t)].cliente # u
    PROVE  TuplaDe(s, u) = TuplaDe(t, u)
<1>1. \A j \in 1 .. Len(s) : EsUltimo(s, u, j) <=> EsUltimo(t, u, j)
    BY DEF EsUltimo
<1>2. \A j \in 1 .. Len(t) : EsUltimo(t, u, j) => j \in 1 .. Len(s)
    BY DEF EsUltimo
<1>3. 1 .. Len(s) \subseteq 1 .. Len(t)
    OBVIOUS
<1> QED
    BY <1>1, <1>2, <1>3 DEF TuplaDe

\* The last tuple is gone, of which there was a copy.
LEMMA TuplaDeCopia ==
    ASSUME NEW s, NEW t, NEW u, Len(s) \in Nat, Len(t) = Len(s) + 1, NombresUnicos(s),
           \A j \in 1 .. Len(s) : t[j] = s[j],
           NEW i \in 1 .. Len(s), t[i] = t[Len(t)]
    PROVE  TuplaDe(s, u) = TuplaDe(t, u)
<1>1. CASE t[Len(t)].cliente # u
    BY <1>1, TuplaDeMas
<1>2. CASE t[Len(t)].cliente = u
  <2>1. EsUltimo(t, u, Len(t)) /\ Len(t) \in Nat
      BY <1>2 DEF EsUltimo
  <2>2. s[i] = t[Len(t)] /\ s[i].cliente = u
      BY <1>2
  <2>3. EsUltimo(s, u, i)
      BY <2>2 DEF EsUltimo, NombresUnicos
  <2> QED
      BY <2>1, <2>2, <2>3, TuplaDeUltima
<1> QED
    BY <1>1, <1>2

\* The last tuple is moved to place i, which is of another user or has the
\* name of the tuple that is moved there.
LEMMA TuplaDeQuitar ==
    ASSUME NEW S, NEW s \in Seq(S), NEW i \in 1 .. Len(s), NEW u,
           NombresUnicos(Quitar(s, i)),
           s[i].cliente = u => i # Len(s) /\ s[Len(s)].cliente = u
    PROVE  TuplaDe(s, u) = TuplaDe(Quitar(s, i), u)
<1> DEFINE n == Len(s)
           q == Quitar(s, i)
<1>1. /\ n \in Nat /\ n >= 1 /\ i \in 1 .. n /\ Len(q) = n - 1 /\ Len(q) \in Nat
      /\ \A j \in 1 .. n - 1 : q[j] = IF j = i THEN s[n] ELSE s[j]
    BY LenProperties, QuitarProps
<1>2. \A j, k \in 1 .. n - 1 : q[j].cliente = q[k].cliente => j = k
    BY <1>1 DEF NombresUnicos
<1> HIDE DEF n, q
<1>3. s[i].cliente = u => i # n /\ s[n].cliente = u
    BY DEF n
<1>4. ASSUME s[n].cliente = u PROVE TuplaDe(s, u) = TuplaDe(q, u)
  <2>1. i # n /\ i \in 1 .. n - 1
      BY <1>1, <1>3, <1>4
  <2>2. n = Len(s) /\ n \in 1 .. n
      BY <1>1 DEF n
  <2>3. EsUltimo(s, u, n)
      BY <1>4, <2>2 DEF EsUltimo
  <2>4. q[i] = s[n]
      BY <1>1, <2>1
  <2>5. EsUltimo(q, u, i)
      BY <1>1, <1>2, <1>4, <2>1, <2>4 DEF EsUltimo
  <2>6. TuplaDe(s, u) = {s[n]}
      BY <1>1, <2>2, <2>3, TuplaDeUltima
  <2>7. TuplaDe(q, u) = {q[i]}
      BY <1>1, <2>5, TuplaDeUltima
  <2> QED
      BY <2>4, <2>6, <2>7
<1>5. ASSUME s[n].cliente # u PROVE TuplaDe(s, u) = TuplaDe(q, u)
  <2>1. s[i].cliente # u
      BY <1>3, <1>5
  <2>2. \A j \in 1 .. n - 1 : s[j] = q[j] \/ (s[j].cliente # u /\ q[j].cliente # u)
      BY <1>1, <1>5, <2>1
  <2>3. \A j \in 1 .. n : EsUltimo(s, u, j) <=> (j \in 1 .. n - 1 /\ EsUltimo(q, u, j))
    <3> SUFFICES ASSUME NEW j \in 1 .. n
                 PROVE  EsUltimo(s, u, j) <=> (j \in 1 .. n - 1 /\ EsUltimo(q, u, j))
        OBVIOUS
    <3>1. n = Len(s)
        BY DEF n
    <3>2. CASE j = n
        BY <1>1, <1>5, <3>2 DEF EsUltimo
    <3>3. CASE j # n
      <4>1. j \in 1 .. n - 1 /\ \A k \in 1 .. n : k \in 1 .. n - 1 \/ k = n
          BY <1>1, <3>3
      <4>2. \A k \in 1 .. n - 1 : s[k].cliente = u <=> q[k].cliente = u
          BY <2>2
      <4> QED
          BY <1>1, <1>5, <3>1, <4>1, <4>2 DEF EsUltimo
    <3> QED
        BY <3>2, <3>3
  <2>4. \A j \in 1 .. n - 1 : EsUltimo(q, u, j) => s[j] = q[j]
      BY <2>2 DEF EsUltimo
  <2> QED
      BY <1>1, <2>3, <2>4 DEF TuplaDe, n
<1> QED
    BY <1>4, <1>5 DEF q

\* Whichever assignment comes next, the array has every other user as the
\* update leaves it.
LEMMA AMedias ==
    ASSUME TypeOK, RestoInv, BloqueInv, ObjetoInv, Falta, fase = "sirve",
           cambio # NoCambio, bloque # "nulo", NombresUnicos(debido),
           NEW u \in Users, u # cambio.user
    PROVE  TuplaDe(Contenido, u) = TuplaDe(debido, u)
<1> DEFINE i == cambio.i
           n == n_elementos
<1>1. /\ almacen \in Seq(Celda) /\ Len(almacen) \in Nat
      /\ n \in 0 .. Len(almacen) /\ n \in Nat
      /\ Contenido \in Seq(Celda) /\ Len(Contenido) = n
      /\ \A j \in 1 .. n : Contenido[j] = almacen[j]
    BY Entre DEF TypeOK
<1>2. W \in Asignaciones /\ (W \in DeAlta => cambio.user \in Users)
      /\ (W \notin DeAlta => i \in 1 .. n)
    BY DEF RestoInv
<1>3. CASE W \in {"suelta", "asigna", "max", "inserta"}
  <2>1. debido = Append(Contenido, TuplaVacia(cambio.user))
      BY <1>3 DEF Falta
  <2>2. TuplaVacia(cambio.user) \in Celda /\ TuplaVacia(cambio.user).cliente = cambio.user
      BY <1>2, <1>3, Celdas DEF DeAlta, TuplaVacia
  <2>3. /\ Len(debido) = n + 1 /\ debido[n + 1] = TuplaVacia(cambio.user)
        /\ \A j \in 1 .. n : debido[j] = Contenido[j]
      BY <1>1, <2>1, <2>2, AppendProperties
  <2> QED
      BY <1>1, <2>2, <2>3, TuplaDeMas
<1>4. CASE W = "sube"
  <2>1. debido = SubSeq(almacen, 1, n + 1) /\ almacen[n + 1].cliente = cambio.user
      BY <1>4 DEF Falta, ObjetoInv
  <2>2. n + 1 \in 0 .. Len(almacen)
      BY <1>1, <1>4 DEF BloqueInv, TypeOK
  <2>3. Len(debido) = n + 1 /\ \A j \in 1 .. n + 1 : debido[j] = almacen[j]
      BY <1>1, <2>1, <2>2, Prefijo
  <2>4. debido[n + 1].cliente # u /\ \A j \in 1 .. n : debido[j] = Contenido[j]
      BY <1>1, <2>1, <2>3
  <2> QED
      BY <1>1, <2>3, <2>4, TuplaDeMas
<1>5. CASE W \in {"nombre", "copia"}
  <2>1. i \in 1 .. n /\ n \in 1 .. n
      BY <1>1, <1>2, <1>5 DEF DeAlta
  <2>2. debido = Quitar(Contenido, i)
      BY <1>5 DEF Falta
  <2>3. Contenido[i].cliente = u => i # n /\ Contenido[n].cliente = u
      BY <1>1, <1>5, <2>1 DEF ObjetoInv
  <2> QED
      BY <1>1, <2>1, <2>2, <2>3, TuplaDeQuitar
<1>6. CASE W \in {"borra", "baja"}
  <2>1. i \in 1 .. n /\ n - 1 \in 0 .. Len(almacen) /\ n - 1 \in Nat /\ n = (n - 1) + 1
      BY <1>1, <1>2, <1>6 DEF DeAlta
  <2>2. debido = SubSeq(almacen, 1, n - 1)
      BY <1>6 DEF Falta
  <2>3. Len(debido) = n - 1 /\ \A j \in 1 .. n - 1 : debido[j] = almacen[j]
      BY <1>1, <2>1, <2>2, Prefijo
  <2>4. /\ Len(debido) \in Nat /\ Len(Contenido) = Len(debido) + 1
        /\ \A j \in 1 .. Len(debido) : Contenido[j] = debido[j]
        /\ Contenido[Len(Contenido)] = almacen[n]
      BY <1>1, <2>1, <2>3
  <2>5. CASE almacen[n].cliente # u
      BY <2>4, <2>5, TuplaDeMas
  <2>6. CASE almacen[n].cliente = u
    <3>1. W = "borra" /\ almacen[i] = almacen[n] /\ i # n
        BY <1>6, <2>6, PersistenciaAssumption DEF ObjetoInv, PersistenciaAssumption
    <3>2. i \in 1 .. n - 1
        BY <1>1, <2>1, <3>1
    <3>3. i \in 1 .. Len(debido)
        BY <2>3, <3>2
    <3>4. Contenido[i] = Contenido[Len(Contenido)]
        BY <1>1, <2>1, <2>4, <3>1
    <3> QED
        BY <2>4, <3>3, <3>4, TuplaDeCopia
  <2> QED
      BY <2>5, <2>6
<1>7. CASE W \in {"conectado", "direccion", "desconectado", "fichero", "pisa", "limpia", "quita"}
  <2>1. i \in 1 .. n /\ Contenido[i].cliente = cambio.user
      BY <1>1, <1>2, <1>7 DEF DeAlta, ObjetoInv
  <2>2. DOMAIN Contenido = 1 .. n /\ Contenido[i] \in Celda
      BY <1>1, <2>1, LenProperties, ElementOfSeq
  <2>3. /\ DOMAIN debido = DOMAIN Contenido
        /\ \A j \in DOMAIN Contenido : j # i => debido[j] = Contenido[j]
        /\ debido[i].cliente = Contenido[i].cliente
    <3>1. CASE W \in {"conectado", "direccion", "desconectado"}
      <4>1. CASE W = "conectado"
          BY <2>1, <2>2, <4>1 DEF Falta, Conectar, Celda
      <4>2. CASE W = "direccion"
          BY <2>1, <2>2, <4>2 DEF Falta, Celda
      <4>3. CASE W = "desconectado"
          BY <2>1, <2>2, <4>3 DEF Falta, Desconectar, Celda
      <4> QED
          BY <3>1, <4>1, <4>2, <4>3
    <3>2. CASE W \in {"fichero", "pisa", "limpia", "quita"}
      <4> DEFINE fs == Contenido[i].files
                 gs == IF W = "fichero"
                       THEN Append(fs, [name |-> cambio.file, descr |-> cambio.descr])
                       ELSE IF W = "pisa" THEN Quitar(fs, cambio.k)
                       ELSE SubSeq(fs, 1, Len(fs) - 1)
      <4>1. debido = [Contenido EXCEPT ![i].files = gs]
          BY <3>2 DEF Falta, Publicar, Borrar
      <4> HIDE DEF gs
      <4> QED
          BY <2>1, <2>2, <4>1 DEF Celda
    <3> QED
        BY <1>7, <3>1, <3>2
  <2>4. Len(debido) = n
      BY <1>1, <2>2, <2>3, LenProperties DEF TypeOK
  <2>5. \A j \in 1 .. n :
            Contenido[j] = debido[j] \/ (Contenido[j].cliente # u /\ debido[j].cliente # u)
      BY <2>1, <2>2, <2>3
  <2> QED
      BY <1>1, <2>4, <2>5, TuplaDeOtro
<1> QED
    BY <1>2, <1>3, <1>4, <1>5, <1>6, <1>7 DEF Asignaciones

-----------------------------------------------------------------------------
(* The tuple an update is about, step by step.                             *)

LEMMA EscribeObjeto ==
    ASSUME IInv, ObjetoInv, NEW h \in Hilos, Escribe(h)
    PROVE  ObjetoInv'
<1> DEFINE i == cambio.i
           n == n_elementos
<1>1. /\ fase = "sirve" /\ cambio # NoCambio /\ bloque # "nulo"
      /\ W \in Asignaciones /\ almacen' = Asigna(W)
      /\ W \in Ultimas => cambio' = NoCambio
      /\ W \notin Ultimas => cambio' = cambio /\ W' = Siguiente(W) /\ n_elementos' = n
    BY EscribePaso DEF IInv, Ultimas
<1>2. /\ almacen \in Seq(Celda) /\ Len(almacen) \in Nat
      /\ n \in 0 .. Len(almacen) /\ n \in Nat /\ cambio \in Cambio
      /\ Falta
    BY <1>1, Entre DEF IInv, TypeOK, MemoriaInv
<1>3. CASE W \in Ultimas \cup {"suelta", "asigna", "max"}
    BY <1>1, <1>3 DEF ObjetoInv, Siguiente, Ultimas
<1>4. CASE W = "inserta"
  <2>1. /\ almacen' = [almacen EXCEPT ![n + 1] = TuplaVacia(cambio.user)]
        /\ cambio' = cambio /\ W' = "sube" /\ n_elementos' = n
      BY <1>1, <1>4 DEF Asigna, Siguiente, Ultimas
  <2>2. n + 1 \in 1 .. Len(almacen)
      BY <1>1, <1>2, <1>4 DEF IInv, BloqueInv, TypeOK
  <2>3. almacen'[n + 1] = TuplaVacia(cambio.user)
      BY <1>2, <2>1, <2>2, LenProperties
  <2> QED
      BY <2>1, <2>3 DEF ObjetoInv, TuplaVacia
<1>5. ASSUME W \notin Ultimas \cup DeAlta
      PROVE  ObjetoInv'
  <2>1. /\ i \in 1 .. n /\ n \in 1 .. n /\ n \in 1 .. Len(almacen) /\ i \in 1 .. Len(almacen)
        /\ cambio' = cambio /\ W' = Siguiente(W) /\ n_elementos' = n
      BY <1>1, <1>2, <1>5 DEF IInv, RestoInv
  <2>2. almacen' = [almacen EXCEPT ![Sitio(W)] = Nueva(W)] /\ Sitio(W) \in 1 .. n
    <3>1. /\ W = "pisa" => cambio.k \in 1 .. Len(almacen[i].files)
          /\ W \in {"limpia", "quita"} => Len(almacen[i].files) >= 1
        BY <1>2 DEF Falta
    <3>2. W \in Asignaciones \ (DeAlta \cup {"baja"})
        BY <1>1, <1>5 DEF Ultimas
    <3> QED
        BY <1>1, <1>2, <2>1, <3>1, <3>2, AsignaCelda
  <2>3. \A j \in 1 .. n : almacen'[j] = IF j = Sitio(W) THEN Nueva(W) ELSE almacen[j]
      BY <1>2, <2>2, LenProperties
  <2>4. almacen[i] \in Celda /\ almacen[n] \in Celda
      BY <1>2, <2>1, ElementOfSeq
  <2>5. CASE W = "nombre"
    <3>1. Sitio(W) = i /\ Nueva(W).cliente = almacen[n].cliente
        BY <2>4, <2>5 DEF Sitio, Nueva, Celda
    <3>2. W' = "copia" /\ almacen[i].cliente = cambio.user
        BY <1>1, <2>1, <2>5 DEF Siguiente, ObjetoInv
    <3>3. almacen'[i].cliente = almacen[n].cliente /\ almacen'[n].cliente = almacen[n].cliente
        BY <2>1, <2>3, <3>1
    <3> QED
        BY <2>1, <3>2, <3>3 DEF ObjetoInv
  <2>6. CASE W = "copia"
    <3>1. Sitio(W) = i /\ Nueva(W) = almacen[n]
        BY <2>6 DEF Sitio, Nueva
    <3>2. W' = "borra" /\ (i = n => almacen[n].cliente = cambio.user)
        BY <1>1, <2>1, <2>6 DEF Siguiente, ObjetoInv
    <3>3. almacen'[i] = almacen[n] /\ almacen'[n] = almacen[n]
        BY <2>1, <2>3, <3>1
    <3> QED
        BY <2>1, <3>2, <3>3 DEF ObjetoInv
  <2>7. CASE W = "borra"
    <3>1. Sitio(W) = n /\ Nueva(W).cliente = Cero /\ W' = "baja"
        BY <2>1, <2>7 DEF Sitio, Nueva, TuplaBorrada, Siguiente
    <3>2. almacen'[n].cliente = Cero
        BY <2>1, <2>3, <3>1
    <3> QED
        BY <2>1, <3>1, <3>2 DEF ObjetoInv
  <2>8. CASE W \in {"conectado", "pisa", "limpia"}
    <3>1. Sitio(W) = i /\ Nueva(W).cliente = almacen[i].cliente
        BY <2>4, <2>8 DEF Sitio, Nueva, Celda
    <3>2. W' \in {"direccion", "limpia", "quita"} /\ almacen[i].cliente = cambio.user
        BY <1>1, <2>1, <2>8 DEF Siguiente, ObjetoInv
    <3>3. almacen'[i].cliente = cambio.user
        BY <2>1, <2>3, <3>1, <3>2
    <3> QED
        BY <2>1, <3>2, <3>3 DEF ObjetoInv
  <2> QED
      BY <1>1, <1>5, <2>5, <2>6, <2>7, <2>8 DEF Asignaciones, Ultimas, DeAlta
<1> QED
    BY <1>1, <1>3, <1>4, <1>5 DEF DeAlta, Ultimas

LEMMA EmpiezaObjeto ==
    ASSUME IInv, NEW h \in Hilos, Empieza(h)
    PROVE  ObjetoInv'
<1> DEFINE n == n_elementos
           lleno == n = max_tuplas
<1>1. /\ bloque = "propio" /\ n_elementos' = n /\ almacen' = almacen
    BY DEF Empieza, memoria
<1>2. /\ Contenido \in Seq(Celda) /\ Len(Contenido) = n
      /\ \A j \in 1 .. n : Contenido[j] = almacen[j]
    BY <1>1, Entre DEF IInv
<1>3. PICK c \in Cambios(Contenido) :
          /\ cambio' = [c EXCEPT !.hilo = h]
          /\ resto' = Pasos(c.op, lleno)
    BY DEF Empieza
<1>4. CambioDe(Contenido, c)
    BY <1>2, CambiosType
<1>5. cambio'.user = c.user /\ cambio'.i = c.i
    BY <1>3, <1>4, CambioEnHilo
<1>6. resto' = Cola(Primera(c.op, lleno)) /\ Primera(c.op, lleno) \in Asignaciones
  <2>1. lleno \in BOOLEAN
      OBVIOUS
  <2> QED
      BY <1>3, <1>4, <2>1, PasosCola DEF CambioDe
<1>7. W' = Primera(c.op, lleno)
    BY <1>6, ColaProps DEF W
<1>8. CASE c.op = "register"
    BY <1>7, <1>8 DEF ObjetoInv, Primera
<1>9. CASE c.op # "register"
  <2>1. almacen[c.i].cliente = c.user
      BY <1>2, <1>4, <1>9 DEF CambioDe
  <2>2. W' \in {"nombre", "conectado", "desconectado", "fichero", "pisa"}
      BY <1>4, <1>7, <1>9 DEF Primera, CambioDe
  <2> QED
      BY <1>1, <1>5, <2>1, <2>2 DEF ObjetoInv
<1> QED
    BY <1>8, <1>9

LEMMA ObjetoStep == IInv /\ ObjetoInv /\ [Next]_vars => ObjetoInv'
<1> SUFFICES ASSUME IInv, ObjetoInv, [Next]_vars PROVE ObjetoInv'
    OBVIOUS
<1>1. CASE Arranca \/ CargaAbre \/ CargaTupla \/ CargaFin
    BY <1>1 DEF Arranca, Carga, CargaAbre, CargaTupla, CargaFin, ObjetoInv
<1>2. CASE CargaVacia
  <2>1. cambio' = NoCambio
      BY <1>2 DEF CargaVacia, Carga, IInv, ControlInv
  <2> QED
      BY <2>1 DEF ObjetoInv
<1>3. CASE CargaFalla \/ Muere
    BY <1>3 DEF CargaFalla, Muere, Termina, ObjetoInv
<1>4. ASSUME NEW h \in Hilos, Empieza(h) \/ Escribe(h) PROVE ObjetoInv'
    BY <1>4, EmpiezaObjeto, EscribeObjeto
<1>5. ASSUME NEW h \in Hilos, Sigint(h) \/ CloseServer(h) PROVE ObjetoInv'
  <2>1. CASE Libera(h) \/ Sale(h)
      BY <2>1 DEF Libera, Sale, Termina, ObjetoInv
  <2>2. CASE Sigint(h) \/ Abre(h) \/ AbreFalla(h) \/ Vuelca(h) \/ VuelcaFalla(h) \/ Cierra(h)
      BY <2>2 DEF Sigint, Abre, AbreFalla, Vuelca, VuelcaFalla, Cierra, memoria, ObjetoInv, W
  <2> QED
      BY <1>5, <2>1, <2>2 DEF CloseServer
<1>6. CASE UNCHANGED vars
    BY <1>6 DEF vars, ObjetoInv, W
<1> QED
    BY <1>1, <1>2, <1>3, <1>4, <1>5, <1>6 DEF Next, Terminado

-----------------------------------------------------------------------------
(* close_server with an update half done, step by step.                    *)

\* What is known of the thread that runs close_server then.
LEMMA EnCierre ==
    ASSUME IInv, InterrupcionInv, causas = {"a_medias"}, NEW h \in Hilos, ~Libre(h)
    PROVE  /\ fase = "sirve" /\ cambio # NoCambio /\ cambio.user \in tocados
           /\ \A g \in Hilos \ {h} : Libre(g)
           /\ manejador[h].pc \in {"abre", "escribe", "libera"} => bloque = "propio"
           /\ manejador[h].pc = "escribe" =>
                 /\ manejador[h].i <= n_elementos + 1
                 /\ manejador[h].escritas = manejador[h].i - 1
                 /\ fichero = SubSeq(Contenido, 1, manejador[h].i - 1)
           /\ manejador[h].pc = "libera" => fichero = Contenido
           /\ manejador[h].pc = "sale" => Conserva(fichero)
BY DEF InterrupcionInv

LEMMA SigintInterrupcion ==
    ASSUME IInv, InterrupcionInv, NEW h \in Hilos, Sigint(h)
    PROVE  InterrupcionInv'
<1>1. /\ Vivo /\ Libre(h)
      /\ manejador' = [manejador EXCEPT ![h].pc = "abre"]
      /\ causas' = causas \cup Sorprende
      /\ tocados' = IF cambio = NoCambio THEN tocados ELSE tocados \cup {cambio.user}
      /\ UNCHANGED <<fase, bloque, cambio>>
    BY DEF Sigint, memoria
<1>2. /\ manejador'[h].pc = "abre" /\ \A g \in Hilos \ {h} : manejador'[g] = manejador[g]
    BY <1>1 DEF IInv, TypeOK
<1>3. EnMarcha'
    BY <1>2 DEF EnMarcha, Libre
<1>4. ASSUME causas' = {"a_medias"}
      PROVE  /\ \A g \in Hilos : Libre(g)
             /\ cambio # NoCambio /\ bloque = "propio" /\ cambio.user \in tocados'
             /\ fase = "sirve"
  <2>1. "doble" \notin Sorprende /\ "movido" \notin Sorprende
      BY <1>1, <1>4
  <2>2. ~EnMarcha /\ bloque = "propio"
      BY <2>1 DEF Sorprende
  <2>3. "a_medias" \notin causas
      BY <1>1, <2>2 DEF InterrupcionInv
  <2>4. cambio # NoCambio
      BY <1>1, <1>4, <2>3 DEF Sorprende
  <2> QED
      BY <1>1, <2>2, <2>4 DEF EnMarcha, IInv, ControlInv
<1>5. ASSUME causas' = {"a_medias"}, NEW g \in Hilos \ {h} PROVE Libre(g)'
    BY <1>2, <1>4, <1>5 DEF Libre
<1> QED
    BY <1>1, <1>2, <1>3, <1>4, <1>5 DEF InterrupcionInv, Libre

\* The process ends.
LEMMA TerminaInterrupcion ==
    ASSUME Termina
    PROVE  InterrupcionInv'
<1>1. \A h \in Hilos : Libre(h)'
    BY DEF Termina, Libre, Fuera
<1>2. ~Vivo'
    BY DEF Termina, Vivo
<1> QED
    BY <1>1, <1>2 DEF InterrupcionInv

\* A step of close_server that leaves the thread inside it.
LEMMA CierreInterrupcion ==
    ASSUME IInv, InterrupcionInv, NEW h \in Hilos, ~Libre(h),
           NEW m \in [pc : {"escribe", "libera", "sale"}, i : Nat, escritas : Nat],
           manejador' = [manejador EXCEPT ![h] = m],
           UNCHANGED <<fase, n_elementos, cambio, debido, tocados>>,
           causas' = causas,
           causas = {"a_medias"} =>
               /\ m.pc \in {"escribe", "libera"} => bloque' = "propio"
               /\ m.pc = "escribe" =>
                     /\ m.i <= n_elementos + 1 /\ m.escritas = m.i - 1
                     /\ fichero' = SubSeq(Contenido, 1, m.i - 1) /\ almacen' = almacen
               /\ m.pc = "libera" => fichero' = Contenido /\ almacen' = almacen
               /\ m.pc = "sale" => Conserva(fichero')
    PROVE  InterrupcionInv'
<1>1. /\ manejador'[h] = m /\ Libre(h)' = FALSE
      /\ \A g \in Hilos \ {h} : manejador'[g] = manejador[g]
    BY DEF IInv, TypeOK, Libre
<1>2. EnMarcha'
    BY <1>1 DEF EnMarcha
<1>3. ASSUME causas = {"a_medias"}
      PROVE  /\ fase = "sirve" /\ cambio # NoCambio /\ cambio.user \in tocados
             /\ \A g \in Hilos \ {h} : Libre(g)'
  <2>1. /\ fase = "sirve" /\ cambio # NoCambio /\ cambio.user \in tocados
        /\ \A g \in Hilos \ {h} : Libre(g)
      BY <1>3, EnCierre
  <2> QED
      BY <1>1, <2>1 DEF Libre
<1>4. almacen' = almacen => Contenido' = Contenido
    BY DEF Contenido
<1>5. Conserva(fichero') => Conserva(fichero)'
    BY DEF Conserva
<1>6. ASSUME causas = {"a_medias"}, NEW g \in Hilos, ~Libre(g)' PROVE g = h
    BY <1>3, <1>6
<1>7. m.pc \notin {"abre", "fuera"}
    OBVIOUS
<1> QED
    BY <1>1, <1>2, <1>3, <1>4, <1>5, <1>6, <1>7 DEF InterrupcionInv

LEMMA AbreInterrupcion ==
    ASSUME IInv, InterrupcionInv, NEW h \in Hilos, Abre(h)
    PROVE  InterrupcionInv'
<1> DEFINE m == [manejador[h] EXCEPT !.pc = "escribe"]
<1>1. /\ manejador[h].pc = "abre" /\ ~Libre(h)
      /\ manejador[h] \in [pc : {"fuera", "abre", "escribe", "libera", "sale"},
                           i : Nat, escritas : Nat]
      /\ manejador[h].i = 1 /\ manejador[h].escritas = 0 /\ n_elementos \in Nat
    BY DEF Abre, EntraEnCierre, Libre, IInv, TypeOK, ControlInv
<1>2. /\ m \in [pc : {"escribe", "libera", "sale"}, i : Nat, escritas : Nat]
      /\ m.pc = "escribe" /\ m.i = 1 /\ m.escritas = 0
    BY <1>1
<1>3. /\ manejador' = [manejador EXCEPT ![h] = m] /\ fichero' = <<>> /\ causas' = causas
      /\ almacen' = almacen /\ bloque' = bloque
      /\ UNCHANGED <<fase, n_elementos, cambio, debido, tocados>>
    BY DEF Abre, memoria, IInv, TypeOK
<1>4. causas = {"a_medias"} => bloque' = "propio"
    BY <1>1, <1>3, EnCierre
<1>5. fichero' = SubSeq(Contenido, 1, 0)
    BY <1>3, SubSeqEmpty
<1> HIDE DEF m
<1>6. m.i - 1 = 0 /\ m.i <= n_elementos + 1
    BY <1>1, <1>2
<1> QED
    BY <1>1, <1>2, <1>3, <1>4, <1>5, <1>6, CierreInterrupcion

LEMMA VuelcaInterrupcion ==
    ASSUME IInv, InterrupcionInv, NEW h \in Hilos, Vuelca(h)
    PROVE  InterrupcionInv'
<1> DEFINE i == manejador[h].i
           p == manejador[h].escritas
           m == [manejador[h] EXCEPT !.i = i + 1, !.escritas = p + 1]
<1>1. /\ manejador[h].pc = "escribe" /\ ~Libre(h)
      /\ manejador[h] \in [pc : {"fuera", "abre", "escribe", "libera", "sale"},
                           i : Nat, escritas : Nat]
      /\ i \in Nat /\ p \in Nat /\ i >= 1 /\ i <= n_elementos /\ bloque # "nulo"
    BY DEF Vuelca, QuedaPorEscribir, Libre, IInv, TypeOK, ControlInv
<1>2. /\ n_elementos \in Nat /\ n_elementos \in 0 .. Len(almacen)
      /\ almacen \in Seq(Celda) /\ Len(almacen) \in Nat /\ fichero \in Seq(Celda)
      /\ Contenido \in Seq(Celda) /\ Len(Contenido) = n_elementos
      /\ \A j \in 1 .. n_elementos : Contenido[j] = almacen[j]
    BY <1>1, Entre DEF IInv, TypeOK
<1>3. /\ manejador' = [manejador EXCEPT ![h] = m] /\ causas' = causas
      /\ fichero' = EnFichero(fichero, p + 1, almacen[i])
      /\ almacen' = almacen /\ bloque' = bloque
      /\ UNCHANGED <<fase, n_elementos, cambio, debido, tocados>>
  <2>1. /\ manejador' = [manejador EXCEPT ![h].i = @ + 1, ![h].escritas = @ + 1]
        /\ causas' = causas /\ fichero' = EnFichero(fichero, p + 1, almacen[i])
        /\ almacen' = almacen /\ bloque' = bloque
        /\ UNCHANGED <<fase, n_elementos, cambio, debido, tocados>>
      BY DEF Vuelca, memoria
  <2>2. manejador' = [manejador EXCEPT ![h] = m]
      BY <2>1 DEF IInv, TypeOK
  <2> QED
      BY <2>1, <2>2
<1>4. /\ m \in [pc : {"escribe", "libera", "sale"}, i : Nat, escritas : Nat]
      /\ m.pc = "escribe" /\ m.i = i + 1 /\ m.escritas = p + 1
  <2>1. i + 1 \in Nat /\ p + 1 \in Nat
      BY <1>1
  <2> HIDE DEF i, p
  <2> QED
      BY <1>1, <2>1
<1> HIDE DEF m
<1>5. ASSUME causas = {"a_medias"}
      PROVE  /\ bloque' = "propio" /\ p = i - 1
             /\ fichero' = SubSeq(Contenido, 1, i)
  <2>1. bloque = "propio" /\ p = i - 1 /\ fichero = SubSeq(Contenido, 1, i - 1)
      BY <1>1, <1>5, EnCierre
  <2>2. i - 1 \in 0 .. Len(Contenido) /\ i - 1 \in Nat /\ i - 1 < Len(Contenido)
      BY <1>1, <1>2
  <2>3. Len(fichero) = i - 1
      BY <1>2, <2>1, <2>2, Prefijo
  <2>4. p + 1 = Len(fichero) + 1 /\ almacen[i] = Contenido[i]
        /\ almacen[i] \in Celda /\ p + 1 \in Nat \ {0} /\ (i - 1) + 1 = i
    <3>1. i \in 1 .. Len(almacen) /\ i \in 1 .. n_elementos
        BY <1>1, <1>2
    <3>2. almacen[i] \in Celda
        BY <1>2, <3>1, ElementOfSeq
    <3> QED
        BY <1>1, <1>2, <2>1, <2>3, <3>1, <3>2
  <2> HIDE DEF i, p
  <2>5. fichero' = Append(fichero, almacen[i])
      BY <1>2, <1>3, <2>4, EnFicheroProps
  <2>6. SubSeq(Contenido, 1, (i - 1) + 1)
            = Append(SubSeq(Contenido, 1, i - 1), Contenido[(i - 1) + 1])
      BY <1>2, <2>2, PrefijoMas
  <2>7. fichero' = SubSeq(Contenido, 1, i)
      BY <2>1, <2>4, <2>5, <2>6
  <2> QED
      BY <1>3, <2>1, <2>7
<1> HIDE DEF i, p
<1>6. m.i - 1 = i /\ m.i <= n_elementos + 1 /\ (p = i - 1 => m.escritas = i)
    BY <1>1, <1>2, <1>4
<1> QED
    BY <1>1, <1>3, <1>4, <1>5, <1>6, CierreInterrupcion

LEMMA CierraInterrupcion ==
    ASSUME IInv, InterrupcionInv, NEW h \in Hilos, Cierra(h)
    PROVE  InterrupcionInv'
<1> DEFINE m == [manejador[h] EXCEPT !.pc = "libera"]
<1>1. /\ manejador[h].pc = "escribe" /\ ~Libre(h)
      /\ manejador[h] \in [pc : {"fuera", "abre", "escribe", "libera", "sale"},
                           i : Nat, escritas : Nat]
      /\ manejador[h].i > n_elementos
    BY DEF Cierra, QuedaPorEscribir, Libre, IInv, TypeOK, ControlInv
<1>2. m \in [pc : {"escribe", "libera", "sale"}, i : Nat, escritas : Nat] /\ m.pc = "libera"
    BY <1>1
<1>3. /\ manejador' = [manejador EXCEPT ![h] = m] /\ fichero' = fichero /\ causas' = causas
      /\ almacen' = almacen /\ bloque' = bloque
      /\ UNCHANGED <<fase, n_elementos, cambio, debido, tocados>>
    BY DEF Cierra, memoria, IInv, TypeOK
<1> HIDE DEF m
<1>4. ASSUME causas = {"a_medias"}
      PROVE  bloque' = "propio" /\ fichero' = Contenido
  <2>1. /\ bloque = "propio" /\ manejador[h].i <= n_elementos + 1
        /\ fichero = SubSeq(Contenido, 1, manejador[h].i - 1)
      BY <1>1, <1>4, EnCierre
  <2>2. /\ n_elementos \in 0 .. Len(almacen) /\ Len(almacen) \in Nat
        /\ Contenido \in Seq(Celda) /\ Len(Contenido) = n_elementos
      BY <2>1, Entre DEF IInv
  <2>3. manejador[h].i - 1 = Len(Contenido)
      BY <1>1, <2>1, <2>2
  <2>4. SubSeq(Contenido, 1, Len(Contenido)) = Contenido
      BY <2>2, SubSeqFull
  <2> QED
      BY <1>3, <2>1, <2>3, <2>4
<1> QED
    BY <1>1, <1>2, <1>3, <1>4, CierreInterrupcion

\* The array is in the file, and the file is all that is left.
LEMMA LiberaInterrupcion ==
    ASSUME IInv, ObjetoInv, InterrupcionInv, NEW h \in Hilos, Libera(h)
    PROVE  InterrupcionInv'
<1> DEFINE m == [manejador[h] EXCEPT !.pc = "sale"]
<1>1. /\ manejador[h].pc = "libera" /\ ~Libre(h)
      /\ manejador[h] \in [pc : {"fuera", "abre", "escribe", "libera", "sale"},
                           i : Nat, escritas : Nat]
    BY DEF Libera, Libre, IInv, TypeOK
<1>2. m \in [pc : {"escribe", "libera", "sale"}, i : Nat, escritas : Nat] /\ m.pc = "sale"
    BY <1>1
<1>3. /\ manejador' = [manejador EXCEPT ![h] = m] /\ fichero' = fichero /\ causas' = causas
      /\ UNCHANGED <<fase, n_elementos, cambio, debido, tocados>>
    BY DEF Libera, IInv, TypeOK
<1> HIDE DEF m
<1>4. ASSUME causas = {"a_medias"} PROVE Conserva(fichero')
  <2>1. /\ fase = "sirve" /\ cambio # NoCambio /\ cambio.user \in tocados
        /\ bloque = "propio" /\ fichero = Contenido
      BY <1>1, <1>4, EnCierre
  <2>2. Falta
      BY <2>1 DEF IInv, MemoriaInv
  <2>3. ASSUME NombresUnicos(debido), NEW u \in Users \ tocados
        PROVE  TuplaDe(Contenido, u) = TuplaDe(debido, u)
    <3>1. u \in Users /\ u # cambio.user /\ bloque # "nulo"
        BY <2>1, <2>3
    <3> QED
        BY <2>1, <2>2, <2>3, <3>1, AMedias DEF IInv
  <2> QED
      BY <1>3, <2>1, <2>3 DEF Conserva
<1> QED
    BY <1>1, <1>2, <1>3, <1>4, CierreInterrupcion

LEMMA InterrupcionStep == IInv /\ ObjetoInv /\ InterrupcionInv /\ [Next]_vars => InterrupcionInv'
<1> SUFFICES ASSUME IInv, ObjetoInv, InterrupcionInv, [Next]_vars PROVE InterrupcionInv'
    OBVIOUS
<1>1. CASE Arranca
  <2>1. \A h \in Hilos : Libre(h)
      BY <1>1 DEF Arranca, IInv, ControlInv, EnMarcha
  <2> QED
      BY <1>1, <2>1 DEF Arranca, InterrupcionInv, Libre
<1>2. CASE CargaAbre \/ CargaTupla \/ CargaFin \/ CargaVacia
  <2>1. (\A h \in Hilos : Libre(h)) /\ Vivo
      BY <1>2, CargaSola
      DEF Carga, CargaAbre, CargaTupla, CargaFin, CargaVacia, IInv, Vivo
  <2>2. manejador' = manejador /\ causas' = causas
      BY <1>2 DEF Carga, CargaAbre, CargaTupla, CargaFin, CargaVacia
  <2>3. "a_medias" \notin causas
      BY <2>1 DEF InterrupcionInv, EnMarcha
  <2> QED
      BY <2>1, <2>2, <2>3 DEF InterrupcionInv, Libre
<1>3. CASE Termina
    BY <1>3, TerminaInterrupcion
<1>4. ASSUME NEW h \in Hilos, Empieza(h) \/ Escribe(h) PROVE InterrupcionInv'
  <2>1. causas' = causas \cup Durante /\ manejador' = manejador /\ Vivo' = Vivo
      BY <1>4 DEF Empieza, Escribe, Vivo
  <2>2. CASE EnMarcha
      BY <2>1, <2>2 DEF InterrupcionInv, Durante, EnMarcha, Libre
  <2>3. CASE ~EnMarcha
      BY <2>1, <2>3 DEF InterrupcionInv, Durante, EnMarcha, Libre
  <2> QED
      BY <2>2, <2>3
<1>5. ASSUME NEW h \in Hilos, AbreFalla(h) \/ VuelcaFalla(h) PROVE InterrupcionInv'
  <2>1. causas' # {"a_medias"}
      BY <1>5 DEF AbreFalla, VuelcaFalla
  <2>2. manejador'[h].pc \in {"libera", "escribe"}
      BY <1>5 DEF AbreFalla, VuelcaFalla, EntraEnCierre, IInv, TypeOK
  <2> QED
      BY <2>1, <2>2 DEF InterrupcionInv, EnMarcha, Libre
<1>6. ASSUME NEW h \in Hilos, Sigint(h) \/ CloseServer(h) PROVE InterrupcionInv'
  <2>1. CASE Sale(h)
      BY <2>1, TerminaInterrupcion DEF Sale
  <2> QED
      BY <1>5, <1>6, <2>1, SigintInterrupcion, AbreInterrupcion, VuelcaInterrupcion,
         CierraInterrupcion, LiberaInterrupcion DEF CloseServer
<1>7. CASE UNCHANGED vars
    BY <1>7 DEF vars, InterrupcionInv, Conserva, Contenido, Vivo, EnMarcha, Libre
<1> QED
    BY <1>1, <1>2, <1>3, <1>4, <1>6, <1>7 DEF Next, Terminado, CargaFalla, Muere

LEMMA InvarianteInterrupcion == Spec => []IInv2
<1>1. Init => ObjetoInv /\ InterrupcionInv
    BY DEF Init, ObjetoInv, InterrupcionInv, Vivo
<1>2. IInv2 /\ [Next]_vars => IInv2'
    BY StepIInv, ObjetoStep, InterrupcionStep DEF IInv2
<1> QED
    BY <1>1, <1>2, InitIInv, PTL DEF Spec, IInv2

\* A SIGINT that stops an update half done costs nobody but the user of that
\* update: every other one is found in the file by the next run, at whichever
\* assignment the update was stopped and whatever update it was (server.c
\* 278-288, 321-329, 396-398, 470-472, 546-548, 841, 943-952, 1005-1024).
THEOREM OneUserAtMost == Spec => []OthersSurviveInterruption
<1>1. ASSUME IInv2 PROVE OthersSurviveInterruption
  <2> SUFFICES ASSUME NEW h \in Hilos, manejador[h].pc = "sale", causas \subseteq {"a_medias"},
                      NombresUnicos(debido), NEW u \in Users \ tocados
               PROVE  TuplaDe(fichero, u) = TuplaDe(debido, u)
      BY DEF OthersSurviveInterruption
  <2>1. ~Libre(h)
      BY DEF Libre
  <2>2. CASE causas = {}
      BY <1>1, <2>1, <2>2 DEF IInv2, IInv, VolcadoInv
  <2>3. CASE causas = {"a_medias"}
      BY <1>1, <2>1, <2>3, EnCierre DEF IInv2, Conserva
  <2> QED
      BY <2>2, <2>3
<1> QED
    BY <1>1, InvarianteInterrupcion, PTL

=============================================================================
