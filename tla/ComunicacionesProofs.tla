------------------------ MODULE ComunicacionesProofs ------------------------
(***************************************************************************)
(* The connection, for any size of the buffer and of the sockets, and any  *)
(* texts: the bounds of the two loops of communications.c, and that the    *)
(* texts arrive as Lineas promises.                                        *)
(***************************************************************************)
EXTENDS Comunicaciones, SequenceTheorems, TLAPS

Lectura == {"readLine", "readString", "readString_binary"}

\* What write leaves is the rest of the text, and what it takes comes after
\* what was under way.
LEMMA EscribeBytes ==
    ASSUME NEW s \in Seq(Bytes), NEW t \in Seq(Bytes), NEW r \in 1 .. Len(s)
    PROVE  /\ Queda(s, r) \in Seq(Bytes)
           /\ Len(Queda(s, r)) = Len(s) - r
           /\ t \o SubSeq(s, 1, r) \in Seq(Bytes)
           /\ Len(t \o SubSeq(s, 1, r)) = Len(t) + r
<1>1. Len(s) \in Nat /\ r \in Nat \ {0} /\ r <= Len(s)
    BY LenProperties
<1>2. \A i \in 1 .. Len(s) : s[i] \in Bytes
    BY ElementOfSeq
<1>3. Queda(s, r) \in Seq(Bytes) /\ Len(Queda(s, r)) = Len(s) - r
  <2>1. \A i \in r + 1 .. Len(s) : s[i] \in Bytes
      BY <1>1, <1>2
  <2>2. /\ SubSeq(s, r + 1, Len(s)) \in Seq(Bytes)
        /\ Len(SubSeq(s, r + 1, Len(s))) =
              IF r + 1 <= Len(s) THEN Len(s) - (r + 1) + 1 ELSE 0
      BY <1>1, <2>1, SubSeqProperties
  <2> QED
      BY <1>1, <2>2 DEF Queda
<1>4. SubSeq(s, 1, r) \in Seq(Bytes) /\ Len(SubSeq(s, 1, r)) = r
    BY <1>1, <1>2, SubSeqProperties
<1> QED
    BY <1>3, <1>4, ConcatProperties

LEMMA InitTypeOK == Init => TypeOK
<1> SUFFICES ASSUME Init PROVE TypeOK
    OBVIOUS
<1>1. lectores \in Seq(Lectura) /\ Len(lectores) \in Nat
    BY ComunicacionesAssumption, LenProperties DEF Init, ComunicacionesAssumption, Lectura
<1>2. \A S : <<>> \in Seq(S) /\ Len(<<>>) = 0
    OBVIOUS
<1> QED
    BY <1>1, <1>2, ComunicacionesAssumption
    DEF Init, TypeOK, Turno, ComunicacionesAssumption

-----------------------------------------------------------------------------
(* The end that sends.                                                     *)

LEMMA EmisorTypeOK ==
    ASSUME TypeOK, Emisor \/ Muere
    PROVE  TypeOK'
<1> USE DEF TypeOK, Turno, lee
<1>1. ASSUME Empieza PROVE TypeOK'
  <2>1. PICK x \in Textos, t \in {<<Nul>>, <<Nl>>, <<>>} :
            enviados' = Append(enviados, x) /\ resta' = x \o t
    <3>1. PICK f \in Lectura : \E x \in Envios(f), t \in Terminadores(f) :
              enviados' = Append(enviados, x) /\ resta' = x \o t
      <4>1. lectores \in Seq(Lectura) /\ Len(enviados) + 1 \in 1 .. Len(lectores)
          BY <1>1, ComunicacionesAssumption, LenProperties
          DEF Empieza, ComunicacionesAssumption, Lectura
      <4>2. lectores[Len(enviados) + 1] \in Lectura
          BY <4>1, ElementOfSeq
      <4> QED
          BY <1>1, <4>2 DEF Empieza
    <3>2. Envios(f) \subseteq Textos
        BY DEF Envios
    <3>3. Terminadores(f) \subseteq {<<Nul>>, <<Nl>>, <<>>}
        BY DEF Terminadores, Lectura
    <3> QED
        BY <3>1, <3>2, <3>3
  <2>2. enviados' \in Seq(Textos) /\ Len(enviados') = Len(enviados) + 1
      BY <2>1, AppendProperties
  <2>3. x \in Seq(Bytes) /\ t \in Seq(Bytes)
    <3>1. x \in Seq(Bytes) /\ Nul \in Bytes /\ Nl \in Bytes
        BY ComunicacionesAssumption DEF ComunicacionesAssumption
    <3>2. \A b \in Bytes : <<b>> \in Seq(Bytes)
        OBVIOUS
    <3>3. <<>> \in Seq(Bytes)
        OBVIOUS
    <3> QED
        BY <3>1, <3>2, <3>3
  <2>4. resta' \in Seq(Bytes)
      BY <2>1, <2>3, ConcatProperties
  <2>5. Len(lectores) \in Nat /\ Len(enviados) \in Nat
      BY ComunicacionesAssumption, LenProperties DEF ComunicacionesAssumption
  <2> QED
      BY <1>1, <2>2, <2>4, <2>5 DEF Empieza
<1>2. ASSUME Escribe PROVE TypeOK'
  <2>1. PICK r \in 1 .. Len(resta) :
            /\ Len(red) + r <= Hueco
            /\ red' = red \o SubSeq(resta, 1, r) /\ resta' = Queda(resta, r)
      BY <1>2 DEF Escribe
  <2>2. resta' \in Seq(Bytes) /\ red' \in Seq(Bytes) /\ Len(red') <= Hueco
      BY <2>1, EscribeBytes
  <2> QED
      BY <1>2, <2>2 DEF Escribe
<1>3. ASSUME EscribeFalla \/ Cierra PROVE TypeOK'
    BY <1>3 DEF EscribeFalla, Cierra
<1>4. ASSUME Muere PROVE TypeOK'
  <2>1. red' \in Seq(Bytes) /\ Len(red') <= Hueco
      BY <1>4, ComunicacionesAssumption DEF Muere, ComunicacionesAssumption
  <2> QED
      BY <1>4, <2>1 DEF Muere
<1> QED
    BY <1>1, <1>2, <1>3, <1>4 DEF Emisor

-----------------------------------------------------------------------------
(* The end that reads.                                                     *)

\* A call that returns leaves an empty buffer to the next one.
LEMMA RetornaTypeOK ==
    ASSUME TypeOK, NEW f \in Lectura, Llamada(f), NEW x \in Seq(Bytes) \cup {Nada},
           Retorna(x), lectores' = lectores
    PROVE  /\ buf' \in Seq(Bytes) /\ Len(buf') < N
           /\ recibidos' \in Seq(Seq(Bytes) \cup {Nada})
           /\ Len(recibidos') <= Len(lectores)
<1>1. /\ recibidos' \in Seq(Seq(Bytes) \cup {Nada})
      /\ Len(recibidos') = Len(recibidos) + 1
    BY AppendProperties DEF TypeOK, Retorna
<1> QED
    BY <1>1, ComunicacionesAssumption
    DEF Retorna, Llamada, Turno, ComunicacionesAssumption

\* A byte is stored while there is a place for it and for the last '\0'.
LEMMA GuardaTypeOK ==
    ASSUME TypeOK, NEW f \in Lectura, Llamada(f), NEW b \in Bytes,
           buf' = IF Cabe(f) THEN Append(buf, b) ELSE buf,
           UNCHANGED <<recibidos, lectores>>
    PROVE  /\ buf' \in Seq(Bytes)
           /\ (Turno <= Len(lectores) /\ lectores[Turno] = "readLine" => Len(buf) < N)'
<1>1. buf \in Seq(Bytes) /\ Len(buf) \in Nat
    BY LenProperties DEF TypeOK
<1>2. Append(buf, b) \in Seq(Bytes) /\ Len(Append(buf, b)) = Len(buf) + 1
    BY <1>1, AppendProperties
<1>3. lectores[Turno] = f /\ Turno <= Len(lectores) /\ Turno' = Turno
    BY DEF Llamada, Turno
<1>4. CASE f = "readLine"
  <2>1. Len(buf) < N
      BY <1>3, <1>4 DEF TypeOK
  <2>2. Cabe(f) <=> Len(buf) < N - 1
      BY <1>4 DEF Cabe
  <2> QED
      BY <1>1, <1>2, <2>1, <2>2, ComunicacionesAssumption DEF ComunicacionesAssumption
<1>5. CASE f # "readLine"
    BY <1>1, <1>2, <1>3, <1>5
<1> QED
    BY <1>4, <1>5

LEMMA LectorTypeOK ==
    ASSUME TypeOK, Lector
    PROVE  TypeOK'
<1> USE DEF emite
<1> PICK f \in Lectura : LeeByte(f) \/ NoDescifra(f) \/ LeeFinal(f) \/ LeeError(f)
    BY DEF Lector, Lectura
<1>1. ASSUME LeeByte(f) PROVE TypeOK'
  <2>1. Llamada(f) /\ red # <<>> /\ UNCHANGED <<lectores, emite, fin, lector>>
      BY <1>1 DEF LeeByte
  <2>2. Head(red) \in Bytes /\ red' \in Seq(Bytes) /\ Len(red') <= Hueco
    <3>1. red \in Seq(Bytes) /\ Len(red) <= Hueco /\ red' = Tail(red)
        BY <1>1 DEF LeeByte, TypeOK
    <3>2. /\ Head(red) \in Bytes /\ Tail(red) \in Seq(Bytes)
          /\ Len(Tail(red)) = Len(red) - 1 /\ Len(red) \in Nat
        BY <2>1, <3>1, HeadTailProperties, LenProperties
    <3> QED
        BY <3>1, <3>2, ComunicacionesAssumption DEF ComunicacionesAssumption
  <2>3. CASE Retorna(buf)
    <3>1. /\ buf' \in Seq(Bytes) /\ Len(buf') < N
          /\ recibidos' \in Seq(Seq(Bytes) \cup {Nada})
          /\ Len(recibidos') <= Len(lectores)
        BY <2>1, <2>3, RetornaTypeOK DEF TypeOK
    <3> QED
        BY <2>1, <2>2, <3>1 DEF TypeOK
  <2>4. CASE buf' = (IF Cabe(f) THEN Append(buf, Head(red)) ELSE buf) /\ UNCHANGED recibidos
    <3>1. /\ buf' \in Seq(Bytes)
          /\ (Turno <= Len(lectores) /\ lectores[Turno] = "readLine" => Len(buf) < N)'
        BY <2>1, <2>2, <2>4, GuardaTypeOK
    <3> QED
        BY <2>1, <2>2, <2>4, <3>1 DEF TypeOK
  <2> QED
      BY <1>1, <2>3, <2>4 DEF LeeByte
<1>2. ASSUME LeeFinal(f) PROVE TypeOK'
  <2>1. Llamada(f) /\ UNCHANGED <<lectores, emite, red, fin>>
      BY <1>2 DEF LeeFinal
  <2>2. CASE f = "readString"
      BY <1>2, <2>1, <2>2 DEF LeeFinal, TypeOK, Turno
  <2>3. CASE f # "readString"
    <3>1. PICK x \in Seq(Bytes) \cup {Nada} : Retorna(x)
        BY <1>2, <2>3 DEF LeeFinal, TypeOK
    <3>2. lector' = lector
        BY <1>2, <2>3 DEF LeeFinal
    <3>3. /\ buf' \in Seq(Bytes) /\ Len(buf') < N
          /\ recibidos' \in Seq(Seq(Bytes) \cup {Nada})
          /\ Len(recibidos') <= Len(lectores)
        BY <2>1, <3>1, RetornaTypeOK
    <3> QED
        BY <2>1, <3>2, <3>3 DEF TypeOK
  <2> QED
      BY <2>2, <2>3
<1>3. ASSUME LeeError(f) PROVE TypeOK'
    BY <1>3 DEF LeeError, TypeOK, Turno
<1>4. ASSUME NoDescifra(f) PROVE TypeOK'
  <2>1. red # <<>> /\ red \in Seq(Bytes) /\ Len(red) <= Hueco /\ red' = Tail(red)
      BY <1>4 DEF NoDescifra, TypeOK
  <2>2. red' \in Seq(Bytes) /\ Len(red') <= Hueco
    <3>1. Tail(red) \in Seq(Bytes) /\ Len(Tail(red)) = Len(red) - 1 /\ Len(red) \in Nat
        BY <2>1, HeadTailProperties, LenProperties
    <3> QED
        BY <2>1, <3>1, ComunicacionesAssumption DEF ComunicacionesAssumption
  <2> QED
      BY <1>4, <2>2 DEF NoDescifra, TypeOK, Turno
<1> QED
    BY <1>1, <1>2, <1>3, <1>4

\* The connection keeps its types, for any texts and sizes: readLine never
\* stores byte N of a buffer of N bytes, and the sockets never hold more than
\* they have room for (communications.c 107-116, 161-194).
THEOREM TypeCorrect == Spec => []TypeOK
<1>1. TypeOK /\ [Next]_vars => TypeOK'
  <2> SUFFICES ASSUME TypeOK, [Next]_vars PROVE TypeOK'
      OBVIOUS
  <2>1. CASE Deja \/ Quieto \/ UNCHANGED vars
      BY <2>1 DEF Deja, Quieto, vars, emite, TypeOK, Turno
  <2> QED
      BY <2>1, EmisorTypeOK, LectorTypeOK DEF Next
<1> QED
    BY <1>1, InitTypeOK, PTL DEF Spec

-----------------------------------------------------------------------------
(* What is under way.                                                      *)

\* The bytes that the reader has still to see, and those not yet written.
Sigue == red \o resta

\* The text of turn k is followed by a byte its reader stops at.
Marcado(k) == lectores[k] # "readString_binary"

Sitios == [Nat -> Int]

\* The text of turn k lies after byte p[k] of Sigue, but for what has been read
\* of it; and all the texts before the last are in the sockets.
Colocado(p, k) ==
    /\ p[k + 1] = p[k] + Len(enviados[k]) + (IF Marcado(k) THEN 1 ELSE 0)
    /\ \A j \in 1 .. Len(enviados[k]) : p[k] + j > 0 => Sigue[p[k] + j] = enviados[k][j]
    /\ Marcado(k) => p[k + 1] > 0 /\ Acaba(lectores[k], Sigue[p[k + 1]])
    /\ k < Len(enviados) => p[k + 1] <= Len(red)

\* buf is what a line keeps of the bytes read.
Leido(p) ==
    /\ p[Turno] <= 0
    /\ Len(buf) = IF lectores[Turno] = "readLine" /\ 0 - p[Turno] >= N THEN N - 1 ELSE 0 - p[Turno]
    /\ \A j \in 1 .. Len(buf) : buf[j] = enviados[Turno][j]

EnSuSitio(p) ==
    /\ p[Len(enviados) + 1] = Len(Sigue)
    /\ \A k \in Turno .. Len(enviados) : Colocado(p, k)

Colocados(p) == EnSuSitio(p) /\ Leido(p)

\* Every text that the reader has not finished is under way, in its place.  A
\* sender that was killed has cut the last one at most, and what it had not
\* written (resta) is lost.
Flujo ==
    fin # "rst" =>
        \/ /\ Turno <= Len(enviados)
           /\ \E p \in Sitios : Colocados(p)
        \/ /\ Turno > Len(enviados)
           /\ red = <<>> /\ buf = <<>>
           /\ emisor # "muerto" => resta = <<>> /\ Turno = Len(enviados) + 1

\* A reader that has given up need not have taken the last byte it read.
FlujoInv == lector = "lee" => Flujo

\* How the connection can have ended, and what each text may hold.
FinInv ==
    /\ \A k \in 1 .. Len(enviados) : enviados[k] \in Envios(lectores[k])
    /\ emisor = "error" => lector = "fuera"
    /\ emisor = "cerrado" => lector = "fuera" \/ (resta = <<>> /\ Len(enviados) = Len(lectores))
    /\ fin = "rst" => red = <<>> /\ emisor = "muerto"
    /\ fin = "fin" => emisor \in {"cerrado", "muerto"}

LEMMA TipoDeSitio == \A p \in Sitios, k \in Nat : p[k] \in Int
BY DEF Sitios

LEMMA TiposDeSigue ==
    ASSUME TypeOK
    PROVE  /\ red \in Seq(Bytes) /\ Len(red) \in Nat
           /\ resta \in Seq(Bytes) /\ Len(resta) \in Nat
           /\ buf \in Seq(Bytes) /\ Len(buf) \in Nat
           /\ Sigue \in Seq(Bytes) /\ Len(Sigue) = Len(red) + Len(resta)
           /\ \A i \in 1 .. Len(Sigue) :
                 Sigue[i] = IF i <= Len(red) THEN red[i] ELSE resta[i - Len(red)]
<1>1. /\ red \in Seq(Bytes) /\ Len(red) \in Nat
      /\ resta \in Seq(Bytes) /\ Len(resta) \in Nat
      /\ buf \in Seq(Bytes) /\ Len(buf) \in Nat
    BY LenProperties DEF TypeOK
<1> QED
    BY <1>1, ConcatProperties DEF Sigue

LEMMA TiposDeTextos ==
    ASSUME TypeOK
    PROVE  /\ lectores \in Seq(Lectura) /\ Len(lectores) \in Nat
           /\ enviados \in Seq(Textos) /\ Len(enviados) \in Nat
           /\ Len(enviados) <= Len(lectores)
           /\ Turno \in Nat \ {0}
           /\ \A k \in 1 .. Len(enviados) :
                 enviados[k] \in Seq(Bytes) /\ Len(enviados[k]) \in Nat
           /\ \A k \in Nat : k < Len(lectores) /\ k > 0 => Marcado(k)
<1>1. /\ lectores \in Seq(Lectura) /\ Len(lectores) \in Nat
      /\ \A k \in 1 .. Len(lectores) - 1 : lectores[k] # "readString_binary"
    BY ComunicacionesAssumption, LenProperties DEF TypeOK, ComunicacionesAssumption, Lectura
<1>2. /\ enviados \in Seq(Textos) /\ Len(enviados) \in Nat /\ Len(enviados) <= Len(lectores)
    BY LenProperties DEF TypeOK
<1>3. Turno \in Nat \ {0}
    BY LenProperties DEF TypeOK, Turno
<1>4. ASSUME NEW k \in 1 .. Len(enviados)
      PROVE  enviados[k] \in Seq(Bytes) /\ Len(enviados[k]) \in Nat
  <2>1. enviados[k] \in Seq(Bytes)
      BY <1>2, ElementOfSeq, ComunicacionesAssumption DEF ComunicacionesAssumption
  <2> QED
      BY <2>1, LenProperties
<1> QED
    BY <1>1, <1>2, <1>3, <1>4 DEF Marcado

LEMMA InitFlujo == Init => Flujo /\ FinInv
<1> SUFFICES ASSUME Init PROVE Flujo /\ FinInv
    OBVIOUS
<1>1. Len(<<>>) = 0 /\ Turno = 1
    BY DEF Init, Turno
<1> QED
    BY <1>1 DEF Init, Flujo, FinInv

-----------------------------------------------------------------------------
(* The end that sends keeps every text in its place.                       *)

LEMMA EmisorFinInv ==
    ASSUME TypeOK, FinInv, Emisor \/ Muere
    PROVE  FinInv'
<1> USE DEF FinInv, lee
<1>1. ASSUME Empieza PROVE FinInv'
  <2>1. PICK x \in Envios(lectores[Len(enviados) + 1]) : enviados' = Append(enviados, x)
      BY <1>1 DEF Empieza
  <2>2. x \in Textos
      BY <2>1 DEF Envios
  <2>3. /\ Len(enviados') = Len(enviados) + 1
        /\ \A k \in 1 .. Len(enviados) : enviados'[k] = enviados[k]
        /\ enviados'[Len(enviados) + 1] = x
      BY <2>1, <2>2, AppendProperties DEF TypeOK
  <2>4. \A k \in 1 .. Len(enviados') : enviados'[k] \in Envios(lectores[k])
      BY <2>1, <2>3, TiposDeTextos
  <2>5. (\A k \in 1 .. Len(enviados) : enviados[k] \in Envios(lectores[k]))'
      BY <1>1, <2>4 DEF Empieza, Envios
  <2> QED
      BY <1>1, <2>5 DEF Empieza
<1>2. ASSUME Escribe \/ EscribeFalla \/ Cierra \/ Muere PROVE FinInv'
  <2>1. (\A k \in 1 .. Len(enviados) : enviados[k] \in Envios(lectores[k]))'
      BY <1>2 DEF Escribe, EscribeFalla, Cierra, Muere, Envios
  <2> QED
      BY <1>2, <2>1 DEF Escribe, EscribeFalla, Cierra, Muere
<1> QED
    BY <1>1, <1>2 DEF Emisor

LEMMA Asociativa == \A s, t, u \in Seq(Bytes) : (s \o t) \o u = s \o (t \o u)
BY ConcatAssociative

\* A write moves bytes from resta to red, and changes nothing of the stream.
LEMMA EscribeSigue ==
    ASSUME TypeOK, Escribe
    PROVE  Sigue' = Sigue /\ Len(red) <= Len(red')
<1>1. PICK r \in 1 .. Len(resta) : red' = red \o SubSeq(resta, 1, r) /\ resta' = Queda(resta, r)
    BY DEF Escribe
<1>2. r \in 1 .. Len(resta) /\ Len(resta) \in Nat /\ Len(red) \in Nat
    BY TiposDeSigue
<1>3. resta = SubSeq(resta, 1, r) \o SubSeq(resta, r + 1, Len(resta))
  <2>1. resta \in Seq(Bytes) /\ SubSeq(resta, 1, Len(resta)) = resta
      BY TiposDeSigue, SubSeqFull
  <2>2. 1 \in 1 .. Len(resta) + 1 /\ r \in 1 - 1 .. Len(resta) /\ Len(resta) \in r .. Len(resta)
      BY <1>2
  <2>3. SubSeq(resta, 1, r) \o SubSeq(resta, r + 1, Len(resta)) = SubSeq(resta, 1, Len(resta))
      BY <2>1, <2>2, ConcatAdjacentSubSeq
  <2> QED
      BY <2>1, <2>3
<1>4. SubSeq(resta, 1, r) \in Seq(Bytes) /\ SubSeq(resta, r + 1, Len(resta)) \in Seq(Bytes)
    BY <1>2, TiposDeSigue, SubSeqProperties, ElementOfSeq
<1>5. Sigue' = Sigue
  <2> DEFINE a == SubSeq(resta, 1, r)
             b == SubSeq(resta, r + 1, Len(resta))
  <2>1. Sigue' = (red \o a) \o b /\ Sigue = red \o (a \o b)
      BY <1>1, <1>3 DEF Sigue, Queda
  <2>2. a \in Seq(Bytes) /\ b \in Seq(Bytes) /\ red \in Seq(Bytes)
      BY <1>4, TiposDeSigue
  <2> HIDE DEF a, b
  <2> QED
      BY <2>1, <2>2, Asociativa
<1>6. Len(red') = Len(red) + r
    BY <1>1, TiposDeSigue, EscribeBytes
<1> QED
    BY <1>2, <1>5, <1>6

LEMMA SigueColocados ==
    ASSUME TypeOK, TypeOK', NEW p \in Sitios, Colocados(p),
           UNCHANGED <<lectores, enviados, buf, recibidos, Sigue>>, Len(red) <= Len(red')
    PROVE  Colocados(p)'
<1>1. Len(red) \in Nat /\ Len(red') \in Nat /\ Turno' = Turno
    BY TiposDeSigue, LenProperties DEF TypeOK, Turno
<1>2. ASSUME NEW k \in Turno .. Len(enviados)
      PROVE  Colocado(p, k)'
  <2>1. Colocado(p, k) /\ k + 1 \in Nat /\ p[k + 1] \in Int
      BY <1>2, TiposDeTextos, TipoDeSitio DEF Colocados, EnSuSitio
  <2> QED
      BY <1>1, <2>1 DEF Colocado, Marcado, Acaba, AcabaLinea, AcabaCadena
<1> QED
    BY <1>1, <1>2 DEF Colocados, EnSuSitio, Leido

\* One more text: the ones before it stay where they are.
LEMMA EmpiezaColocados ==
    ASSUME TypeOK, TypeOK', FinInv, Empieza,
           NEW p \in Sitios, EnSuSitio(p)
    PROVE  \E q \in Sitios :
              (\A k \in 1 .. Len(enviados) + 1 : q[k] = p[k]) /\ EnSuSitio(q)'
<1> DEFINE n == Len(enviados)
           f == lectores[n + 1]
<1>1. /\ resta = <<>> /\ n < Len(lectores) /\ UNCHANGED <<lectores, red, recibidos>>
      /\ \E x \in Envios(f), t \in Terminadores(f) :
            enviados' = Append(enviados, x) /\ resta' = x \o t
    BY DEF Empieza, lee
<1>2. PICK x \in Envios(f), t \in Terminadores(f) :
            enviados' = Append(enviados, x) /\ resta' = x \o t
    BY <1>1
<1>3. n \in Nat /\ f \in Lectura /\ n + 1 \in Nat /\ n + 2 \in Nat
    BY <1>1, TiposDeTextos, ElementOfSeq
<1>4. /\ x \in Textos /\ x \in Seq(Bytes) /\ Len(x) \in Nat
      /\ t \in Seq(Bytes)
      /\ Len(t) = (IF Marcado(n + 1) THEN 1 ELSE 0) /\ Len(t) \in Nat
      /\ Marcado(n + 1) => Acaba(f, t[1])
  <2>1. x \in Textos /\ x \in Seq(Bytes)
      BY ComunicacionesAssumption DEF Envios, ComunicacionesAssumption
  <2>2. Nul \in Bytes /\ Nl \in Bytes
      BY ComunicacionesAssumption DEF ComunicacionesAssumption
  <2>3. CASE f = "readLine"
    <3>1. Terminadores(f) = {<<Nul>>, <<Nl>>}
        BY <2>3 DEF Terminadores
    <3>2. PICK b \in {Nul, Nl} : t = <<b>>
        BY <3>1
    <3>3. Len(t) = 1 /\ t[1] = b /\ t \in Seq(Bytes)
        BY <2>2, <3>2
    <3>4. Acaba(f, b) /\ Marcado(n + 1)
        BY <2>3 DEF Acaba, AcabaLinea, AcabaCadena, Marcado
    <3> QED
        BY <2>1, <3>3, <3>4, LenProperties
  <2>4. CASE f = "readString"
      BY <2>1, <2>2, <2>4, LenProperties DEF Terminadores, Acaba, AcabaLinea, AcabaCadena, Marcado
  <2>5. CASE f = "readString_binary"
      BY <2>1, <2>2, <2>5, LenProperties DEF Terminadores, Acaba, AcabaLinea, AcabaCadena, Marcado
  <2> QED
      BY <1>3, <2>3, <2>4, <2>5 DEF Lectura
<1>5. /\ Len(enviados') = n + 1
      /\ \A k \in 1 .. n : enviados'[k] = enviados[k]
      /\ enviados'[n + 1] = x
    BY <1>2, <1>4, AppendProperties, TiposDeTextos
<1>6. /\ Len(resta') = Len(x) + Len(t)
      /\ \A i \in 1 .. Len(x) + Len(t) : resta'[i] = IF i <= Len(x) THEN x[i] ELSE t[i - Len(x)]
    BY <1>2, <1>4, ConcatProperties
<1>7. /\ Len(red) \in Nat /\ Len(Sigue) = Len(red)
      /\ Len(Sigue') = Len(red) + Len(resta')
      /\ \A i \in 1 .. Len(Sigue) : Sigue'[i] = Sigue[i]
      /\ \A i \in 1 .. Len(resta') : Sigue'[Len(red) + i] = resta'[i]
  <2>1. Len(resta) = 0 /\ Len(resta') \in Nat
      BY <1>1, <1>4, <1>6
  <2>2. /\ Len(Sigue') = Len(red') + Len(resta')
        /\ \A i \in 1 .. Len(Sigue') :
              Sigue'[i] = IF i <= Len(red') THEN red'[i] ELSE resta'[i - Len(red')]
      <3>1. (/\ Len(Sigue) = Len(red) + Len(resta)
             /\ \A i \in 1 .. Len(Sigue) :
                   Sigue[i] = IF i <= Len(red) THEN red[i] ELSE resta[i - Len(red)])'
          BY TiposDeSigue, PTL
      <3> QED
          BY <3>1
  <2> QED
    <3>1. Len(red) \in Nat /\ Len(Sigue) = Len(red)
        BY <2>1, TiposDeSigue
    <3>2. Len(Sigue') = Len(red) + Len(resta')
        BY <1>1, <2>2
    <3>3. ASSUME NEW i \in 1 .. Len(red)
          PROVE  Sigue'[i] = Sigue[i]
      <4>1. i \in 1 .. Len(Sigue') /\ i <= Len(red) /\ i \in 1 .. Len(Sigue)
          BY <2>1, <3>1, <3>2
      <4> QED
          BY <1>1, <2>2, <4>1, TiposDeSigue
    <3>4. ASSUME NEW i \in 1 .. Len(resta')
          PROVE  Sigue'[Len(red) + i] = resta'[i]
      <4>1. /\ Len(red) + i \in 1 .. Len(Sigue') /\ ~(Len(red) + i <= Len(red))
            /\ (Len(red) + i) - Len(red) = i
          BY <2>1, <3>1, <3>2
      <4> QED
          BY <1>1, <2>2, <4>1
    <3> QED
        BY <3>1, <3>2, <3>3, <3>4
<1>8. p[n + 1] = Len(red)
    BY <1>7 DEF EnSuSitio
<1>9. PICK q \in Sitios : q[n + 2] = Len(Sigue') /\ \A k \in 1 .. n + 1 : q[k] = p[k]
  <2> DEFINE r == [p EXCEPT ![n + 2] = Len(Sigue')]
  <2>1. Len(Sigue') \in Int
      BY <1>4, <1>6, <1>7
  <2>2. r \in Sitios /\ r[n + 2] = Len(Sigue') /\ \A k \in 1 .. n + 1 : r[k] = p[k]
      BY <1>3, <2>1 DEF Sitios
  <2> HIDE DEF r
  <2> QED
      BY <2>2
<1>10. ASSUME NEW k \in Turno .. n
      PROVE  Colocado(q, k)'
  <2>1. /\ Colocado(p, k) /\ k \in 1 .. n /\ k + 1 \in 1 .. n + 1
        /\ p[k] \in Int /\ p[k + 1] \in Int
      BY <1>3, TiposDeTextos, TipoDeSitio DEF EnSuSitio
  <2>2. Marcado(k) /\ Marcado(k)' /\ lectores'[k] = lectores[k]
      BY <1>1, <2>1, TiposDeTextos DEF Marcado
  <2>3. p[k + 1] \in 1 .. Len(Sigue) /\ p[k + 1] = p[k] + Len(enviados[k]) + 1
      BY <1>3, <1>7, <1>8, <2>1, <2>2, TiposDeTextos DEF Colocado
  <2>4. \A j \in 1 .. Len(enviados[k]) : p[k] + j > 0 => p[k] + j \in 1 .. Len(Sigue)
    <3>1. PICK a \in Int, l \in Nat, m \in Nat :
              p[k] = a /\ Len(enviados[k]) = l /\ Len(Sigue) = m /\ a + l + 1 <= m
        BY <1>7, <2>1, <2>3, TiposDeTextos
    <3>2. \A j \in 1 .. l : a + j > 0 => a + j \in 1 .. m
        BY <3>1
    <3> QED
        BY <3>1, <3>2
  <2>5. q[k] = p[k] /\ q[k + 1] = p[k + 1] /\ enviados'[k] = enviados[k]
      BY <1>3, <1>5, <1>9, <2>1
  <2>6. q[k + 1] = q[k] + Len(enviados'[k]) + (IF Marcado(k)' THEN 1 ELSE 0)
      BY <2>1, <2>2, <2>5 DEF Colocado
  <2>7. \A j \in 1 .. Len(enviados'[k]) :
            q[k] + j > 0 => Sigue'[q[k] + j] = enviados'[k][j]
      BY <1>7, <2>1, <2>4, <2>5 DEF Colocado
  <2>8. q[k + 1] > 0 /\ Acaba(lectores'[k], Sigue'[q[k + 1]])
      BY <1>7, <2>1, <2>2, <2>3, <2>5 DEF Colocado
  <2>9. q[k + 1] <= Len(red')
      BY <1>1, <1>7, <2>3, <2>5
  <2> QED
      BY <2>6, <2>7, <2>8, <2>9 DEF Colocado, Acaba, AcabaLinea, AcabaCadena
<1>11. ASSUME NEW k \in Nat, k = n + 1
       PROVE  Colocado(q, k)'
  <2>1. q[k] = Len(red) /\ q[k + 1] = Len(red) + Len(x) + Len(t)
    <3>1. q[n + 1] = Len(red)
        BY <1>3, <1>9, <1>8
    <3>2. q[n + 2] = Len(red) + Len(x) + Len(t)
      <4>1. q[n + 2] = Len(Sigue')
          BY <1>9
      <4>2. Len(Sigue') = Len(red) + (Len(x) + Len(t))
          BY <1>6, <1>7
      <4>3. Len(red) + (Len(x) + Len(t)) = Len(red) + Len(x) + Len(t)
          BY <1>4, <1>7
      <4> QED
          BY <4>1, <4>2, <4>3
    <3>3. k + 1 = n + 2
        BY <1>3, <1>11
    <3> QED
        BY <1>11, <3>1, <3>2, <3>3
  <2>2. Marcado(k)' <=> Marcado(n + 1)
      BY <1>1, <1>11 DEF Marcado
  <2>3. ASSUME NEW j \in 1 .. Len(x)
        PROVE  Sigue'[q[k] + j] = x[j]
    <3>1. j \in 1 .. Len(resta') /\ resta'[j] = x[j]
        BY <1>4, <1>6
    <3>2. Sigue'[Len(red) + j] = resta'[j]
        BY <1>7, <3>1
    <3> QED
        BY <2>1, <3>1, <3>2
  <2>4. ASSUME Marcado(n + 1)
        PROVE  q[k + 1] > 0 /\ Acaba(f, Sigue'[q[k + 1]])
    <3> DEFINE j == Len(x) + 1
    <3>1. j \in 1 .. Len(resta') /\ resta'[j] = t[1] /\ q[k + 1] = Len(red) + j
      <4>1. Len(t) = 1 /\ Len(x) \in Nat
          BY <1>4, <2>4
      <4>2. j \in 1 .. Len(x) + Len(t) /\ ~(j <= Len(x)) /\ j - Len(x) = 1
          BY <4>1
      <4>3. j \in 1 .. Len(resta') /\ resta'[j] = t[1]
          BY <1>6, <4>2
      <4>4. q[k + 1] = Len(red) + j
          BY <1>7, <2>1, <4>1
      <4> QED
          BY <4>3, <4>4
    <3> HIDE DEF j
    <3>2. Sigue'[Len(red) + j] = resta'[j]
        BY <1>7, <3>1
    <3> QED
        BY <1>4, <1>7, <2>4, <3>1, <3>2
  <2>5. /\ enviados'[k] = x /\ Len(enviados') = k /\ lectores'[k] = f
        /\ q[k + 1] = q[k] + Len(x) + (IF Marcado(k)' THEN 1 ELSE 0)
      BY <1>1, <1>4, <1>5, <1>11, <2>1, <2>2
  <2> QED
      BY <2>2, <2>3, <2>4, <2>5, <1>11 DEF Colocado, Acaba, AcabaLinea, AcabaCadena
<1>12. ASSUME NEW k \in Turno .. Len(enviados')
       PROVE  Colocado(q, k)'
    BY <1>3, <1>5, <1>10, <1>11, TiposDeTextos
<1> QED
  <2>1. Turno' = Turno
      BY <1>1 DEF Turno
  <2>2. q[Len(enviados') + 1] = Len(Sigue')
      BY <1>3, <1>5, <1>9
  <2>3. EnSuSitio(q)'
      BY <1>12, <2>1, <2>2 DEF EnSuSitio
  <2> QED
      BY <1>9, <2>3

LEMMA EmpiezaFlujo ==
    ASSUME TypeOK, TypeOK', FinInv, Flujo, Empieza
    PROVE  Flujo'
<1>1. /\ resta = <<>> /\ emisor = "activo"
      /\ UNCHANGED <<lectores, red, fin, buf, recibidos>>
    BY DEF Empieza, lee
<1>2. CASE fin = "rst"
    BY <1>1, <1>2 DEF Flujo
<1>3. CASE fin # "rst"
  <2>1. /\ Len(enviados) \in Nat /\ Turno \in Nat \ {0} /\ Turno' = Turno
        /\ Len(enviados') = Len(enviados) + 1
    <3>1. \E x \in Textos : enviados' = Append(enviados, x)
        BY DEF Empieza, Envios
    <3> QED
        BY <1>1, <3>1, TiposDeTextos, AppendProperties DEF Turno
  <2>2. PICK p \in Sitios :
            /\ EnSuSitio(p)
            /\ Turno <= Len(enviados) => Leido(p)
            /\ Turno > Len(enviados) => p[Turno] = 0 /\ buf = <<>>
    <3>1. CASE Turno <= Len(enviados)
        BY <1>3, <2>1, <3>1 DEF Flujo, Colocados
    <3>2. CASE Turno > Len(enviados)
      <4>1. red = <<>> /\ buf = <<>> /\ Turno = Len(enviados) + 1 /\ Len(Sigue) = 0
          BY <1>1, <1>3, <2>1, <3>2, TiposDeSigue DEF Flujo
      <4> DEFINE p == [k \in Nat |-> 0]
      <4>2. p \in Sitios /\ p[Len(enviados) + 1] = 0 /\ p[Turno] = 0
          BY <2>1 DEF Sitios
      <4>3. Turno .. Len(enviados) = {}
          BY <2>1, <3>2
      <4> HIDE DEF p
      <4> QED
          BY <2>1, <3>2, <4>1, <4>2, <4>3 DEF EnSuSitio
    <3> QED
        BY <2>1, <3>1, <3>2
  <2>3. PICK q \in Sitios :
            (\A k \in 1 .. Len(enviados) + 1 : q[k] = p[k]) /\ EnSuSitio(q)'
      BY <2>2, EmpiezaColocados
  <2>4. Turno <= Len(enviados) + 1
      BY <1>1, <1>3, <2>1 DEF Flujo
  <2>5. q[Turno] = p[Turno]
      BY <2>1, <2>3, <2>4
  <2>6. Leido(q)'
    <3>1. CASE Turno <= Len(enviados)
      <4>1. enviados'[Turno] = enviados[Turno]
        <5>1. \E x \in Textos : enviados' = Append(enviados, x)
            BY DEF Empieza, Envios
        <5> QED
            BY <2>1, <3>1, <5>1, TiposDeTextos, AppendProperties
      <4> QED
          BY <1>1, <2>1, <2>2, <2>5, <3>1, <4>1 DEF Leido
    <3>2. CASE Turno > Len(enviados)
      <4>1. q[Turno] = 0 /\ buf' = <<>> /\ Len(buf') = 0
          BY <1>1, <2>2, <2>5, <3>2
      <4>2. 0 - q[Turno'] = 0 /\ ~(0 - q[Turno'] >= N) /\ 1 .. Len(buf') = {}
          BY <2>1, <4>1, ComunicacionesAssumption DEF ComunicacionesAssumption
      <4> QED
          BY <2>1, <4>1, <4>2 DEF Leido
    <3> QED
        BY <2>1, <3>1, <3>2
  <2>7. Colocados(q)'
      BY <2>1, <2>3, <2>6 DEF Colocados
  <2> QED
      BY <2>1, <2>3, <2>4, <2>7 DEF Flujo
<1> QED
    BY <1>2, <1>3

LEMMA EmisorFlujo ==
    ASSUME TypeOK, TypeOK', FinInv, Flujo, Emisor \/ Muere
    PROVE  Flujo'
<1> USE DEF lee
<1>1. CASE Empieza
    BY <1>1, EmpiezaFlujo
<1>2. CASE Escribe
  <2>1. Sigue' = Sigue /\ Len(red) <= Len(red')
      BY <1>2, EscribeSigue
  <2>2. UNCHANGED <<lectores, enviados, buf, recibidos, fin, emisor>> /\ emisor = "activo"
      BY <1>2 DEF Escribe
  <2>3. resta # <<>>
      BY <1>2 DEF Escribe
  <2>4. CASE fin # "rst"
    <3>1. PICK p \in Sitios : Turno <= Len(enviados) /\ Colocados(p)
        BY <2>2, <2>3, <2>4 DEF Flujo
    <3>2. Colocados(p)'
        BY <2>1, <2>2, <3>1, SigueColocados
    <3> QED
        BY <2>2, <3>1, <3>2 DEF Flujo, Turno
  <2> QED
      BY <2>2, <2>4 DEF Flujo
<1>3. CASE EscribeFalla \/ Cierra \/ Muere
  <2>1. UNCHANGED <<lectores, enviados, buf, recibidos, resta>>
      BY <1>3 DEF EscribeFalla, Cierra, Muere
  <2>2. fin' # "rst" => fin # "rst" /\ red' = red
      BY <1>3 DEF EscribeFalla, Cierra, Muere, FinInv
  <2>3. emisor' # "muerto" => emisor # "muerto"
      BY <1>3 DEF EscribeFalla, Cierra, Muere
  <2>4. Turno' = Turno
      BY <2>1 DEF Turno
  <2>5. CASE fin' # "rst" /\ Turno <= Len(enviados)
    <3>1. Turno \in Nat \ {0} /\ Len(enviados) \in Nat
        BY TiposDeTextos
    <3>2. PICK p \in Sitios : Colocados(p)
        BY <2>2, <2>5, <3>1 DEF Flujo
    <3>3. Sigue' = Sigue /\ Len(red) <= Len(red')
        BY <2>1, <2>2, <2>5, TiposDeSigue DEF Sigue
    <3>4. Colocados(p)'
        BY <2>1, <3>2, <3>3, SigueColocados
    <3> QED
        BY <2>1, <2>4, <2>5, <3>4 DEF Flujo
  <2>6. CASE fin' # "rst" /\ ~(Turno <= Len(enviados))
      BY <2>1, <2>2, <2>3, <2>4, <2>6 DEF Flujo
  <2> QED
      BY <2>5, <2>6 DEF Flujo
<1> QED
    BY <1>1, <1>2, <1>3 DEF Emisor

-----------------------------------------------------------------------------
(* The end that reads finds them there.                                    *)

\* The reader takes a byte.
PasaByte ==
    red # <<>> /\ red' = Tail(red) /\ UNCHANGED <<lectores, enviados, resta>>

\* A byte that is read leaves the stream, and the others move up.
LEMMA ByteSigue ==
    ASSUME TypeOK, TypeOK', PasaByte
    PROVE  /\ Len(red) \in Nat \ {0} /\ Len(red') = Len(red) - 1
           /\ Len(Sigue) \in Nat \ {0} /\ Len(Sigue') = Len(Sigue) - 1
           /\ Sigue[1] = Head(red) /\ Head(red) \in Bytes
           /\ \A i \in 1 .. Len(Sigue) - 1 : Sigue'[i] = Sigue[i + 1]
<1>1. /\ Head(red) \in Bytes /\ Len(red') = Len(red) - 1 /\ Len(red) \in Nat \ {0}
      /\ \A i \in 1 .. Len(red') : red'[i] = red[i + 1]
      /\ Head(red) = red[1]
    BY TiposDeSigue, HeadTailProperties, EmptySeq DEF PasaByte
<1>2. /\ Len(resta) \in Nat /\ Len(Sigue) = Len(red) + Len(resta)
      /\ \A i \in 1 .. Len(Sigue) :
            Sigue[i] = IF i <= Len(red) THEN red[i] ELSE resta[i - Len(red)]
    BY TiposDeSigue
<1>3. /\ Len(Sigue') = Len(red') + Len(resta)
      /\ \A i \in 1 .. Len(Sigue') :
            Sigue'[i] = IF i <= Len(red') THEN red'[i] ELSE resta[i - Len(red')]
  <2>1. (/\ Len(Sigue) = Len(red) + Len(resta)
         /\ \A i \in 1 .. Len(Sigue) :
               Sigue[i] = IF i <= Len(red) THEN red[i] ELSE resta[i - Len(red)])'
      BY TiposDeSigue, PTL
  <2> QED
      BY <2>1 DEF PasaByte
<1>4. Len(Sigue) \in Nat \ {0} /\ Len(Sigue') = Len(Sigue) - 1
    BY <1>1, <1>2, <1>3
<1>5. Sigue[1] = Head(red)
  <2>1. 1 \in 1 .. Len(Sigue) /\ 1 <= Len(red)
      BY <1>1, <1>2
  <2> QED
      BY <1>1, <1>2, <2>1
<1>6. ASSUME NEW i \in 1 .. Len(Sigue) - 1
      PROVE  Sigue'[i] = Sigue[i + 1]
  <2>1. /\ i \in 1 .. Len(Sigue') /\ i + 1 \in 1 .. Len(Sigue)
        /\ i <= Len(red') <=> i + 1 <= Len(red)
        /\ i - Len(red') = (i + 1) - Len(red)
      BY <1>1, <1>4
  <2>2. CASE i <= Len(red')
    <3>1. i \in 1 .. Len(red')
        BY <1>1, <2>1, <2>2
    <3> QED
        BY <1>1, <1>2, <1>3, <2>1, <2>2, <3>1
  <2>3. CASE ~(i <= Len(red'))
      BY <1>2, <1>3, <2>1, <2>3
  <2> QED
      BY <2>2, <2>3
<1> QED
    BY <1>1, <1>4, <1>5, <1>6

\* The next byte is the terminator of the text that is being read.
UltimoByte(p) == Marcado(Turno) /\ p[Turno + 1] = 1

\* The texts after the one being read move up with the others, and so does that
\* one unless the byte is its terminator.
LEMMA ByteEnSuSitio ==
    ASSUME TypeOK, TypeOK', NEW p \in Sitios, EnSuSitio(p), Turno <= Len(enviados),
           PasaByte, NEW m \in Turno .. Len(enviados) + 1,
           m = Turno => ~UltimoByte(p)
    PROVE  \E q \in Sitios :
              /\ \A k \in Nat : q[k] = p[k] - 1
              /\ q[Len(enviados) + 1] = Len(Sigue')
              /\ \A k \in m .. Len(enviados) : Colocado(q, k)'
<1>1. PICK q \in Sitios : \A k \in Nat : q[k] = p[k] - 1
  <2> DEFINE r == [k \in Nat |-> p[k] - 1]
  <2>1. r \in Sitios /\ \A k \in Nat : r[k] = p[k] - 1
      BY TipoDeSitio DEF Sitios
  <2> HIDE DEF r
  <2> QED
      BY <2>1
<1>2. /\ Len(enviados) \in Nat /\ Turno \in Nat \ {0}
      /\ \A k \in Turno .. Len(enviados) : Len(enviados[k]) \in Nat
      /\ \A k \in Turno .. Len(enviados) - 1 : Marcado(k)
    BY TiposDeTextos
<1>3. q[Len(enviados) + 1] = Len(Sigue')
    BY <1>1, <1>2, ByteSigue DEF EnSuSitio
<1>4. ASSUME NEW k \in m .. Len(enviados)
      PROVE  Colocado(q, k)'
  <2>1. /\ k \in Turno .. Len(enviados) /\ k \in Nat /\ k + 1 \in Nat /\ Colocado(p, k)
        /\ p[k] \in Int /\ p[k + 1] \in Int /\ Len(enviados[k]) \in Nat
      BY <1>1, <1>2, TipoDeSitio DEF EnSuSitio
  <2>2. /\ p[k] \in Int /\ p[k + 1] \in Int /\ Len(enviados[k]) \in Nat
        /\ q[k] = p[k] - 1 /\ q[k + 1] = p[k + 1] - 1
      BY <1>1, <2>1
  <2>3. Len(Sigue) \in Nat \ {0} /\ Len(red) \in Nat /\ Len(red) <= Len(Sigue)
      BY ByteSigue, TiposDeSigue
  <2>4. p[k + 1] <= Len(Sigue)
    <3>1. CASE k = Len(enviados)
        BY <2>3, <3>1 DEF EnSuSitio
    <3>2. CASE k < Len(enviados)
        BY <2>1, <2>3, <3>2 DEF Colocado
    <3> QED
        BY <1>2, <2>1, <3>1, <3>2
  <2>5. Marcado(k) => p[k + 1] > 1
    <3>1. CASE k = Turno
      <4>1. Marcado(k) => p[k + 1] > 0
          BY <2>1 DEF Colocado
      <4> QED
          BY <1>2, <1>4, <2>1, <3>1, <4>1 DEF UltimoByte
    <3>2. CASE k > Turno
      <4>1. /\ k - 1 \in Turno .. Len(enviados) /\ Marcado(k - 1) /\ (k - 1) + 1 = k
          BY <1>2, <2>1, <3>2
      <4>2. p[k] > 0
          BY <4>1 DEF EnSuSitio, Colocado
      <4>3. Marcado(k) => p[k + 1] = p[k] + Len(enviados[k]) + 1
          BY <2>1 DEF Colocado
      <4> QED
          BY <2>1, <4>2, <4>3
    <3> QED
        BY <1>2, <2>1, <3>1, <3>2
  <2>6. PICK a \in Int, b \in Int, n \in Nat, c \in {0, 1} :
            /\ p[k] = a /\ p[k + 1] = b /\ Len(enviados[k]) = n
            /\ q[k] = a - 1 /\ q[k + 1] = b - 1
            /\ c = (IF Marcado(k) THEN 1 ELSE 0) /\ b = a + n + c
      BY <2>1, <2>2 DEF Colocado
  <2>7. q[k + 1] = q[k] + Len(enviados[k]) + (IF Marcado(k) THEN 1 ELSE 0)
    <3>1. b - 1 = (a - 1) + n + c
        BY <2>6
    <3> QED
        BY <2>6, <3>1
  <2>8. ASSUME NEW j \in 1 .. Len(enviados[k]), q[k] + j > 0
        PROVE  Sigue'[q[k] + j] = enviados[k][j]
    <3>1. j \in 1 .. n /\ (a - 1) + j > 0 /\ b <= Len(Sigue)
        BY <2>4, <2>6, <2>8
    <3>2. a + j > 0 /\ (a - 1) + j \in 1 .. Len(Sigue) - 1 /\ ((a - 1) + j) + 1 = a + j
        BY <2>3, <2>6, <3>1
    <3>3. Sigue'[(a - 1) + j] = Sigue[a + j]
        BY <3>2, ByteSigue
    <3>4. p[k] + j > 0 => Sigue[p[k] + j] = enviados[k][j]
        BY <2>1 DEF Colocado
    <3> QED
        BY <2>6, <3>2, <3>3, <3>4
  <2>9. ASSUME Marcado(k)
        PROVE  q[k + 1] > 0 /\ Acaba(lectores[k], Sigue'[q[k + 1]])
    <3>1. b - 1 \in 1 .. Len(Sigue) - 1 /\ (b - 1) + 1 = b
        BY <2>3, <2>4, <2>5, <2>6, <2>9
    <3>2. Sigue'[b - 1] = Sigue[b]
        BY <3>1, ByteSigue
    <3>3. Acaba(lectores[k], Sigue[p[k + 1]])
        BY <2>1, <2>9 DEF Colocado
    <3> QED
        BY <2>6, <3>1, <3>2, <3>3
  <2>10. k < Len(enviados) => q[k + 1] <= Len(red')
    <3>1. k < Len(enviados) => p[k + 1] <= Len(red)
        BY <2>1 DEF Colocado
    <3> QED
        BY <2>3, <2>2, <3>1, ByteSigue
  <2>11. UNCHANGED <<lectores, enviados>> /\ (Marcado(k)' <=> Marcado(k))
      BY DEF Marcado, PasaByte
  <2> QED
      BY <2>7, <2>8, <2>9, <2>10, <2>11 DEF Colocado, Acaba, AcabaLinea, AcabaCadena
<1> QED
    BY <1>1, <1>3, <1>4

\* The byte that is read ends the text when all of it has been read, and is the
\* next one of the text when it has not.
LEMMA ByteDelTexto ==
    ASSUME TypeOK, TypeOK', FinInv, NEW p \in Sitios, Colocados(p),
           Turno <= Len(enviados), PasaByte
    PROVE  \E m \in Nat :
              /\ p[Turno] = 0 - m
              /\ Acaba(lectores[Turno], Head(red)) =>
                    UltimoByte(p) /\ Len(enviados[Turno]) = m
              /\ ~Acaba(lectores[Turno], Head(red)) =>
                    /\ ~UltimoByte(p)
                    /\ m + 1 \in 1 .. Len(enviados[Turno])
                    /\ enviados[Turno][m + 1] = Head(red)
<1>1. /\ Turno \in 1 .. Len(enviados) /\ Turno \in Nat /\ Turno + 1 \in Nat
      /\ Len(enviados) \in Nat /\ Len(enviados) <= Len(lectores) /\ Len(lectores) \in Nat
      /\ lectores[Turno] \in Lectura
    BY TiposDeTextos, ElementOfSeq
<1>2. /\ Colocado(p, Turno) /\ EnSuSitio(p) /\ Leido(p)
      /\ enviados[Turno] \in Envios(lectores[Turno])
    BY <1>1 DEF Colocados, EnSuSitio, FinInv
<1>3. PICK m \in Nat, b \in Int, n \in Nat, c \in {0, 1} :
          /\ p[Turno] = 0 - m /\ p[Turno + 1] = b /\ Len(enviados[Turno]) = n
          /\ c = (IF Marcado(Turno) THEN 1 ELSE 0) /\ b = (0 - m) + n + c
  <2>1. p[Turno] \in Int /\ p[Turno + 1] \in Int /\ p[Turno] <= 0 /\ Len(enviados[Turno]) \in Nat
      BY <1>1, <1>2, TipoDeSitio, TiposDeTextos DEF Leido
  <2>2. p[Turno + 1] = p[Turno] + Len(enviados[Turno]) + (IF Marcado(Turno) THEN 1 ELSE 0)
      BY <1>2 DEF Colocado
  <2>3. 0 - p[Turno] \in Nat /\ p[Turno] = 0 - (0 - p[Turno])
      BY <2>1
  <2> QED
      BY <2>1, <2>2, <2>3
<1>4. /\ Len(Sigue) \in Nat \ {0} /\ Sigue[1] = Head(red)
    BY ByteSigue
<1>5. Marcado(Turno) => b > 0 /\ Acaba(lectores[Turno], Sigue[b])
    BY <1>2, <1>3 DEF Colocado
<1>6. m + 1 \in 1 .. n => enviados[Turno][m + 1] = Head(red)
  <2>1. SUFFICES ASSUME m + 1 \in 1 .. n PROVE enviados[Turno][m + 1] = Head(red)
      OBVIOUS
  <2>2. \A j \in 1 .. Len(enviados[Turno]) :
            p[Turno] + j > 0 => Sigue[p[Turno] + j] = enviados[Turno][j]
      BY <1>2 DEF Colocado
  <2>3. p[Turno] + (m + 1) = 1
      BY <1>3
  <2>4. m + 1 \in 1 .. Len(enviados[Turno])
      BY <1>3, <2>1
  <2>5. Sigue[p[Turno] + (m + 1)] = enviados[Turno][m + 1]
      BY <2>2, <2>3, <2>4
  <2> QED
      BY <1>4, <2>3, <2>5
<1>7. CASE Acaba(lectores[Turno], Head(red))
  <2>1. Marcado(Turno) /\ lectores[Turno] \in {"readLine", "readString"} /\ Head(red) \in {Nul, Nl}
      BY <1>1, <1>7 DEF Acaba, AcabaLinea, AcabaCadena, Marcado, Lectura
  <2>2. ~(m + 1 \in 1 .. n)
    <3>1. SUFFICES ASSUME m + 1 \in 1 .. n PROVE FALSE
        OBVIOUS
    <3>2. enviados[Turno][m + 1] \notin {Nul, Nl}
        BY <1>2, <1>3, <2>1, <3>1 DEF Envios
    <3> QED
        BY <1>6, <2>1, <3>1, <3>2
  <2>3. b = 1 /\ n = m
      BY <1>3, <1>5, <2>1, <2>2
  <2> QED
      BY <1>3, <1>7, <2>1, <2>3 DEF UltimoByte
<1>8. CASE ~Acaba(lectores[Turno], Head(red))
  <2>1. b > 0 /\ ~(Marcado(Turno) /\ b = 1)
    <3>1. CASE Marcado(Turno)
      <4>1. b > 0 /\ Acaba(lectores[Turno], Sigue[b])
          BY <1>5, <3>1
      <4> QED
          BY <1>4, <1>8, <4>1
    <3>2. CASE ~Marcado(Turno)
      <4>1. Turno = Len(enviados)
          BY <1>1, <3>2, TiposDeTextos
      <4>2. b = Len(Sigue)
          BY <1>2, <1>3, <4>1 DEF EnSuSitio
      <4> QED
          BY <1>4, <3>2, <4>2
    <3> QED
        BY <3>1, <3>2
  <2>2. m + 1 \in 1 .. n
      BY <1>3, <2>1
  <2> QED
      BY <1>3, <1>6, <1>8, <2>1, <2>2 DEF UltimoByte
<1> QED
    BY <1>7, <1>8

\* A byte that is stored, or that there is no room for.
LEMMA GuardaLeido ==
    ASSUME TypeOK, TypeOK', NEW p \in Sitios, Leido(p), Turno <= Len(enviados),
           NEW m \in Nat, p[Turno] = 0 - m, m + 1 \in 1 .. Len(enviados[Turno]),
           NEW b \in Bytes, enviados[Turno][m + 1] = b,
           NEW q \in Sitios, q[Turno] = p[Turno] - 1,
           buf' = (IF Cabe(lectores[Turno]) THEN Append(buf, b) ELSE buf),
           UNCHANGED <<lectores, enviados, recibidos>>
    PROVE  Leido(q)'
<1>1. /\ Turno' = Turno /\ N \in Nat \ {0} /\ Len(buf) \in Nat /\ buf \in Seq(Bytes)
      /\ q[Turno] <= 0 /\ 0 - q[Turno] = m + 1
    BY ComunicacionesAssumption, TiposDeSigue DEF ComunicacionesAssumption, Turno
<1>2. /\ Len(buf) = (IF lectores[Turno] = "readLine" /\ m >= N THEN N - 1 ELSE m)
      /\ \A j \in 1 .. Len(buf) : buf[j] = enviados[Turno][j]
  <2>1. 0 - p[Turno] = m
      OBVIOUS
  <2> QED
      BY <2>1 DEF Leido
<1>3. CASE Cabe(lectores[Turno])
  <2>1. /\ buf' = Append(buf, b) /\ Len(buf') = Len(buf) + 1
        /\ \A j \in 1 .. Len(buf) : buf'[j] = buf[j]
        /\ buf'[Len(buf) + 1] = b
      BY <1>1, <1>3, AppendProperties
  <2>2. lectores[Turno] = "readLine" => Len(buf) < N - 1
      BY <1>3 DEF Cabe
  <2>3. Len(buf) = m /\ ~(lectores[Turno] = "readLine" /\ m + 1 >= N)
      BY <1>1, <1>2, <2>2
  <2>4. ASSUME NEW j \in 1 .. Len(buf')
        PROVE  buf'[j] = enviados[Turno][j]
    <3>1. j \in 1 .. Len(buf) \/ j = Len(buf) + 1
        BY <1>1, <2>1
    <3> QED
        BY <1>2, <2>1, <2>3, <3>1
  <2> QED
      BY <1>1, <2>1, <2>3, <2>4 DEF Leido
<1>4. CASE ~Cabe(lectores[Turno])
  <2>1. lectores[Turno] = "readLine" /\ ~(Len(buf) < N - 1) /\ buf' = buf
      BY <1>4 DEF Cabe
  <2>2. Len(buf) = N - 1 /\ m + 1 >= N
      BY <1>1, <1>2, <2>1
  <2> QED
      BY <1>1, <1>2, <2>1, <2>2 DEF Leido
<1> QED
    BY <1>3, <1>4

\* What a step of the reader does when the text of its turn has been sent.
LEMMA LeeByteColocados ==
    ASSUME TypeOK, TypeOK', FinInv, NEW p \in Sitios, Colocados(p),
           Turno <= Len(enviados), LeeByte(lectores[Turno])
    PROVE  /\ Turno' <= Len(enviados') => \E q \in Sitios : Colocados(q)'
           /\ Turno' > Len(enviados') => Len(Sigue') = 0 /\ buf' = <<>>
           /\ Turno' \in {Turno, Turno + 1}
           /\ recibidos' # recibidos =>
                 /\ recibidos' = Append(recibidos, buf)
                 /\ p[Turno] = 0 - Len(enviados[Turno])
<1>1. PasaByte /\ UNCHANGED <<lectores, enviados, resta, emisor, fin, lector>>
    BY DEF LeeByte, PasaByte, emite
<1>2. /\ Len(enviados) \in Nat /\ Turno \in Nat \ {0} /\ Turno \in Turno .. Len(enviados)
      /\ EnSuSitio(p) /\ Leido(p)
    BY TiposDeTextos DEF Colocados
<1>3. PICK m \in Nat :
          /\ p[Turno] = 0 - m
          /\ Acaba(lectores[Turno], Head(red)) => UltimoByte(p) /\ Len(enviados[Turno]) = m
          /\ ~Acaba(lectores[Turno], Head(red)) =>
                /\ ~UltimoByte(p)
                /\ m + 1 \in 1 .. Len(enviados[Turno])
                /\ enviados[Turno][m + 1] = Head(red)
    BY <1>1, ByteDelTexto
<1>4. CASE Acaba(lectores[Turno], Head(red)) /\ Retorna(buf)
  <2>1. /\ recibidos' = Append(recibidos, buf) /\ buf' = <<>>
        /\ Len(recibidos') = Len(recibidos) + 1 /\ Turno' = Turno + 1
    <3>1. buf \in Seq(Bytes) \cup {Nada} /\ recibidos \in Seq(Seq(Bytes) \cup {Nada})
        BY DEF TypeOK
    <3>2. /\ recibidos' = Append(recibidos, buf) /\ buf' = <<>>
          /\ Len(recibidos') = Len(recibidos) + 1
        BY <1>4, <3>1, AppendProperties DEF Retorna
    <3> QED
        BY <3>2 DEF Turno
  <2>2. p[Turno + 1] = 1 /\ p[Turno] = 0 - Len(enviados[Turno])
      BY <1>3, <1>4 DEF UltimoByte
  <2>3. Turno + 1 \in Turno .. Len(enviados) + 1 /\ Turno + 1 # Turno
      BY <1>2
  <2>4. PICK q \in Sitios :
            /\ \A k \in Nat : q[k] = p[k] - 1
            /\ q[Len(enviados) + 1] = Len(Sigue')
            /\ \A k \in Turno + 1 .. Len(enviados) : Colocado(q, k)'
      BY <1>1, <1>2, <2>3, ByteEnSuSitio
  <2>5. q[Turno + 1] = 0
      BY <1>2, <2>2, <2>4
  <2>6. ASSUME Turno' <= Len(enviados')
        PROVE  Colocados(q)'
    <3>1. EnSuSitio(q)'
        BY <1>1, <2>1, <2>4 DEF EnSuSitio
    <3>2. /\ 0 - q[Turno'] = 0 /\ ~(0 - q[Turno'] >= N) /\ Len(buf') = 0 /\ q[Turno'] <= 0
          /\ 1 .. Len(buf') = {}
        BY <2>1, <2>5, ComunicacionesAssumption DEF ComunicacionesAssumption
    <3>3. Leido(q)'
        BY <3>2 DEF Leido
    <3> QED
        BY <3>1, <3>3 DEF Colocados
  <2>7. Turno' > Len(enviados') => Len(Sigue') = 0
      BY <1>1, <1>2, <2>1, <2>4, <2>5
  <2> QED
      BY <2>1, <2>2, <2>6, <2>7
<1>5. CASE /\ ~Acaba(lectores[Turno], Head(red))
           /\ buf' = IF Cabe(lectores[Turno]) THEN Append(buf, Head(red)) ELSE buf
           /\ UNCHANGED recibidos
  <2>1. Turno' = Turno /\ Turno \in Turno .. Len(enviados) + 1
      BY <1>2, <1>5 DEF Turno
  <2>2. PICK q \in Sitios :
            /\ \A k \in Nat : q[k] = p[k] - 1
            /\ q[Len(enviados) + 1] = Len(Sigue')
            /\ \A k \in Turno .. Len(enviados) : Colocado(q, k)'
      BY <1>1, <1>2, <1>3, <1>5, <2>1, ByteEnSuSitio
  <2>3. Leido(q)'
    <3>1. Head(red) \in Bytes /\ q[Turno] = p[Turno] - 1
        BY <1>1, <1>2, <2>2, ByteSigue
    <3> QED
        BY <1>1, <1>2, <1>3, <1>5, <3>1, GuardaLeido
  <2>4. EnSuSitio(q)'
      BY <1>1, <2>1, <2>2 DEF EnSuSitio
  <2>5. Colocados(q)'
      BY <2>3, <2>4 DEF Colocados
  <2> QED
      BY <1>1, <1>2, <1>5, <2>1, <2>5
<1> QED
    BY <1>4, <1>5 DEF LeeByte

\* At the end of the connection there is one text left, cut if the sender was
\* killed, or none.
LEMMA LeeFinalCortado ==
    ASSUME TypeOK, FinInv, NEW p \in Sitios, Colocados(p),
           Turno <= Len(enviados), red = <<>>
    PROVE  /\ Turno = Len(enviados)
           /\ \E m \in 0 .. Len(enviados[Turno]) : p[Turno] = 0 - m
           /\ resta = <<>> => ~Marcado(Turno) /\ p[Turno] = 0 - Len(enviados[Turno])
<1>1. /\ Len(enviados) \in Nat /\ Turno \in Nat \ {0} /\ Turno \in Turno .. Len(enviados)
      /\ Turno + 1 \in Nat
      /\ EnSuSitio(p) /\ Leido(p) /\ Colocado(p, Turno)
    BY TiposDeTextos DEF Colocados, EnSuSitio
<1>2. Len(red) = 0 /\ Len(resta) \in Nat /\ Len(Sigue) = Len(resta)
    BY TiposDeSigue
<1>3. PICK a \in Int, b \in Int, n \in Nat, c \in {0, 1} :
          /\ p[Turno] = a /\ p[Turno + 1] = b /\ Len(enviados[Turno]) = n
          /\ c = (IF Marcado(Turno) THEN 1 ELSE 0) /\ b = a + n + c /\ a <= 0
  <2>1. p[Turno] \in Int /\ p[Turno + 1] \in Int /\ p[Turno] <= 0 /\ Len(enviados[Turno]) \in Nat
      BY <1>1, TipoDeSitio, TiposDeTextos DEF Leido
  <2>2. p[Turno + 1] = p[Turno] + Len(enviados[Turno]) + (IF Marcado(Turno) THEN 1 ELSE 0)
      BY <1>1 DEF Colocado
  <2> QED
      BY <2>1, <2>2
<1>4. Marcado(Turno) => b > 0
    BY <1>1, <1>3 DEF Colocado
<1>5. Turno = Len(enviados)
  <2>1. SUFFICES ASSUME Turno < Len(enviados) PROVE FALSE
      BY <1>1
  <2>2. Marcado(Turno)
      BY <1>1, <2>1, TiposDeTextos
  <2>3. b <= Len(red)
      BY <1>1, <1>3, <2>1 DEF Colocado
  <2> QED
      BY <1>2, <1>3, <1>4, <2>2, <2>3
<1>6. b = Len(Sigue)
    BY <1>1, <1>3, <1>5 DEF EnSuSitio
<1>7. 0 - a \in 0 .. n /\ a = 0 - (0 - a)
    BY <1>2, <1>3, <1>4, <1>6
<1>8. resta = <<>> => ~Marcado(Turno) /\ a = 0 - n
    BY <1>2, <1>3, <1>4, <1>6
<1> QED
    BY <1>3, <1>5, <1>7, <1>8

LEMMA LectorFinInv ==
    ASSUME TypeOK, FinInv, Lector \/ Deja
    PROVE  FinInv'
<1>1. UNCHANGED <<lectores, enviados, resta, emisor, fin>>
    BY DEF Lector, LeeByte, NoDescifra, LeeFinal, LeeError, Deja, emite
<1>2. lector = "fuera" => lector' = "fuera"
    BY DEF Lector, LeeByte, NoDescifra, LeeFinal, LeeError, Deja, Llamada
<1>3. red = <<>> => red' = red
    BY DEF Lector, LeeByte, NoDescifra, LeeFinal, LeeError, Deja
<1>4. (\A k \in 1 .. Len(enviados) : enviados[k] \in Envios(lectores[k]))'
    BY <1>1 DEF FinInv, Envios
<1> QED
    BY <1>1, <1>2, <1>3, <1>4 DEF FinInv

\* The cases of a step of the reader, with what it finds.
LEMMA PasoDelLector ==
    ASSUME TypeOK, TypeOK', FinInv, Flujo, Lector \/ Deja
    PROVE  \/ /\ LeeByte(lectores[Turno]) /\ fin # "rst" /\ Turno <= Len(enviados)
              /\ \E p \in Sitios : Colocados(p)
           \/ /\ LeeFinal(lectores[Turno]) /\ lectores[Turno] # "readString"
              /\ fin = "fin" /\ lector = "lee" /\ Turno <= Len(lectores)
           \/ /\ UNCHANGED <<lectores, enviados, resta, emisor, fin, buf, recibidos>>
              /\ lector' # "lee"
<1> Turno \in Nat \ {0} /\ Len(enviados) \in Nat
    BY TiposDeTextos
<1>1. ASSUME NEW f \in Lectura, LeeByte(f)
      PROVE  /\ LeeByte(lectores[Turno]) /\ fin # "rst" /\ Turno <= Len(enviados)
             /\ \E p \in Sitios : Colocados(p)
  <2>1. f = lectores[Turno] /\ red # <<>>
      BY <1>1 DEF LeeByte, Llamada
  <2>2. fin # "rst"
      BY <2>1 DEF FinInv
  <2>3. Turno <= Len(enviados) /\ \E p \in Sitios : Colocados(p)
      BY <2>1, <2>2 DEF Flujo
  <2> QED
      BY <1>1, <2>1, <2>2, <2>3
<1>2. ASSUME NEW f \in Lectura, LeeFinal(f), f # "readString"
      PROVE  /\ LeeFinal(lectores[Turno]) /\ lectores[Turno] # "readString"
             /\ fin = "fin" /\ lector = "lee" /\ Turno <= Len(lectores)
    BY <1>2 DEF LeeFinal, Llamada
<1>3. ASSUME \/ \E f \in Lectura : LeeFinal(f) /\ f = "readString"
             \/ \E f \in Lectura : LeeError(f) \/ NoDescifra(f)
             \/ Deja
      PROVE  /\ UNCHANGED <<lectores, enviados, resta, emisor, fin, buf, recibidos>>
             /\ lector' # "lee"
    BY <1>3 DEF LeeFinal, LeeError, NoDescifra, Deja, emite
<1> QED
    BY <1>1, <1>2, <1>3 DEF Lector, Lectura

\* What is left at the end of the connection, for the function that reads it.
LEMMA AlFinal ==
    ASSUME TypeOK, FinInv, Flujo, fin = "fin", lector = "lee", red = <<>>,
           Turno <= Len(lectores)
    PROVE  \/ /\ Turno = Len(enviados)
              /\ \E p \in Sitios :
                    /\ Leido(p)
                    /\ \E m \in 0 .. Len(enviados[Turno]) : p[Turno] = 0 - m
                    /\ emisor # "muerto" =>
                          /\ resta = <<>> /\ ~Marcado(Turno)
                          /\ p[Turno] = 0 - Len(enviados[Turno])
           \/ Turno > Len(enviados) /\ buf = <<>> /\ emisor = "muerto"
<1>1. Turno \in Nat \ {0} /\ Len(enviados) \in Nat /\ Len(lectores) \in Nat
    BY TiposDeTextos
<1>2. emisor # "muerto" => resta = <<>> /\ Len(enviados) = Len(lectores)
    BY DEF FinInv
<1>3. CASE Turno <= Len(enviados)
  <2>1. PICK p \in Sitios : Colocados(p)
      BY <1>1, <1>3 DEF Flujo
  <2>2. /\ Turno = Len(enviados)
        /\ \E m \in 0 .. Len(enviados[Turno]) : p[Turno] = 0 - m
        /\ resta = <<>> => ~Marcado(Turno) /\ p[Turno] = 0 - Len(enviados[Turno])
      BY <1>3, <2>1, LeeFinalCortado
  <2> QED
      BY <1>2, <2>1, <2>2 DEF Colocados
<1>4. CASE ~(Turno <= Len(enviados))
  <2>1. Turno > Len(enviados) /\ buf = <<>>
      BY <1>1, <1>4 DEF Flujo
  <2> QED
      BY <1>1, <1>2, <1>4, <2>1
<1> QED
    BY <1>3, <1>4

LEMMA LectorFlujo ==
    ASSUME TypeOK, TypeOK', FinInv, Flujo, Lector \/ Deja, lector' = "lee"
    PROVE  Flujo'
<1>1. Turno \in Nat \ {0} /\ Len(enviados) \in Nat
    BY TiposDeTextos
<1>2. ASSUME LeeByte(lectores[Turno]), fin # "rst", Turno <= Len(enviados),
             NEW p \in Sitios, Colocados(p)
      PROVE  Flujo'
  <2>1. UNCHANGED <<lectores, enviados, resta, emisor, fin>>
      BY <1>2 DEF LeeByte, emite
  <2>2. /\ Turno' <= Len(enviados') => \E q \in Sitios : Colocados(q)'
        /\ Turno' > Len(enviados') => Len(Sigue') = 0 /\ buf' = <<>>
        /\ Turno' \in {Turno, Turno + 1}
      BY <1>2, LeeByteColocados
  <2>3. CASE Turno' <= Len(enviados')
      BY <2>2, <2>3 DEF Flujo
  <2>4. CASE Turno' > Len(enviados')
    <3>1. red' = <<>> /\ resta' = <<>>
      <4>1. (/\ red \in Seq(Bytes) /\ Len(red) \in Nat
             /\ resta \in Seq(Bytes) /\ Len(resta) \in Nat
             /\ Len(Sigue) = Len(red) + Len(resta))'
          BY TiposDeSigue, PTL
      <4>2. Len(red') = 0 /\ Len(resta') = 0
          BY <2>2, <2>4, <4>1
      <4> QED
          BY <4>1, <4>2, EmptySeq
    <3>2. Turno' = Len(enviados') + 1
        BY <1>1, <1>2, <2>1, <2>2, <2>4
    <3> QED
        BY <2>2, <2>4, <3>1, <3>2 DEF Flujo
  <2> QED
      BY <1>1, <2>1, <2>2, <2>3, <2>4
<1>3. ASSUME LeeFinal(lectores[Turno]), lectores[Turno] # "readString",
             fin = "fin", lector = "lee", Turno <= Len(lectores)
      PROVE  Flujo'
  <2>1. /\ UNCHANGED <<lectores, enviados, resta, emisor, red, fin>> /\ red = <<>>
        /\ buf' = <<>> /\ \E x \in Seq(Bytes) \cup {Nada} : recibidos' = Append(recibidos, x)
      BY <1>3 DEF LeeFinal, emite, Retorna, TypeOK
  <2>2. Turno' = Turno + 1
      BY <2>1, AppendProperties DEF TypeOK, Turno
  <2>3. \/ Turno = Len(enviados) /\ (emisor # "muerto" => resta = <<>>)
        \/ Turno > Len(enviados) /\ emisor = "muerto"
      BY <1>3, <2>1, AlFinal
  <2>4. /\ Turno' > Len(enviados')
        /\ emisor' # "muerto" => resta' = <<>> /\ Turno' = Len(enviados') + 1
      BY <1>1, <2>1, <2>2, <2>3
  <2> QED
      BY <2>1, <2>4 DEF Flujo
<1> QED
    BY <1>2, <1>3, PasoDelLector

-----------------------------------------------------------------------------
(* The texts arrive.                                                       *)

IInv == TypeOK /\ FinInv /\ FlujoInv

LEMMA Invariante == Spec => []IInv
<1>1. IInv /\ [Next]_vars => IInv'
  <2> SUFFICES ASSUME IInv, [Next]_vars PROVE IInv'
      OBVIOUS
  <2>1. TypeOK'
    <3>1. CASE Deja \/ Quieto \/ UNCHANGED vars
        BY <3>1 DEF Deja, Quieto, vars, emite, TypeOK, Turno, IInv
    <3> QED
        BY <3>1, EmisorTypeOK, LectorTypeOK DEF Next, IInv
  <2>2. CASE Emisor \/ Muere
    <3>1. lector' = lector
        BY <2>2 DEF Emisor, Empieza, Escribe, EscribeFalla, Cierra, Muere, lee
    <3> QED
        BY <2>1, <2>2, <3>1, EmisorFinInv, EmisorFlujo DEF IInv, FlujoInv
  <2>3. CASE Lector \/ Deja
    <3>1. lector' = "lee" => lector = "lee"
        BY <2>3 DEF Lector, LeeByte, NoDescifra, LeeFinal, LeeError, Deja
    <3> QED
        BY <2>1, <2>3, <3>1, LectorFinInv, LectorFlujo DEF IInv, FlujoInv
  <2>4. CASE Quieto \/ UNCHANGED vars
    <3>1. UNCHANGED vars
        BY <2>4 DEF Quieto
    <3>2. FinInv'
        BY <3>1 DEF vars, IInv, FinInv, Envios
    <3>3. Sigue' = Sigue /\ Turno' = Turno /\ Len(red) <= Len(red')
        BY <3>1, TiposDeSigue DEF vars, IInv, Sigue, Turno
    <3>4. \A p \in Sitios : Colocados(p) => Colocados(p)'
        BY <2>1, <3>1, <3>3, SigueColocados DEF vars, IInv
    <3>5. FlujoInv'
        BY <3>1, <3>3, <3>4 DEF vars, IInv, FlujoInv, Flujo
    <3> QED
        BY <2>1, <3>2, <3>5 DEF IInv
  <2> QED
      BY <2>2, <2>3, <2>4 DEF Next
<1>2. Init => IInv
    BY InitTypeOK, InitFlujo DEF IInv, FlujoInv
<1> QED
    BY <1>1, <1>2, PTL DEF Spec

\* What a reader that has read m bytes of its text has kept of them.
LEMMA Recortado ==
    ASSUME TypeOK, NEW p \in Sitios, Leido(p), Turno <= Len(enviados),
           NEW m \in 0 .. Len(enviados[Turno]), p[Turno] = 0 - m
    PROVE  /\ buf = Texto!Recorta(SubSeq(enviados[Turno], 1, m))
           /\ m = Len(enviados[Turno]) => buf = Texto!Recorta(enviados[Turno])
<1> DEFINE x == SubSeq(enviados[Turno], 1, m)
           l == lectores[Turno] = "readLine"
<1>1. /\ Turno \in 1 .. Len(enviados) /\ Turno \in 1 .. Len(lectores)
      /\ enviados[Turno] \in Seq(Bytes) /\ Len(enviados[Turno]) \in Nat
      /\ buf \in Seq(Bytes) /\ N \in Nat \ {0} /\ m \in Nat
    BY TiposDeTextos, TiposDeSigue, ComunicacionesAssumption DEF ComunicacionesAssumption
<1>2. /\ x \in Seq(Bytes) /\ Len(x) = m /\ \A j \in 1 .. m : x[j] = enviados[Turno][j]
  <2>1. \A i \in 1 .. m : enviados[Turno][i] \in Bytes
      BY <1>1, ElementOfSeq
  <2> QED
      BY <1>1, <2>1, SubSeqProperties
<1>3. m = Len(enviados[Turno]) => x = enviados[Turno]
    BY <1>1, SubSeqFull
<1> HIDE DEF x
<1>4. /\ Len(buf) = (IF l /\ m >= N THEN N - 1 ELSE m)
      /\ \A j \in 1 .. Len(buf) : buf[j] = x[j]
  <2>1. 0 - p[Turno] = m
      BY <1>1
  <2>2. /\ Len(buf) = (IF l /\ m >= N THEN N - 1 ELSE m)
        /\ \A j \in 1 .. Len(buf) : buf[j] = enviados[Turno][j]
      BY <2>1 DEF Leido
  <2> QED
      BY <1>1, <1>2, <2>2
<1>5. Texto!Turno \in {k \in DOMAIN lectores : lectores[k] = "readLine"} <=> l
  <2>1. Turno \in DOMAIN lectores
      BY <1>1, TiposDeTextos, LenProperties
  <2> QED
      BY <2>1 DEF Texto!Turno, Turno
<1> HIDE DEF l
<1>6. buf = Texto!Recorta(x)
  <2>1. CASE l /\ m >= N
    <3> DEFINE y == SubSeq(x, 1, N - 1)
    <3>1. y \in Seq(Bytes) /\ Len(y) = N - 1 /\ \A j \in 1 .. N - 1 : y[j] = x[j]
      <4>1. \A i \in 1 .. N - 1 : x[i] \in Bytes
          BY <1>1, <1>2, <2>1, ElementOfSeq
      <4> QED
          BY <1>1, <4>1, SubSeqProperties
    <3>2. Texto!Recorta(x) = y
        BY <1>2, <1>5, <2>1 DEF Texto!Recorta
    <3> HIDE DEF y
    <3>3. Len(buf) = Len(y) /\ \A j \in 1 .. Len(buf) : buf[j] = y[j]
        BY <1>4, <2>1, <3>1
    <3> QED
        BY <1>1, <3>1, <3>2, <3>3, SeqEqual
  <2>2. CASE ~(l /\ m >= N)
    <3>1. Texto!Recorta(x) = x
        BY <1>2, <1>5, <2>2 DEF Texto!Recorta
    <3>2. Len(buf) = Len(x)
        BY <1>2, <1>4, <2>2
    <3> QED
        BY <1>1, <1>2, <1>4, <3>1, <3>2, SeqEqual
  <2> QED
      BY <2>1, <2>2
<1> QED
    BY <1>3, <1>6 DEF x

LEMMA EmisorImplementa ==
    ASSUME TypeOK, Emisor \/ Muere
    PROVE  Texto!Next \/ UNCHANGED Texto!vars
<1>1. CASE Empieza
  <2>1. \E x \in Textos : enviados' = Append(enviados, x)
      BY <1>1 DEF Empieza, Envios
  <2>2. UNCHANGED <<lectores, recibidos, emisor>> /\ emisor = "activo"
      BY <1>1 DEF Empieza, lee
  <2> QED
      BY <2>1, <2>2 DEF Texto!Next, Texto!Envia
<1>2. CASE Escribe \/ EscribeFalla \/ Cierra
  <2>1. UNCHANGED <<lectores, enviados, recibidos>> /\ emisor # "muerto" /\ emisor' # "muerto"
      BY <1>2 DEF Escribe, EscribeFalla, Cierra, lee
  <2> QED
      BY <2>1 DEF Texto!vars
<1>3. CASE Muere
  <2>1. UNCHANGED <<lectores, enviados, recibidos>> /\ emisor # "muerto" /\ emisor' = "muerto"
      BY <1>3 DEF Muere, lee
  <2> QED
      BY <2>1 DEF Texto!Next, Texto!Muere
<1> QED
    BY <1>1, <1>2, <1>3 DEF Emisor

LEMMA LectorImplementa ==
    ASSUME TypeOK, TypeOK', FinInv, FlujoInv, Lector \/ Deja
    PROVE  Texto!Next \/ UNCHANGED Texto!vars
<1> USE DEF Texto!Turno
<1>1. ASSUME LeeByte(lectores[Turno]), Turno <= Len(enviados),
             NEW p \in Sitios, Colocados(p)
      PROVE  Texto!Next \/ UNCHANGED Texto!vars
  <2>1. UNCHANGED <<lectores, enviados, emisor>>
      BY <1>1 DEF LeeByte, emite
  <2>2. CASE recibidos' = recibidos
      BY <2>1, <2>2 DEF Texto!vars
  <2>3. CASE recibidos' # recibidos
    <3>1. recibidos' = Append(recibidos, buf) /\ p[Turno] = 0 - Len(enviados[Turno])
        BY <1>1, <2>3, LeeByteColocados
    <3>2. Len(enviados[Turno]) \in 0 .. Len(enviados[Turno])
        BY <1>1, TiposDeTextos
    <3>3. buf = Texto!Recorta(enviados[Turno])
        BY <1>1, <3>1, <3>2, Recortado DEF Colocados
    <3> QED
        BY <1>1, <2>1, <3>1, <3>3 DEF Texto!Next, Texto!Entrega, Turno
  <2> QED
      BY <2>2, <2>3
<1>2. ASSUME LeeFinal(lectores[Turno]), lectores[Turno] # "readString",
             fin = "fin", lector = "lee", Turno <= Len(lectores)
      PROVE  Texto!Next
  <2> Flujo
      BY <1>2 DEF FlujoInv
  <2>1. /\ UNCHANGED <<lectores, enviados, emisor>> /\ red = <<>>
        /\ recibidos' = Append(recibidos, IF Final(lectores[Turno]) THEN Nada ELSE buf)
      BY <1>2 DEF LeeFinal, emite, Retorna
  <2>2. Turno \in Nat \ {0} /\ Len(enviados) \in Nat
      BY TiposDeTextos
  <2>3. CASE Turno = Len(enviados)
    <3>1. PICK p \in Sitios, m \in 0 .. Len(enviados[Turno]) :
              /\ Leido(p) /\ p[Turno] = 0 - m
              /\ emisor # "muerto" => ~Marcado(Turno) /\ p[Turno] = 0 - Len(enviados[Turno])
        BY <1>2, <2>1, <2>3, AlFinal
    <3>2. /\ buf = Texto!Recorta(SubSeq(enviados[Turno], 1, m))
          /\ m = Len(enviados[Turno]) => buf = Texto!Recorta(enviados[Turno])
        BY <2>2, <2>3, <3>1, Recortado
    <3>3. CASE emisor # "muerto"
      <4>1. m = Len(enviados[Turno])
          BY <2>2, <2>3, <3>1, <3>3, TiposDeTextos
      <4>2. ~Final(lectores[Turno])
          BY <3>1, <3>3 DEF Final, Marcado
      <4> QED
          BY <2>1, <2>2, <2>3, <3>2, <4>1, <4>2 DEF Texto!Next, Texto!Entrega, Turno
    <3>4. CASE emisor = "muerto" /\ Final(lectores[Turno])
        BY <2>1, <2>2, <2>3, <3>4 DEF Texto!Next, Texto!EntregaNada, Turno
    <3>5. CASE emisor = "muerto" /\ ~Final(lectores[Turno])
      <4>1. enviados # <<>>
          BY <2>2, <2>3
      <4> QED
          BY <2>1, <2>3, <3>1, <3>2, <3>5, <4>1
          DEF Texto!Next, Texto!EntregaCortado, Turno
    <3> QED
        BY <3>3, <3>4, <3>5
  <2>4. CASE Turno > Len(enviados) /\ buf = <<>> /\ emisor = "muerto"
      BY <2>1, <2>2, <2>4 DEF Texto!Next, Texto!EntregaNada, Turno
  <2> QED
      BY <1>2, <2>1, <2>3, <2>4, AlFinal
<1>3. ASSUME UNCHANGED <<lectores, enviados, resta, emisor, fin, buf, recibidos>>
      PROVE  UNCHANGED Texto!vars
    BY <1>3 DEF Texto!vars
<1>4. CASE Lector
  <2>1. Flujo
      BY <1>4 DEF FlujoInv, Lector, LeeByte, NoDescifra, LeeFinal, LeeError, Llamada
  <2> QED
      BY <1>1, <1>2, <1>3, <2>1, PasoDelLector
<1>5. CASE Deja
  <2>1. UNCHANGED <<lectores, enviados, resta, emisor, fin, buf, recibidos>>
      BY <1>5 DEF Deja, emite
  <2> QED
      BY <1>3, <2>1
<1> QED
    BY <1>4, <1>5

\* The number, the order and the contents of the texts survive short writes,
\* full sockets and lines longer than the buffer, for any texts, any size of the
\* buffer and of the sockets, and any number of calls; a sender that is killed
\* cuts the text it is sending and no other (communications.c 107-116, 161-194;
\* client.py 695-717).
THEOREM TextsArrive == Spec => ImplementsLineas
<1>1. Init => Texto!Init
  <2> SUFFICES ASSUME Init PROVE Texto!Init
      OBVIOUS
  <2>1. lectores \in Seq(Lectura)
      BY ComunicacionesAssumption DEF Init, ComunicacionesAssumption, Lectura
  <2>2. DOMAIN lectores \subseteq Nat
      BY <2>1, LenProperties
  <2> QED
      BY <2>2 DEF Init, Texto!Init
<1>2. IInv /\ IInv' /\ [Next]_vars => [Texto!Next]_(Texto!vars)
  <2> SUFFICES ASSUME IInv, IInv', [Next]_vars PROVE Texto!Next \/ UNCHANGED Texto!vars
      OBVIOUS
  <2> USE DEF IInv
  <2>1. CASE Emisor \/ Muere
      BY <2>1, EmisorImplementa
  <2>2. CASE Lector \/ Deja
      BY <2>2, LectorImplementa
  <2>3. CASE Quieto \/ UNCHANGED vars
      BY <2>3 DEF Quieto, vars, Texto!vars
  <2> QED
      BY <2>1, <2>2, <2>3 DEF Next
<1> QED
    BY <1>1, <1>2, Invariante, PTL DEF Spec, ImplementsLineas, Texto!Spec
=============================================================================
