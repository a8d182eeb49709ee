--------------------------- MODULE AlmacenProofs ---------------------------
(***************************************************************************)
(* What the operators of modules Almacen and Atencion return, for every    *)
(* store.                                                                  *)
(***************************************************************************)
EXTENDS Atencion, SequenceTheorems, WellFoundedInduction, TLAPS

\* Removing element i leaves a sequence that is one shorter, with the last
\* element in place of i and every other element where it was.
LEMMA QuitarProps ==
    ASSUME NEW S, NEW s \in Seq(S), NEW i \in 1 .. Len(s)
    PROVE  /\ Quitar(s, i) \in Seq(S)
           /\ Len(Quitar(s, i)) = Len(s) - 1
           /\ \A j \in 1 .. Len(s) - 1 :
                 Quitar(s, i)[j] = IF j = i THEN s[Len(s)] ELSE s[j]
<1> DEFINE n == Len(s) - 1
<1>1. Len(s) \in Nat /\ n \in Nat
    BY LenProperties
<1>2. \A j \in 1 .. n : (IF j = i THEN s[Len(s)] ELSE s[j]) \in S
    BY <1>1, ElementOfSeq
<1>3. Quitar(s, i) \in [1 .. n -> S]
    BY <1>2 DEF Quitar
<1>4. Quitar(s, i) \in Seq(S)
    BY <1>1, <1>3, SeqDef
<1>5. DOMAIN Quitar(s, i) = 1 .. Len(Quitar(s, i)) /\ Len(Quitar(s, i)) \in Nat
    BY <1>4, LenProperties
<1>6. DOMAIN Quitar(s, i) = 1 .. n
    BY <1>3
<1>7. Len(Quitar(s, i)) = n
    BY <1>1, <1>5, <1>6
<1> QED
    BY <1>4, <1>7 DEF Quitar

\* Where an element of the sequence without i comes from: two different
\* places of the new sequence come from two different places of the old one.
LEMMA QuitarOrigen ==
    ASSUME NEW S, NEW s \in Seq(S), NEW i \in 1 .. Len(s)
    PROVE  \E g \in [1 .. Len(s) - 1 -> 1 .. Len(s)] :
              /\ \A j \in 1 .. Len(s) - 1 : Quitar(s, i)[j] = s[g[j]] /\ g[j] # i
              /\ \A j, k \in 1 .. Len(s) - 1 : g[j] = g[k] => j = k
<1>1. Len(s) \in Nat
    BY LenProperties
<1> DEFINE g == [j \in 1 .. Len(s) - 1 |-> IF j = i THEN Len(s) ELSE j]
<1>2. g \in [1 .. Len(s) - 1 -> 1 .. Len(s)]
    BY <1>1
<1>3. \A j \in 1 .. Len(s) - 1 : Quitar(s, i)[j] = s[g[j]] /\ g[j] # i
    BY <1>1, QuitarProps
<1>4. \A j, k \in 1 .. Len(s) - 1 : g[j] = g[k] => j = k
    BY <1>1
<1> QED
    BY <1>2, <1>3, <1>4

\* unregister keeps names unique, and the removed user is then unknown: the
\* tuple that is moved over it is another user's.
THEOREM QuitarNombres ==
    ASSUME NEW a \in Seq(Tupla), NEW i \in 1 .. Len(a), NombresUnicos(a)
    PROVE  /\ NombresUnicos(Quitar(a, i))
           /\ ~Registrado(Quitar(a, i), a[i].cliente)
<1>1. Len(Quitar(a, i)) = Len(a) - 1 /\ Len(a) \in Nat
    BY QuitarProps, LenProperties
<1>2. PICK g \in [1 .. Len(a) - 1 -> 1 .. Len(a)] :
         /\ \A j \in 1 .. Len(a) - 1 : Quitar(a, i)[j] = a[g[j]] /\ g[j] # i
         /\ \A j, k \in 1 .. Len(a) - 1 : g[j] = g[k] => j = k
    BY QuitarOrigen
<1>3. NombresUnicos(Quitar(a, i))
    <2> SUFFICES ASSUME NEW j \in 1 .. Len(a) - 1, NEW k \in 1 .. Len(a) - 1,
                        Quitar(a, i)[j].cliente = Quitar(a, i)[k].cliente
                 PROVE  j = k
        BY <1>1 DEF NombresUnicos
    <2>1. a[g[j]].cliente = a[g[k]].cliente
        BY <1>2
    <2>2. g[j] \in 1 .. Len(a) /\ g[k] \in 1 .. Len(a)
        BY <1>2
    <2>3. g[j] = g[k]
        BY <2>1, <2>2 DEF NombresUnicos
    <2> QED
        BY <1>2, <2>3
<1>4. ~Registrado(Quitar(a, i), a[i].cliente)
    <2> SUFFICES ASSUME NEW j \in 1 .. Len(a) - 1,
                        Quitar(a, i)[j].cliente = a[i].cliente
                 PROVE  FALSE
        BY <1>1 DEF Registrado
    <2>1. g[j] \in 1 .. Len(a) /\ a[g[j]].cliente = a[i].cliente /\ g[j] # i
        BY <1>2
    <2> QED
        BY <2>1 DEF NombresUnicos
<1> QED
    BY <1>3, <1>4

\* delete keeps the file names of a tuple unique.
LEMMA QuitarFicheros ==
    ASSUME NEW t, t.files \in Seq(Fichero), FicherosUnicos(t),
           NEW k \in 1 .. Len(t.files)
    PROVE  \A i, j \in 1 .. Len(Quitar(t.files, k)) :
              Quitar(t.files, k)[i].name = Quitar(t.files, k)[j].name => i = j
<1> DEFINE f == t.files
<1>1. Len(Quitar(f, k)) = Len(f) - 1 /\ Len(f) \in Nat
    BY QuitarProps, LenProperties
<1>2. PICK g \in [1 .. Len(f) - 1 -> 1 .. Len(f)] :
         /\ \A j \in 1 .. Len(f) - 1 : Quitar(f, k)[j] = f[g[j]] /\ g[j] # k
         /\ \A i, j \in 1 .. Len(f) - 1 : g[i] = g[j] => i = j
    BY QuitarOrigen
<1> SUFFICES ASSUME NEW i \in 1 .. Len(f) - 1, NEW j \in 1 .. Len(f) - 1,
                    Quitar(f, k)[i].name = Quitar(f, k)[j].name
             PROVE  i = j
    BY <1>1
<1>3. f[g[i]].name = f[g[j]].name
    BY <1>2
<1>4. g[i] \in 1 .. Len(f) /\ g[j] \in 1 .. Len(f)
    BY <1>2
<1>5. g[i] = g[j]
    BY <1>3, <1>4 DEF FicherosUnicos
<1> QED
    BY <1>2, <1>5

\* publish of a name that is not there keeps the file names unique.
LEMMA PublicarFicheros ==
    ASSUME NEW t, t.files \in Seq(Fichero), FicherosUnicos(t),
           NEW f \in Files, NEW d \in Descrs, ~Publicado(t, f)
    PROVE  LET s == Append(t.files, [name |-> f, descr |-> d])
           IN  \A i, j \in 1 .. Len(s) : s[i].name = s[j].name => i = j
<1> DEFINE e == [name |-> f, descr |-> d]
           s == Append(t.files, e)
<1>1. e \in Fichero
    BY DEF Fichero
<1>2. /\ Len(s) = Len(t.files) + 1
      /\ \A i \in 1 .. Len(t.files) : s[i] = t.files[i]
      /\ s[Len(t.files) + 1] = e
    BY <1>1, AppendProperties
<1>3. Len(t.files) \in Nat
    BY LenProperties
<1>4. e.name = f
    OBVIOUS
<1> HIDE DEF e, s
<1>5. \A i \in 1 .. Len(t.files) : s[i].name # f
    BY <1>2 DEF Publicado
<1>6. ASSUME NEW i \in 1 .. Len(s), NEW j \in 1 .. Len(s), s[i].name = s[j].name
      PROVE  i = j
    <2>1. CASE i \in 1 .. Len(t.files) /\ j \in 1 .. Len(t.files)
        <3>1. t.files[i].name = t.files[j].name
            BY <1>2, <1>6, <2>1
        <3> QED
            BY <2>1, <3>1 DEF FicherosUnicos
    <2>2. CASE i = Len(s)
        BY <1>2, <1>3, <1>4, <1>5, <1>6, <2>2
    <2>3. CASE j = Len(s)
        BY <1>2, <1>3, <1>4, <1>5, <1>6, <2>3
    <2> QED
        BY <1>2, <1>3, <2>1, <2>2, <2>3
<1> QED
    BY <1>6 DEF e, s

\* After the removal of element i the others are still there.
LEMMA QuedaAlQuitar ==
    ASSUME NEW S, NEW s \in Seq(S), NEW i \in 1 .. Len(s),
           NEW j \in 1 .. Len(s), j # i
    PROVE  \E k \in 1 .. Len(Quitar(s, i)) : Quitar(s, i)[k] = s[j]
<1>1. Len(s) \in Nat
    BY LenProperties
<1>2. /\ Len(Quitar(s, i)) = Len(s) - 1
      /\ \A k \in 1 .. Len(s) - 1 :
            Quitar(s, i)[k] = IF k = i THEN s[Len(s)] ELSE s[k]
    BY QuitarProps
<1>3. CASE j = Len(s)
    <2>1. i \in 1 .. Len(s) - 1
        BY <1>1, <1>3
    <2> QED
        BY <1>2, <1>3, <2>1
<1>4. CASE j # Len(s)
    <2>1. j \in 1 .. Len(s) - 1
        BY <1>1, <1>4
    <2> QED
        BY <1>2, <2>1
<1> QED
    BY <1>3, <1>4

-----------------------------------------------------------------------------
(* Sound stores.                                                           *)

\* What is asked of a tuple of a sound store.
Sano(t) == t \in Tupla /\ FicherosUnicos(t) /\ (t.connected = 1 => t.addr # NoAddr)

LEMMA SolidoSano ==
    ASSUME NEW a \in Seq(Tupla)
    PROVE  Solido(a) <=> \A i \in 1 .. Len(a) : Sano(a[i])
<1>1. \A i \in 1 .. Len(a) : a[i] \in Tupla
    BY ElementOfSeq
<1> QED
    BY <1>1 DEF Solido, Sano

LEMMA SanaCambiada ==
    ASSUME NEW t, Sano(t)
    PROVE  /\ \A ad \in Addrs : Sano([t EXCEPT !.connected = 1, !.addr = ad])
           /\ Sano([t EXCEPT !.connected = 0])
           /\ \A fs \in Seq(Fichero) :
                 (\A i, j \in 1 .. Len(fs) : fs[i].name = fs[j].name => i = j) =>
                     Sano([t EXCEPT !.files = fs])
<1>1. t \in Tupla
    BY DEF Sano
<1>2. ASSUME NEW ad \in Addrs PROVE Sano([t EXCEPT !.connected = 1, !.addr = ad])
    BY <1>1, AlmacenAssumption DEF Sano, Tupla, FicherosUnicos, AlmacenAssumption
<1>3. Sano([t EXCEPT !.connected = 0])
    BY <1>1 DEF Sano, Tupla, FicherosUnicos
<1>4. ASSUME NEW fs \in Seq(Fichero),
             \A i, j \in 1 .. Len(fs) : fs[i].name = fs[j].name => i = j
      PROVE  Sano([t EXCEPT !.files = fs])
  <2>1. /\ [t EXCEPT !.files = fs] \in Tupla /\ [t EXCEPT !.files = fs].files = fs
        /\ [t EXCEPT !.files = fs].connected = t.connected
        /\ [t EXCEPT !.files = fs].addr = t.addr
      BY <1>1 DEF Tupla
  <2> QED
      BY <1>4, <2>1 DEF Sano, FicherosUnicos
<1> QED
    BY <1>2, <1>3, <1>4

LEMMA SolidoCambiado ==
    ASSUME NEW a, Solido(a), NEW i \in 1 .. Len(a), NEW t, Sano(t)
    PROVE  Solido([a EXCEPT ![i] = t])
<1>1. a \in Seq(Tupla) /\ t \in Tupla /\ Len(a) \in Nat
    BY LenProperties DEF Solido, Sano
<1>2. /\ [a EXCEPT ![i] = t] \in Seq(Tupla) /\ Len([a EXCEPT ![i] = t]) = Len(a)
      /\ \A j \in 1 .. Len(a) : [a EXCEPT ![i] = t][j] = IF j = i THEN t ELSE a[j]
    BY <1>1, ExceptSeq
<1>3. \A j \in 1 .. Len(a) : Sano(a[j])
    BY <1>1, SolidoSano
<1> QED
    BY <1>2, <1>3, SolidoSano

-----------------------------------------------------------------------------
(* The store as a directory.                                               *)

\* Two functions with one domain and the same values are the same.
LEMMA Extensional ==
    ASSUME NEW f, NEW g, f = [x \in DOMAIN f |-> f[x]],
           g = [x \in DOMAIN g |-> g[x]], DOMAIN f = DOMAIN g,
           \A x \in DOMAIN f : f[x] = g[x]
    PROVE  f = g
    OBVIOUS

\* A table with another entry for u, another field in it, or without it.
Pon(d, u, e) == [d EXCEPT ![u] = e]
PonAddr(d, u, a) == [d EXCEPT ![u].addr = a]
PonFiles(d, u, q) == [d EXCEPT ![u].files = q]
Sin(d, u) == [v \in DOMAIN d \ {u} |-> d[v]]

LEMMA DominioDirectorio ==
    ASSUME NEW a
    PROVE  /\ DOMAIN DirectorioDe(a) = {a[i].cliente : i \in 1 .. Len(a)}
           /\ \A u : u \in DOMAIN DirectorioDe(a) <=> Registrado(a, u)
           /\ DirectorioDe(a) = [u \in DOMAIN DirectorioDe(a) |-> DirectorioDe(a)[u]]
    BY DEF DirectorioDe, Registrado

\* The directory holds the tuple of each user.
LEMMA EntradaDeTupla ==
    ASSUME NEW a, NombresUnicos(a), NEW i \in 1 .. Len(a)
    PROVE  DirectorioDe(a)[a[i].cliente] = EntradaDe(a[i])
<1> DEFINE u == a[i].cliente
           k == CHOOSE j \in 1 .. Len(a) : a[j].cliente = u
<1>1. k \in 1 .. Len(a) /\ a[k].cliente = u
    OBVIOUS
<1>2. k = i
    BY <1>1 DEF NombresUnicos
<1>3. u \in {a[j].cliente : j \in 1 .. Len(a)}
    OBVIOUS
<1>4. DirectorioDe(a)[u] = EntradaDe(a[k])
    BY <1>3 DEF DirectorioDe
<1> QED
    BY <1>2, <1>4

LEMMA DominioFicheros ==
    ASSUME NEW x
    PROVE  /\ DOMAIN FicherosDe(x) = {x.files[k].name : k \in 1 .. Len(x.files)}
           /\ \A f : f \in DOMAIN FicherosDe(x) <=> Publicado(x, f)
           /\ FicherosDe(x) = [f \in DOMAIN FicherosDe(x) |-> FicherosDe(x)[f]]
    BY DEF FicherosDe, Publicado

\* The file table holds the description of each file.
LEMMA DescripcionDe ==
    ASSUME NEW x, FicherosUnicos(x), NEW k \in 1 .. Len(x.files)
    PROVE  FicherosDe(x)[x.files[k].name] = x.files[k].descr
<1> DEFINE f == x.files[k].name
           j == CHOOSE l \in 1 .. Len(x.files) : x.files[l].name = f
<1>1. j \in 1 .. Len(x.files) /\ x.files[j].name = f
    OBVIOUS
<1>2. j = k
    BY <1>1 DEF FicherosUnicos
<1>3. f \in {x.files[l].name : l \in 1 .. Len(x.files)}
    OBVIOUS
<1>4. FicherosDe(x)[f] = x.files[j].descr
    BY <1>3 DEF FicherosDe
<1> QED
    BY <1>2, <1>4

LEMMA CamposEntrada ==
    ASSUME NEW x
    PROVE  /\ EntradaDe(x).addr = IF x.connected = 1 THEN x.addr ELSE NoAddr
           /\ EntradaDe(x).files = FicherosDe(x)
    BY DEF EntradaDe

-----------------------------------------------------------------------------
(* What the updates of the store are in the directory.                     *)

\* Changing a tuple in place changes one entry.
LEMMA DirectorioCambiado ==
    ASSUME NEW a \in Seq(Tupla), NombresUnicos(a), NEW i \in 1 .. Len(a),
           NEW x \in Tupla, x.cliente = a[i].cliente,
           NEW b, b = [a EXCEPT ![i] = x]
    PROVE  DirectorioDe(b) = [DirectorioDe(a) EXCEPT ![a[i].cliente] = EntradaDe(x)]
<1> DEFINE u == a[i].cliente
           d == DirectorioDe(a)
           e == DirectorioDe(b)
           g == [d EXCEPT ![u] = EntradaDe(x)]
<1>1. Len(a) \in Nat
    BY LenProperties
<1>2. /\ Len(b) = Len(a)
      /\ \A j \in 1 .. Len(a) : b[j] = IF j = i THEN x ELSE a[j]
    BY ExceptSeq
<1>3. \A j \in 1 .. Len(a) : b[j].cliente = a[j].cliente
    BY <1>2
<1>4. NombresUnicos(b)
    BY <1>2, <1>3 DEF NombresUnicos
<1>5. DOMAIN e = DOMAIN d
    <2>1. \A v : Registrado(b, v) <=> Registrado(a, v)
        BY <1>2, <1>3 DEF Registrado
    <2>2. \A v : v \in DOMAIN d <=> Registrado(a, v)
        BY DominioDirectorio
    <2>3. \A v : v \in DOMAIN e <=> Registrado(b, v)
        BY DominioDirectorio
    <2> HIDE DEF d, e
    <2> QED
        BY <2>1, <2>2, <2>3
<1>6. \A j \in 1 .. Len(a) : e[a[j].cliente] = EntradaDe(b[j])
    <2>1. \A j \in 1 .. Len(b) : e[b[j].cliente] = EntradaDe(b[j])
        BY <1>4, EntradaDeTupla
    <2> QED
        BY <1>2, <1>3, <2>1
<1>7. \A j \in 1 .. Len(a) : d[a[j].cliente] = EntradaDe(a[j])
    BY EntradaDeTupla
<1>8. DOMAIN d = {a[j].cliente : j \in 1 .. Len(a)}
    BY DominioDirectorio
<1>9. /\ e = [v \in DOMAIN e |-> e[v]]
      /\ d = [v \in DOMAIN d |-> d[v]]
    BY DominioDirectorio
<1> HIDE DEF d, e
<1>10. /\ DOMAIN g = DOMAIN d
       /\ g = [v \in DOMAIN g |-> g[v]]
       /\ \A v \in DOMAIN d : g[v] = IF v = u THEN EntradaDe(x) ELSE d[v]
    BY <1>9
<1>11. ASSUME NEW v \in DOMAIN e PROVE e[v] = g[v]
    <2>1. PICK j \in 1 .. Len(a) : v = a[j].cliente
        BY <1>5, <1>8
    <2>2. CASE j = i
        BY <1>2, <1>5, <1>6, <1>10, <2>1, <2>2
    <2>3. CASE j # i
        <3>1. v # u
            BY <2>1, <2>3 DEF NombresUnicos
        <3>2. e[v] = EntradaDe(a[j])
            BY <1>2, <1>6, <2>1, <2>3
        <3> QED
            BY <1>5, <1>7, <1>10, <2>1, <3>1, <3>2
    <2> QED
        BY <2>2, <2>3
<1> HIDE DEF g
<1>12. e = g
    BY <1>5, <1>9, <1>10, <1>11, Extensional
<1> QED
    BY <1>12 DEF d, e, g

\* Registering a new name adds an entry without address and files.
LEMMA DirectorioAlta ==
    ASSUME NEW a \in Seq(Tupla), NombresUnicos(a), NEW u \in Users,
           ~Registrado(a, u), NEW b, b = Append(a, TuplaVacia(u))
    PROVE  DirectorioDe(b) =
              R!Put(DirectorioDe(a), u, [addr |-> NoAddr, files |-> [f \in {} |-> {}]])
<1> DEFINE x == TuplaVacia(u)
           vacia == [addr |-> NoAddr, files |-> [f \in {} |-> {}]]
           d == DirectorioDe(a)
           e == DirectorioDe(b)
           g == R!Put(d, u, vacia)
<1>1. Len(a) \in Nat
    BY LenProperties
<1>2. x.cliente = u /\ x.files = <<>> /\ x.connected = 0
    BY DEF TuplaVacia
<1>3. EntradaDe(x) = vacia
    <2>1. FicherosDe(x) = [f \in {} |-> {}]
        <3>1. DOMAIN FicherosDe(x) = {}
            <4>1. DOMAIN FicherosDe(x) = {x.files[k].name : k \in 1 .. Len(x.files)}
                BY DominioFicheros
            <4>2. 1 .. Len(x.files) = {}
                BY <1>2, EmptySeq
            <4> HIDE DEF x
            <4> QED
                BY <4>1, <4>2
        <3>2. FicherosDe(x) = [f \in DOMAIN FicherosDe(x) |-> FicherosDe(x)[f]]
            BY DominioFicheros
        <3> QED
            BY <3>1, <3>2
    <2> QED
        BY <1>2, <2>1 DEF EntradaDe
<1>4. x \in Tupla
    BY EmptySeq DEF TuplaVacia, Tupla
<1> HIDE DEF x, vacia
<1>5. /\ Len(b) = Len(a) + 1
      /\ \A j \in 1 .. Len(a) : b[j] = a[j]
      /\ b[Len(a) + 1] = x
    BY <1>4, AppendProperties DEF x
<1>6. \A j \in 1 .. Len(a) : a[j].cliente # u
    BY DEF Registrado
<1>7. NombresUnicos(b)
    BY <1>1, <1>2, <1>5, <1>6 DEF NombresUnicos
<1>8. \A v : Registrado(b, v) <=> Registrado(a, v) \/ v = u
    <2>1. \A j \in 1 .. Len(b) : j \in 1 .. Len(a) \/ j = Len(a) + 1
        BY <1>1, <1>5
    <2>2. Len(a) + 1 \in 1 .. Len(b) /\ \A j \in 1 .. Len(a) : j \in 1 .. Len(b)
        BY <1>1, <1>5
    <2> QED
        BY <1>2, <1>5, <2>1, <2>2 DEF Registrado
<1>9. /\ \A v : v \in DOMAIN d <=> Registrado(a, v)
      /\ DOMAIN d = {a[j].cliente : j \in 1 .. Len(a)}
      /\ \A v : v \in DOMAIN e <=> Registrado(b, v)
      /\ e = [v \in DOMAIN e |-> e[v]]
    BY DominioDirectorio
<1>10. \A j \in 1 .. Len(b) : e[b[j].cliente] = EntradaDe(b[j])
    BY <1>7, EntradaDeTupla
<1>11. \A j \in 1 .. Len(a) : d[a[j].cliente] = EntradaDe(a[j])
    BY EntradaDeTupla
<1> HIDE DEF d, e
<1>12. /\ DOMAIN g = DOMAIN d \cup {u}
       /\ g = [v \in DOMAIN g |-> g[v]]
       /\ \A v \in DOMAIN d \cup {u} : g[v] = IF v = u THEN vacia ELSE d[v]
    BY DEF R!Put
<1>13. DOMAIN e = DOMAIN g
    BY <1>8, <1>9, <1>12
<1>14. ASSUME NEW v \in DOMAIN e PROVE e[v] = g[v]
    <2>1. CASE v = u
        <3>1. Len(a) + 1 \in 1 .. Len(b)
            BY <1>1, <1>5
        <3>2. e[u] = EntradaDe(x)
            BY <1>2, <1>5, <1>10, <3>1
        <3> QED
            BY <1>3, <1>12, <2>1, <3>2
    <2>2. CASE v # u
        <3>1. PICK j \in 1 .. Len(a) : v = a[j].cliente
            BY <1>9, <1>12, <1>13, <2>2
        <3>2. j \in 1 .. Len(b) /\ b[j] = a[j]
            BY <1>1, <1>5
        <3> QED
            BY <1>10, <1>11, <1>12, <1>13, <2>2, <3>1, <3>2
    <2> QED
        BY <2>1, <2>2
<1> HIDE DEF g
<1>15. e = g
    BY <1>9, <1>12, <1>13, <1>14, Extensional
<1> QED
    BY <1>15 DEF d, e, g, vacia

\* Unregistering takes one entry away.
LEMMA DirectorioBaja ==
    ASSUME NEW a \in Seq(Tupla), NombresUnicos(a), NEW i \in 1 .. Len(a)
    PROVE  DirectorioDe(Quitar(a, i)) =
              Sin(DirectorioDe(a), a[i].cliente)
<1> DEFINE u == a[i].cliente
           b == Quitar(a, i)
           d == DirectorioDe(a)
           e == DirectorioDe(b)
           g == [v \in DOMAIN d \ {u} |-> d[v]]
<1>1. b \in Seq(Tupla) /\ Len(b) = Len(a) - 1
    BY QuitarProps
<1>2. PICK h \in [1 .. Len(a) - 1 -> 1 .. Len(a)] :
         /\ \A j \in 1 .. Len(a) - 1 : b[j] = a[h[j]] /\ h[j] # i
         /\ \A j, k \in 1 .. Len(a) - 1 : h[j] = h[k] => j = k
    BY QuitarOrigen
<1>3. NombresUnicos(b) /\ ~Registrado(b, u)
    BY QuitarNombres
<1>4. \A j \in 1 .. Len(a) : j # i => \E k \in 1 .. Len(b) : b[k] = a[j]
    BY QuedaAlQuitar
<1>5. \A v : Registrado(b, v) <=> Registrado(a, v) /\ v # u
    <2>1. ASSUME NEW v, Registrado(b, v) PROVE Registrado(a, v)
        BY <1>1, <1>2, <2>1 DEF Registrado
    <2>2. ASSUME NEW v, Registrado(a, v), v # u PROVE Registrado(b, v)
        BY <1>4, <2>2 DEF Registrado
    <2> QED
        BY <1>3, <2>1, <2>2
<1>6. /\ \A v : v \in DOMAIN d <=> Registrado(a, v)
      /\ \A v : v \in DOMAIN e <=> Registrado(b, v)
      /\ DOMAIN e = {b[j].cliente : j \in 1 .. Len(b)}
      /\ e = [v \in DOMAIN e |-> e[v]]
    BY DominioDirectorio
<1>7. \A j \in 1 .. Len(b) : e[b[j].cliente] = EntradaDe(b[j])
    BY <1>3, EntradaDeTupla
<1>8. \A j \in 1 .. Len(a) : d[a[j].cliente] = EntradaDe(a[j])
    BY EntradaDeTupla
<1> HIDE DEF b, d, e
<1>9. DOMAIN e = DOMAIN g
    BY <1>5, <1>6
<1>10. ASSUME NEW v \in DOMAIN e PROVE e[v] = g[v]
    <2>1. PICK j \in 1 .. Len(b) : v = b[j].cliente
        BY <1>6
    <2>2. h[j] \in 1 .. Len(a) /\ b[j] = a[h[j]]
        BY <1>1, <1>2
    <2> QED
        BY <1>7, <1>8, <1>9, <2>1, <2>2
<1>11. g = [v \in DOMAIN g |-> g[v]]
    OBVIOUS
<1> HIDE DEF g
<1>12. e = g
    BY <1>6, <1>9, <1>10, <1>11, Extensional
<1> QED
    BY <1>12 DEF b, d, e, g, Sin

\* Publishing a new name adds it to the file table.
LEMMA FicherosAlta ==
    ASSUME NEW x, x.files \in Seq(Fichero), FicherosUnicos(x),
           NEW f \in Files, NEW c \in Descrs, ~Publicado(x, f),
           NEW y, y.files = Append(x.files, [name |-> f, descr |-> c])
    PROVE  FicherosDe(y) = R!Put(FicherosDe(x), f, c)
<1> DEFINE n == Len(x.files)
           z == [name |-> f, descr |-> c]
           d == FicherosDe(x)
           e == FicherosDe(y)
           g == R!Put(d, f, c)
<1>1. n \in Nat
    BY LenProperties
<1>2. z \in Fichero /\ z.name = f /\ z.descr = c
    BY DEF Fichero
<1> HIDE DEF z
<1>3. /\ Len(y.files) = n + 1
      /\ \A j \in 1 .. n : y.files[j] = x.files[j]
      /\ y.files[n + 1] = z
    BY <1>2, AppendProperties DEF z
<1> HIDE DEF n
<1>4. \A j \in 1 .. n : x.files[j].name # f
    BY DEF Publicado, n
<1>5. \A j \in 1 .. n + 1 : j \in 1 .. n \/ j = n + 1
    BY <1>1
<1>6. n + 1 \in 1 .. n + 1 /\ \A j \in 1 .. n : j \in 1 .. n + 1
    BY <1>1
<1>7. FicherosUnicos(y)
    <2> SUFFICES ASSUME NEW j \in 1 .. n + 1, NEW k \in 1 .. n + 1,
                        y.files[j].name = y.files[k].name
                 PROVE  j = k
        BY <1>3 DEF FicherosUnicos
    <2>1. CASE j \in 1 .. n /\ k \in 1 .. n
        BY <1>3, <2>1 DEF FicherosUnicos, n
    <2>2. CASE j = n + 1 \/ k = n + 1
        BY <1>2, <1>3, <1>4, <1>5, <2>2
    <2> QED
        BY <1>5, <2>1, <2>2
<1>8. /\ \A v : v \in DOMAIN d <=> Publicado(x, v)
      /\ \A v : v \in DOMAIN e <=> Publicado(y, v)
      /\ DOMAIN e = {y.files[j].name : j \in 1 .. n + 1}
      /\ e = [v \in DOMAIN e |-> e[v]]
    BY <1>3, DominioFicheros
<1>9. \A v : Publicado(y, v) <=> Publicado(x, v) \/ v = f
    BY <1>2, <1>3, <1>5, <1>6 DEF Publicado, n
<1>10. \A j \in 1 .. n + 1 : e[y.files[j].name] = y.files[j].descr
    BY <1>3, <1>7, DescripcionDe
<1>11. \A j \in 1 .. n : d[x.files[j].name] = x.files[j].descr
    BY DescripcionDe DEF n
<1> HIDE DEF d, e
<1>12. /\ DOMAIN g = DOMAIN d \cup {f}
       /\ g = [v \in DOMAIN g |-> g[v]]
       /\ \A v \in DOMAIN d \cup {f} : g[v] = IF v = f THEN c ELSE d[v]
    BY DEF R!Put
<1>13. DOMAIN e = DOMAIN g
    BY <1>8, <1>9, <1>12
<1>14. ASSUME NEW v \in DOMAIN e PROVE e[v] = g[v]
    <2>1. PICK j \in 1 .. n + 1 : v = y.files[j].name
        BY <1>8
    <2>2. CASE j = n + 1
        BY <1>2, <1>3, <1>10, <1>12, <1>13, <2>1, <2>2
    <2>3. CASE j \in 1 .. n
        <3>1. v # f /\ e[v] = x.files[j].descr
            BY <1>3, <1>4, <1>10, <2>1, <2>3
        <3>2. d[v] = x.files[j].descr
            BY <1>3, <1>11, <2>1, <2>3
        <3> QED
            BY <1>12, <1>13, <3>1, <3>2
    <2> QED
        BY <1>5, <2>2, <2>3
<1> HIDE DEF g
<1>15. e = g
    BY <1>8, <1>12, <1>13, <1>14, Extensional
<1> QED
    BY <1>15 DEF d, e, g

\* Deleting a file takes its name out of the file table.
LEMMA FicherosBaja ==
    ASSUME NEW x, x.files \in Seq(Fichero), FicherosUnicos(x),
           NEW k \in 1 .. Len(x.files),
           NEW y, y.files = Quitar(x.files, k)
    PROVE  FicherosDe(y) =
              Sin(FicherosDe(x), x.files[k].name)
<1> DEFINE n == Len(x.files)
           s == x.files
           f == s[k].name
           d == FicherosDe(x)
           e == FicherosDe(y)
           g == [v \in DOMAIN d \ {f} |-> d[v]]
<1>0. s \in Seq(Fichero) /\ k \in 1 .. Len(s) /\ y.files = Quitar(s, k) /\ n = Len(s)
    OBVIOUS
<1> HIDE DEF s, n
<1>1. Len(y.files) = n - 1 /\ n \in Nat
    BY <1>0, QuitarProps, LenProperties
<1>2. PICK h \in [1 .. n - 1 -> 1 .. n] :
         /\ \A j \in 1 .. n - 1 : y.files[j] = s[h[j]] /\ h[j] # k
         /\ \A i, j \in 1 .. n - 1 : h[i] = h[j] => i = j
    BY <1>0, QuitarOrigen
<1>3. FicherosUnicos(y)
    BY QuitarFicheros DEF FicherosUnicos
<1>4. \A j \in 1 .. n : j # k => \E i \in 1 .. n - 1 : y.files[i] = s[j]
    BY <1>0, <1>1, QuedaAlQuitar
<1>5. /\ \A v : v \in DOMAIN d <=> Publicado(x, v)
      /\ \A v : v \in DOMAIN e <=> Publicado(y, v)
      /\ DOMAIN e = {y.files[j].name : j \in 1 .. n - 1}
      /\ e = [v \in DOMAIN e |-> e[v]]
    BY <1>1, DominioFicheros
<1>6. \A v : Publicado(y, v) <=> Publicado(x, v) /\ v # f
    <2>1. ASSUME NEW v, Publicado(y, v) PROVE Publicado(x, v) /\ v # f
        <3>1. PICK j \in 1 .. n - 1 : y.files[j].name = v
            BY <1>1, <2>1 DEF Publicado
        <3>2. h[j] \in 1 .. n /\ h[j] # k /\ s[h[j]].name = v
            BY <1>2, <3>1
        <3> QED
            BY <1>0, <3>2 DEF Publicado, FicherosUnicos, s
    <2>2. ASSUME NEW v, Publicado(x, v), v # f PROVE Publicado(y, v)
        BY <1>0, <1>1, <1>4, <2>2 DEF Publicado, s
    <2> QED
        BY <2>1, <2>2
<1>7. \A j \in 1 .. n - 1 : e[y.files[j].name] = y.files[j].descr
    BY <1>1, <1>3, DescripcionDe
<1>8. \A j \in 1 .. n : d[s[j].name] = s[j].descr
    BY DescripcionDe DEF s, n
<1> HIDE DEF d, e
<1>9. DOMAIN e = DOMAIN g
    BY <1>5, <1>6
<1>10. ASSUME NEW v \in DOMAIN e PROVE e[v] = g[v]
    <2>1. PICK j \in 1 .. n - 1 : v = y.files[j].name
        BY <1>5
    <2>2. h[j] \in 1 .. n /\ y.files[j] = s[h[j]]
        BY <1>2
    <2> QED
        BY <1>7, <1>8, <1>9, <2>1, <2>2
<1>11. g = [v \in DOMAIN g |-> g[v]]
    OBVIOUS
<1> HIDE DEF g
<1>12. e = g
    BY <1>5, <1>9, <1>10, <1>11, Extensional
<1> QED
    BY <1>12 DEF d, e, g, s, Sin

LEMMA CambiaAddr ==
    ASSUME NEW d, NEW u, u \in DOMAIN d, NEW p, NEW q, NEW A,
           d[u] = [addr |-> p, files |-> q]
    PROVE  PonAddr(d, u, A) = Pon(d, u, [addr |-> A, files |-> q])
<1>1. [[addr |-> p, files |-> q] EXCEPT !.addr = A] = [addr |-> A, files |-> q]
    OBVIOUS
<1>2. [d EXCEPT ![u].addr = A]
        = [d EXCEPT ![u] = [[addr |-> p, files |-> q] EXCEPT !.addr = A]]
    OBVIOUS
<1> QED
    BY <1>1, <1>2 DEF PonAddr, Pon

LEMMA CambiaFiles ==
    ASSUME NEW d, NEW u, u \in DOMAIN d, NEW p, NEW q, NEW Q,
           d[u] = [addr |-> p, files |-> q]
    PROVE  PonFiles(d, u, Q) = Pon(d, u, [addr |-> p, files |-> Q])
<1>1. [[addr |-> p, files |-> q] EXCEPT !.files = Q] = [addr |-> p, files |-> Q]
    OBVIOUS
<1>2. [d EXCEPT ![u].files = Q]
        = [d EXCEPT ![u] = [[addr |-> p, files |-> q] EXCEPT !.files = Q]]
    OBVIOUS
<1> QED
    BY <1>1, <1>2 DEF PonFiles, Pon

LEMMA MismosFicheros ==
    ASSUME NEW x, NEW y, x.files = y.files
    PROVE  FicherosDe(x) = FicherosDe(y)
    BY DEF FicherosDe

-----------------------------------------------------------------------------
(* The searches.                                                           *)

\* A search ends at one place, which Hallada names.
LEMMA HalladaEs ==
    ASSUME NEW a \in Seq(Tupla), NEW op, NEW u, NEW i, Halla(a, op, u, i)
    PROVE  i \in 0 .. Len(a) /\ Hallada(a, op, u) = i
<1>0. Len(a) \in Nat
    BY LenProperties
<1>1. ASSUME NEW j, Halla(a, op, u, j)
      PROVE  j \in 0 .. Len(a) /\ (j = 0 \/ j \in 1 .. Len(a))
    <2>1. CASE op = "register"
        BY <1>0, <1>1, <2>1 DEF Halla, EstaEnUso
    <2>2. CASE op # "register"
        BY <1>0, <1>1, <2>2 DEF Halla, EsPrimero, EsUltimo
    <2> QED
        BY <2>1, <2>2
<1>2. ASSUME NEW j, NEW k, Halla(a, op, u, j), Halla(a, op, u, k) PROVE j = k
    <2>1. CASE op = "register"
        BY <1>2, <2>1 DEF Halla
    <2>2. CASE op # "register" /\ ~Registrado(a, u)
        BY <1>2, <2>2 DEF Halla, EsPrimero, EsUltimo, Registrado
    <2>3. CASE op = "unregister" /\ Registrado(a, u)
        <3>1. EsPrimero(a, u, j) /\ EsPrimero(a, u, k)
            BY <1>2, <2>3 DEF Halla
        <3> QED
            BY <1>0, <3>1 DEF EsPrimero
    <2>4. CASE op \notin {"register", "unregister"} /\ Registrado(a, u)
        <3>1. EsUltimo(a, u, j) /\ EsUltimo(a, u, k)
            BY <1>2, <2>4 DEF Halla
        <3> QED
            BY <1>0, <3>1 DEF EsUltimo
    <2> QED
        BY <2>1, <2>2, <2>3, <2>4
<1>3. i \in 0 .. Len(a)
    BY <1>1
<1>4. Halla(a, op, u, Hallada(a, op, u))
    BY <1>3 DEF Hallada
<1> QED
    BY <1>2, <1>3, <1>4

\* So does the search among the files.
LEMMA UltimoFicheroUnico ==
    ASSUME NEW t, t.files \in Seq(Fichero), NEW f,
           NEW j, EsUltimoFichero(t, f, j), NEW k, EsUltimoFichero(t, f, k)
    PROVE  j = k
<1>1. Len(t.files) \in Nat
    BY LenProperties
<1> QED
    BY <1>1 DEF EsUltimoFichero

\* While names are unique there is one tuple to find.
LEMMA HallaUnica ==
    ASSUME NEW a \in Seq(Tupla), NombresUnicos(a), NEW op, op # "register", NEW u
    PROVE  /\ Registrado(a, u) =>
                 /\ Hallada(a, op, u) \in 1 .. Len(a)
                 /\ a[Hallada(a, op, u)].cliente = u
                 /\ Halla(a, op, u, Hallada(a, op, u))
           /\ ~Registrado(a, u) => Hallada(a, op, u) = 0
<1>0. Len(a) \in Nat
    BY LenProperties
<1>1. CASE ~Registrado(a, u)
    <2>1. Halla(a, op, u, 0)
        BY <1>1 DEF Halla
    <2> QED
        BY <1>1, <2>1, HalladaEs
<1>2. CASE Registrado(a, u)
    <2>1. PICK i \in 1 .. Len(a) : a[i].cliente = u
        BY <1>2 DEF Registrado
    <2>2. EsPrimero(a, u, i) /\ EsUltimo(a, u, i)
        BY <1>0, <2>1 DEF EsPrimero, EsUltimo, NombresUnicos
    <2>3. Halla(a, op, u, i)
        BY <2>2 DEF Halla
    <2>4. Hallada(a, op, u) = i
        BY <2>3, HalladaEs
    <2> QED
        BY <1>2, <2>1, <2>3, <2>4
<1> QED
    BY <1>1, <1>2

-----------------------------------------------------------------------------
(* What a handler sees of the directory.                                   *)

\* The tuple of a user is its entry.
LEMMA EntradaVista ==
    ASSUME NEW a, Solido(a), NombresUnicos(a), NEW i \in 1 .. Len(a)
    PROVE  /\ R!Known(DirectorioDe(a), a[i].cliente)
           /\ DirectorioDe(a)[a[i].cliente] = EntradaDe(a[i])
           /\ R!Online(DirectorioDe(a), a[i].cliente) <=> a[i].connected = 1
           /\ \A f : R!Offers(DirectorioDe(a), a[i].cliente, f) <=> Publicado(a[i], f)
<1> DEFINE u == a[i].cliente
           x == a[i]
           d == DirectorioDe(a)
<1>1. R!Known(d, u)
    BY DominioDirectorio DEF R!Known, Registrado
<1>2. d[u] = EntradaDe(x)
    BY EntradaDeTupla
<1>3. x.connected = 1 => x.addr # NoAddr
    BY DEF Solido
<1>4. d[u].addr = IF x.connected = 1 THEN x.addr ELSE NoAddr
    BY <1>2, CamposEntrada
<1>5. d[u].files = FicherosDe(x)
    BY <1>2, CamposEntrada
<1>6. \A f : f \in DOMAIN FicherosDe(x) <=> Publicado(x, f)
    BY DominioFicheros
<1> HIDE DEF d
<1>7. R!Online(d, u) <=> x.connected = 1
    BY <1>1, <1>3, <1>4 DEF R!Online
<1>8. \A f : R!Offers(d, u, f) <=> Publicado(x, f)
    BY <1>1, <1>5, <1>6 DEF R!Offers
<1> QED
    BY <1>1, <1>2, <1>7, <1>8 DEF d

\* A name that is not in the store is unknown to the directory.
LEMMA SinEntrada ==
    ASSUME NEW a, NEW u, ~Registrado(a, u)
    PROVE  /\ ~R!Known(DirectorioDe(a), u) /\ ~R!Online(DirectorioDe(a), u)
           /\ \A f : ~R!Offers(DirectorioDe(a), u, f)
<1>1. ~R!Known(DirectorioDe(a), u)
    BY DominioDirectorio DEF R!Known
<1> QED
    BY <1>1 DEF R!Online, R!Offers

\* The users online are the tuples connected.
LEMMA EnLinea ==
    ASSUME NEW a, Solido(a), NombresUnicos(a)
    PROVE  \A u : u \in DOMAIN DirectorioDe(a) /\ R!Online(DirectorioDe(a), u) <=>
                    \E i \in Conectados(a) : a[i].cliente = u
<1>1. \A u : u \in DOMAIN DirectorioDe(a) <=> \E i \in 1 .. Len(a) : a[i].cliente = u
    BY DominioDirectorio DEF Registrado
<1>2. \A i \in 1 .. Len(a) :
         R!Online(DirectorioDe(a), a[i].cliente) <=> a[i].connected = 1
    BY EntradaVista
<1> QED
    BY <1>1, <1>2 DEF Conectados

\* A sound store is a directory.
LEMMA EsDirectorio ==
    ASSUME NEW a, Solido(a), NombresUnicos(a)
    PROVE  R!IsDirectory(DirectorioDe(a))
<1> DEFINE d == DirectorioDe(a)
<1>0. a \in Seq(Tupla)
    BY DEF Solido
<1>1. \A u : u \in DOMAIN d <=> \E i \in 1 .. Len(a) : a[i].cliente = u
    BY DominioDirectorio DEF Registrado
<1>2. ASSUME NEW i \in 1 .. Len(a)
      PROVE  /\ a[i].cliente \in Users
             /\ d[a[i].cliente].addr \in Addrs \cup {NoAddr}
             /\ DOMAIN d[a[i].cliente].files \subseteq Files
             /\ \A f \in DOMAIN d[a[i].cliente].files : d[a[i].cliente].files[f] \in Descrs
    <2> DEFINE x == a[i]
    <2>1. x \in Tupla
        BY <1>0, ElementOfSeq
    <2>2. x.cliente \in Users /\ x.addr \in Addrs \cup {NoAddr} /\ x.files \in Seq(Fichero)
        BY <2>1 DEF Tupla
    <2>3. FicherosUnicos(x)
        BY DEF Solido
    <2>4. d[x.cliente] = EntradaDe(x)
        BY EntradaVista
    <2>5. /\ d[x.cliente].addr = IF x.connected = 1 THEN x.addr ELSE NoAddr
          /\ d[x.cliente].files = FicherosDe(x)
        BY <2>4, CamposEntrada
    <2>6. \A k \in 1 .. Len(x.files) :
             x.files[k].name \in Files /\ FicherosDe(x)[x.files[k].name] \in Descrs
        <3>1. \A k \in 1 .. Len(x.files) : x.files[k] \in Fichero
            BY <2>2, ElementOfSeq
        <3>2. \A k \in 1 .. Len(x.files) :
                 FicherosDe(x)[x.files[k].name] = x.files[k].descr
            BY <2>3, DescripcionDe
        <3> QED
            BY <3>1, <3>2 DEF Fichero
    <2>7. DOMAIN FicherosDe(x) = {x.files[k].name : k \in 1 .. Len(x.files)}
        BY DominioFicheros
    <2> QED
        BY <2>2, <2>5, <2>6, <2>7
<1> QED
    BY <1>1, <1>2 DEF R!IsDirectory

-----------------------------------------------------------------------------
(* What a request is answered and what it changes, in the store and in its *)
(* directory.                                                              *)

\* The fields an operation writes into the store have their types.
Aplicable(r) ==
    /\ r.op \in R!Operations
    /\ r.op = "register" => r.user \in Users
    /\ r.op = "connect" => r.addr \in Addrs
    /\ r.op = "publish" => r.file \in Files /\ r.descr \in Descrs

LEMMA Efectos ==
    ASSUME NEW d, NEW r
    PROVE  /\ r.op = "register" =>
                 R!Effect(d, r) =
                    R!Put(d, r.user, [addr |-> NoAddr, files |-> [f \in {} |-> {}]])
           /\ r.op = "unregister" => R!Effect(d, r) = Sin(d, r.user)
           /\ r.op = "connect" => R!Effect(d, r) = PonAddr(d, r.user, r.addr)
           /\ r.op = "disconnect" => R!Effect(d, r) = PonAddr(d, r.user, NoAddr)
           /\ r.op = "publish" =>
                 R!Effect(d, r) =
                    PonFiles(d, r.user, R!Put(d[r.user].files, r.file, r.descr))
           /\ r.op = "delete" =>
                 R!Effect(d, r) = PonFiles(d, r.user, Sin(d[r.user].files, r.file))
           /\ r.op \in {"list_users", "list_content", "get_file"} => R!Effect(d, r) = d
<1>1. r.op = "register" =>
         R!Effect(d, r) =
            R!Put(d, r.user, [addr |-> NoAddr, files |-> [f \in {} |-> {}]])
    BY DEF R!Effect
<1>2. r.op = "unregister" => R!Effect(d, r) = Sin(d, r.user)
    BY DEF R!Effect, Sin
<1>3. r.op = "connect" => R!Effect(d, r) = PonAddr(d, r.user, r.addr)
    BY DEF R!Effect, PonAddr
<1>4. r.op = "disconnect" => R!Effect(d, r) = PonAddr(d, r.user, NoAddr)
    BY DEF R!Effect, PonAddr
<1>5. r.op = "publish" =>
         R!Effect(d, r) = PonFiles(d, r.user, R!Put(d[r.user].files, r.file, r.descr))
    BY DEF R!Effect, PonFiles
<1>6. r.op = "delete" =>
         R!Effect(d, r) = PonFiles(d, r.user, Sin(d[r.user].files, r.file))
    BY DEF R!Effect, PonFiles, Sin
<1>7. r.op \in {"list_users", "list_content", "get_file"} => R!Effect(d, r) = d
    BY DEF R!Effect
<1> QED
    BY <1>1, <1>2, <1>3, <1>4, <1>5, <1>6, <1>7

LEMMA Entradas ==
    ASSUME NEW d, NEW r
    PROVE  /\ r.op = "list_users" =>
                 R!Items(d, r) =
                    {<<u, d[u].addr>> : u \in {v \in DOMAIN d : R!Online(d, v)}}
           /\ r.op = "list_content" =>
                 R!Items(d, r) = {<<f, d[r.other].files[f]>> :
                                     f \in DOMAIN d[r.other].files}
           /\ r.op = "get_file" => R!Items(d, r) = {d[r.user].addr}
           /\ r.op \in {"register", "unregister", "connect", "disconnect",
                        "publish", "delete"} => R!Items(d, r) = {}
<1>1. r.op = "list_users" =>
         R!Items(d, r) =
            {<<u, d[u].addr>> : u \in {v \in DOMAIN d : R!Online(d, v)}}
    BY DEF R!Items
<1>2. r.op = "list_content" =>
         R!Items(d, r) = {<<f, d[r.other].files[f]>> :
                             f \in DOMAIN d[r.other].files}
    BY DEF R!Items
<1>3. r.op = "get_file" => R!Items(d, r) = {d[r.user].addr}
    BY DEF R!Items
<1>4. r.op \in {"register", "unregister", "connect", "disconnect",
                "publish", "delete"} => R!Items(d, r) = {}
    BY DEF R!Items
<1> QED
    BY <1>1, <1>2, <1>3, <1>4

\* The code is the directory's.
LEMMA CodigoPrometido ==
    ASSUME NEW a, Solido(a), NombresUnicos(a),
           NEW r, r.op \in R!Operations, ~Repite(a, r)
    PROVE  CodigoDe(a, r) = R!Code(DirectorioDe(a), r)
<1> DEFINE d == DirectorioDe(a)
           u == r.user
           i == Hallada(a, r.op, u)
<1>0. a \in Seq(Tupla)
    BY DEF Solido
<1>1. CASE r.op = "register"
    <2>1. EstaEnUso(a, u) <=> Registrado(a, u)
        <3>1. Len(a) \in Nat
            BY <1>0, LenProperties
        <3> QED
            BY <1>1, <3>1 DEF Repite, EstaEnUso, Registrado
    <2>2. Halla(a, r.op, u, IF EstaEnUso(a, u) THEN 1 ELSE 0)
        BY <1>1 DEF Halla
    <2>3. i # 0 <=> Registrado(a, u)
        BY <1>0, <2>1, <2>2, HalladaEs
    <2>4. R!Known(d, u) <=> Registrado(a, u)
        BY DominioDirectorio DEF R!Known
    <2>5. CodigoDe(a, r) = IF i # 0 THEN 1 ELSE 0
        BY <1>1 DEF CodigoDe, R!CodeOf
    <2>6. R!Code(d, r) = IF R!Known(d, u) THEN 1 ELSE 0
        BY <1>1 DEF R!Code, R!CodeOf
    <2> QED
        BY <2>3, <2>4, <2>5, <2>6
<1>2. CASE r.op # "register"
    <2>1. (i # 0) = R!Known(d, u)
        <3>1. i # 0 <=> Registrado(a, u)
            BY <1>0, <1>2, HallaUnica
        <3>2. R!Known(d, u) <=> Registrado(a, u)
            BY DominioDirectorio DEF R!Known
        <3>3. R!Known(d, u) \in BOOLEAN
            BY DEF R!Known
        <3> QED
            BY <3>1, <3>2, <3>3
    <2>2. (i # 0 /\ a[i].connected = 1) = R!Online(d, u)
        <3>1. R!Online(d, u) \in BOOLEAN
            BY DEF R!Online
        <3>2. R!Online(d, u) <=> (i # 0 /\ a[i].connected = 1)
            BY <1>0, <1>2, HallaUnica, EntradaVista, SinEntrada
        <3> QED
            BY <3>1, <3>2
    <2>3. (i # 0 /\ Publicado(a[i], r.file)) = R!Offers(d, u, r.file)
        <3>1. R!Offers(d, u, r.file) \in BOOLEAN
            BY DEF R!Offers
        <3>2. R!Offers(d, u, r.file) <=> (i # 0 /\ Publicado(a[i], r.file))
            <4>1. CASE ~Registrado(a, u)
                BY <1>0, <1>2, <4>1, HallaUnica, SinEntrada
            <4>2. CASE Registrado(a, u)
                <5>1. i \in 1 .. Len(a) /\ a[i].cliente = u
                    BY <1>0, <1>2, <4>2, HallaUnica
                <5>2. R!Offers(d, u, r.file) <=> Publicado(a[i], r.file)
                    BY <5>1, EntradaVista
                <5> QED
                    BY <5>1, <5>2
            <4> QED
                BY <4>1, <4>2
        <3> QED
            BY <3>1, <3>2
    <2>4. (Conectados(a) # {}) = (\E v \in DOMAIN d : R!Online(d, v))
        <3>1. Conectados(a) # {} <=> \E v \in DOMAIN d : R!Online(d, v)
            BY EnLinea
        <3> QED
            BY <3>1
    <2>5. Registrado(a, r.other) = R!Known(d, r.other)
        <3>1. R!Known(d, r.other) <=> Registrado(a, r.other)
            BY DominioDirectorio DEF R!Known
        <3>2. R!Known(d, r.other) \in BOOLEAN /\ Registrado(a, r.other) \in BOOLEAN
            BY DEF R!Known, Registrado
        <3> QED
            BY <3>1, <3>2
    <2>6. CodigoDe(a, r) =
             R!CodeOf(r.op, i # 0, i # 0 /\ a[i].connected = 1,
                      i # 0 /\ Publicado(a[i], r.file), Conectados(a) # {},
                      Registrado(a, r.other))
        BY DEF CodigoDe
    <2>7. R!Code(d, r) =
             R!CodeOf(r.op, R!Known(d, u), R!Online(d, u), R!Offers(d, u, r.file),
                      \E v \in DOMAIN d : R!Online(d, v), R!Known(d, r.other))
        BY DEF R!Code
    <2> QED
        BY <2>1, <2>2, <2>3, <2>4, <2>5, <2>6, <2>7
<1> QED
    BY <1>1, <1>2

\* What a request that is answered with 0 has found.
LEMMA Admitida ==
    ASSUME NEW a, NEW r, r.op \in R!Operations, CodigoDe(a, r) = 0
    PROVE  LET i == Hallada(a, r.op, r.user)
           IN  /\ r.op = "register" => i = 0
               /\ r.op \in {"unregister", "connect"} => i # 0 /\ a[i].connected # 1
               /\ r.op \in {"disconnect", "publish", "delete", "list_content", "get_file"} =>
                     i # 0 /\ a[i].connected = 1
               /\ r.op = "publish" => ~Publicado(a[i], r.file)
               /\ r.op \in {"delete", "get_file"} => Publicado(a[i], r.file)
               /\ r.op = "list_users" => i # 0 /\ Conectados(a) # {}
               /\ r.op = "list_content" => Registrado(a, r.other)
    BY DEF CodigoDe, R!CodeOf, R!Operations

\* Another tuple of the same user in its place.
LEMMA EnSuSitio ==
    ASSUME NEW a, Solido(a), NombresUnicos(a), NEW i \in 1 .. Len(a),
           NEW x, Sano(x), x.cliente = a[i].cliente
    PROVE  LET b == [a EXCEPT ![i] = x]
           IN  /\ DirectorioDe(b) = Pon(DirectorioDe(a), a[i].cliente, EntradaDe(x))
               /\ Solido(b) /\ NombresUnicos(b)
<1> DEFINE b == [a EXCEPT ![i] = x]
<1>1. a \in Seq(Tupla) /\ x \in Tupla
    BY DEF Solido, Sano
<1>2. DirectorioDe(b) = Pon(DirectorioDe(a), a[i].cliente, EntradaDe(x))
    BY <1>1, DirectorioCambiado DEF Pon
<1>3. /\ Len(b) = Len(a)
      /\ \A j \in 1 .. Len(a) : b[j] = IF j = i THEN x ELSE a[j]
    BY <1>1, ExceptSeq
<1>4. \A j \in 1 .. Len(a) : b[j].cliente = a[j].cliente
    BY <1>3
<1>5. NombresUnicos(b)
    BY <1>3, <1>4 DEF NombresUnicos
<1> QED
    BY <1>2, <1>5, SolidoCambiado

\* The tuple of the user of a request, and its entry.
LEMMA TuplaHallada ==
    ASSUME NEW a, Solido(a), NombresUnicos(a), NEW r, r.op # "register",
           NEW i, i = Hallada(a, r.op, r.user), i # 0
    PROVE  /\ i \in 1 .. Len(a) /\ a[i].cliente = r.user /\ Sano(a[i])
           /\ r.user \in DOMAIN DirectorioDe(a)
           /\ DirectorioDe(a)[r.user] =
                 [addr  |-> IF a[i].connected = 1 THEN a[i].addr ELSE NoAddr,
                  files |-> FicherosDe(a[i])]
<1> DEFINE u == r.user
<1>0. a \in Seq(Tupla)
    BY DEF Solido
<1>1. i \in 1 .. Len(a) /\ a[i].cliente = u
    BY <1>0, HallaUnica
<1>2. Sano(a[i])
    BY <1>0, <1>1, SolidoSano
<1>3. u \in DOMAIN DirectorioDe(a)
    BY <1>1, EntradaVista DEF R!Known
<1>4. DirectorioDe(a)[u] = EntradaDe(a[i])
    BY <1>1, EntradaVista
<1> QED
    BY <1>1, <1>2, <1>3, <1>4 DEF EntradaDe

\* What is kept when request r is served in store a.
Cumple(a, r) ==
    /\ DirectorioDe(AlmacenTras(a, r)) = R!Effect(DirectorioDe(a), r)
    /\ Solido(AlmacenTras(a, r)) /\ NombresUnicos(AlmacenTras(a, r))

LEMMA RegisterPrometido ==
    ASSUME NEW a, Solido(a), NombresUnicos(a), NEW r, Aplicable(r),
           r.op = "register", ~Repite(a, r), CodigoDe(a, r) = 0
    PROVE  Cumple(a, r)
<1> DEFINE u == r.user
           x == TuplaVacia(u)
           b == Append(a, x)
<1>0. a \in Seq(Tupla) /\ Len(a) \in Nat /\ u \in Users
    BY LenProperties DEF Solido, Aplicable
<1>1. ~Registrado(a, u)
    <2>1. Halla(a, r.op, u, IF EstaEnUso(a, u) THEN 1 ELSE 0)
        BY DEF Halla
    <2>2. Hallada(a, r.op, u) = 0
        BY Admitida DEF Aplicable
    <2>3. ~EstaEnUso(a, u)
        BY <1>0, <2>1, <2>2, HalladaEs
    <2> QED
        BY <2>3 DEF Repite
<1>2. /\ x \in Tupla /\ Sano(x) /\ x.cliente = u
    BY <1>0, EmptySeq DEF TuplaVacia, Tupla, Sano, FicherosUnicos
<1>3. AlmacenTras(a, r) = b
    BY DEF AlmacenTras
<1>4. DirectorioDe(b) = R!Put(DirectorioDe(a), u, [addr |-> NoAddr, files |-> [f \in {} |-> {}]])
    BY <1>0, <1>1, DirectorioAlta
<1> HIDE DEF x
<1>5. /\ b \in Seq(Tupla) /\ Len(b) = Len(a) + 1
      /\ \A j \in 1 .. Len(a) : b[j] = a[j]
      /\ b[Len(a) + 1] = x
    BY <1>0, <1>2, AppendProperties
<1> HIDE DEF b
<1>6. NombresUnicos(b)
    <2>1. \A j \in 1 .. Len(a) : a[j].cliente # u
        BY <1>1 DEF Registrado
    <2> QED
        BY <1>0, <1>2, <1>5, <2>1 DEF NombresUnicos
<1>7. Solido(b)
    <2>1. \A j \in 1 .. Len(a) : Sano(a[j])
        BY <1>0, SolidoSano
    <2>2. \A j \in 1 .. Len(b) : j \in 1 .. Len(a) \/ j = Len(a) + 1
        BY <1>0, <1>5
    <2>3. \A j \in 1 .. Len(b) : Sano(b[j])
        BY <1>2, <1>5, <2>1, <2>2
    <2> QED
        BY <1>5, <2>3, SolidoSano
<1> QED
    BY <1>3, <1>4, <1>6, <1>7, Efectos DEF Cumple

LEMMA UnregisterPrometido ==
    ASSUME NEW a, Solido(a), NombresUnicos(a), NEW r, Aplicable(r),
           r.op = "unregister", CodigoDe(a, r) = 0
    PROVE  Cumple(a, r)
<1> DEFINE u == r.user
           i == Hallada(a, r.op, u)
           b == Quitar(a, i)
<1>0. a \in Seq(Tupla) /\ Len(a) \in Nat
    BY LenProperties DEF Solido
<1>1. i # 0 /\ r.op # "register"
    BY Admitida DEF Aplicable
<1>2. i \in 1 .. Len(a) /\ a[i].cliente = u
    <2>1. i = Hallada(a, r.op, r.user)
        OBVIOUS
    <2> HIDE DEF i
    <2> QED
        BY <1>1, <2>1, TuplaHallada
<1>3. AlmacenTras(a, r) = b
    BY DEF AlmacenTras
<1> HIDE DEF i
<1>4. DirectorioDe(b) = Sin(DirectorioDe(a), u)
    BY <1>0, <1>2, DirectorioBaja
<1>5. NombresUnicos(b)
    BY <1>0, <1>2, QuitarNombres
<1>6. Solido(b)
    <2>1. /\ b \in Seq(Tupla) /\ Len(b) = Len(a) - 1
          /\ \A j \in 1 .. Len(a) - 1 : b[j] = IF j = i THEN a[Len(a)] ELSE a[j]
        BY <1>0, <1>2, QuitarProps
    <2>2. \A j \in 1 .. Len(a) : Sano(a[j])
        BY <1>0, SolidoSano
    <2> HIDE DEF b
    <2>3. \A j \in 1 .. Len(b) : Sano(b[j])
        BY <1>0, <1>2, <2>1, <2>2
    <2> QED
        BY <2>1, <2>3, SolidoSano
<1> QED
    BY <1>3, <1>4, <1>5, <1>6, Efectos DEF Cumple

LEMMA ConnectPrometido ==
    ASSUME NEW a, Solido(a), NombresUnicos(a), NEW r, Aplicable(r),
           r.op = "connect", CodigoDe(a, r) = 0
    PROVE  Cumple(a, r)
<1> DEFINE u == r.user
           i == Hallada(a, r.op, u)
           d == DirectorioDe(a)
           y == a[i]
           x == [y EXCEPT !.connected = 1, !.addr = r.addr]
           b == [a EXCEPT ![i] = x]
<1>1. i # 0 /\ r.addr \in Addrs
    BY Admitida DEF Aplicable
<1>2. /\ i \in 1 .. Len(a) /\ y.cliente = u /\ Sano(y) /\ u \in DOMAIN d
      /\ d[u] = [addr |-> IF y.connected = 1 THEN y.addr ELSE NoAddr,
                 files |-> FicherosDe(y)]
    BY <1>1, TuplaHallada
<1>3. /\ Sano(x) /\ x.files = y.files /\ x.connected = 1
      /\ x.cliente = y.cliente /\ x.addr = r.addr
    <2>1. Sano(x)
        BY <1>1, <1>2, SanaCambiada
    <2>2. y \in Tupla
        BY <1>2 DEF Sano
    <2> QED
        BY <2>1, <2>2 DEF Tupla
<1>4. AlmacenTras(a, r) = b
    <2>1. AlmacenTras(a, r) = Conectar(a, i, r.addr)
        BY DEF AlmacenTras
    <2>2. Conectar(a, i, r.addr) = b
        BY <1>2 DEF Conectar, Solido
    <2> QED
        BY <2>1, <2>2
<1>5. b = [a EXCEPT ![i] = x]
    OBVIOUS
<1> HIDE DEF x, b, i
<1>6. /\ DirectorioDe(b) = Pon(d, u, EntradaDe(x))
      /\ Solido(b) /\ NombresUnicos(b)
    <2>1. LET c == [a EXCEPT ![i] = x]
          IN  /\ DirectorioDe(c) = Pon(d, y.cliente, EntradaDe(x))
              /\ Solido(c) /\ NombresUnicos(c)
        BY <1>2, <1>3, EnSuSitio
    <2> QED
        BY <1>2, <1>5, <2>1
<1>7. EntradaDe(x) = [addr |-> r.addr, files |-> FicherosDe(y)]
    BY <1>3, MismosFicheros DEF EntradaDe
<1>8. PonAddr(d, u, r.addr) = Pon(d, u, [addr |-> r.addr, files |-> FicherosDe(y)])
    BY <1>2, CambiaAddr
<1>9. R!Effect(d, r) = PonAddr(d, u, r.addr)
    BY Efectos
<1> QED
    BY <1>4, <1>6, <1>7, <1>8, <1>9 DEF Cumple

LEMMA DisconnectPrometido ==
    ASSUME NEW a, Solido(a), NombresUnicos(a), NEW r, Aplicable(r),
           r.op = "disconnect", CodigoDe(a, r) = 0
    PROVE  Cumple(a, r)
<1> DEFINE u == r.user
           i == Hallada(a, r.op, u)
           d == DirectorioDe(a)
           y == a[i]
           x == [y EXCEPT !.connected = 0]
           b == [a EXCEPT ![i] = x]
<1>1. i # 0
    BY Admitida DEF Aplicable
<1>2. /\ i \in 1 .. Len(a) /\ y.cliente = u /\ Sano(y) /\ u \in DOMAIN d
      /\ d[u] = [addr |-> IF y.connected = 1 THEN y.addr ELSE NoAddr,
                 files |-> FicherosDe(y)]
    BY <1>1, TuplaHallada
<1>3. /\ Sano(x) /\ x.files = y.files /\ x.connected = 0
      /\ x.cliente = y.cliente
    <2>1. Sano(x)
        BY <1>2, SanaCambiada
    <2>2. y \in Tupla
        BY <1>2 DEF Sano
    <2> QED
        BY <2>1, <2>2 DEF Tupla
<1>4. AlmacenTras(a, r) = b
    <2>1. AlmacenTras(a, r) = Desconectar(a, i)
        BY DEF AlmacenTras
    <2>2. Desconectar(a, i) = b
        BY <1>2 DEF Desconectar, Solido
    <2> QED
        BY <2>1, <2>2
<1>5. b = [a EXCEPT ![i] = x]
    OBVIOUS
<1> HIDE DEF x, b, i
<1>6. /\ DirectorioDe(b) = Pon(d, u, EntradaDe(x))
      /\ Solido(b) /\ NombresUnicos(b)
    <2>1. LET c == [a EXCEPT ![i] = x]
          IN  /\ DirectorioDe(c) = Pon(d, y.cliente, EntradaDe(x))
              /\ Solido(c) /\ NombresUnicos(c)
        BY <1>2, <1>3, EnSuSitio
    <2> QED
        BY <1>2, <1>5, <2>1
<1>7. EntradaDe(x) = [addr |-> NoAddr, files |-> FicherosDe(y)]
    BY <1>3, MismosFicheros DEF EntradaDe
<1>8. PonAddr(d, u, NoAddr) = Pon(d, u, [addr |-> NoAddr, files |-> FicherosDe(y)])
    BY <1>2, CambiaAddr
<1>9. R!Effect(d, r) = PonAddr(d, u, NoAddr)
    BY Efectos
<1> QED
    BY <1>4, <1>6, <1>7, <1>8, <1>9 DEF Cumple

\* publish and delete: the tuple with another file table.
LEMMA FicherosCambiados ==
    ASSUME NEW a, Solido(a), NombresUnicos(a), NEW r, r.op # "register",
           NEW i, i = Hallada(a, r.op, r.user), i # 0,
           NEW fs \in Seq(Fichero),
           \A j, k \in 1 .. Len(fs) : fs[j].name = fs[k].name => j = k
    PROVE  LET x == [a[i] EXCEPT !.files = fs]
               b == [a EXCEPT ![i] = x]
           IN  /\ DirectorioDe(b) = PonFiles(DirectorioDe(a), r.user, FicherosDe(x))
               /\ DirectorioDe(a)[r.user].files = FicherosDe(a[i])
               /\ x.files = fs
               /\ Solido(b) /\ NombresUnicos(b)
<1> DEFINE u == r.user
           x == [a[i] EXCEPT !.files = fs]
           b == [a EXCEPT ![i] = x]
           d == DirectorioDe(a)
           y == a[i]
           A == IF y.connected = 1 THEN y.addr ELSE NoAddr
<1>1. /\ i \in 1 .. Len(a) /\ y.cliente = u /\ Sano(y) /\ u \in DOMAIN d
      /\ d[u] = [addr |-> A, files |-> FicherosDe(y)]
    BY TuplaHallada
<1>2. /\ Sano(x) /\ x.files = fs /\ x.cliente = y.cliente
      /\ x.connected = y.connected /\ x.addr = y.addr
    <2>1. Sano(x)
        BY <1>1, SanaCambiada
    <2>2. y \in Tupla
        BY <1>1 DEF Sano
    <2> QED
        BY <2>1, <2>2 DEF Tupla
<1>3. /\ DirectorioDe(b) = Pon(d, u, EntradaDe(x))
      /\ Solido(b) /\ NombresUnicos(b)
    <2> HIDE DEF x, d
    <2> QED
        BY <1>1, <1>2, EnSuSitio DEF d
<1>4. EntradaDe(x) = [addr |-> A, files |-> FicherosDe(x)]
    BY <1>2 DEF EntradaDe
<1>5. PonFiles(d, u, FicherosDe(x)) = Pon(d, u, [addr |-> A, files |-> FicherosDe(x)])
    <2> HIDE DEF A, d, x, y
    <2> QED
        BY <1>1, CambiaFiles
<1>6. d[u].files = FicherosDe(y)
    BY <1>1
<1> QED
    BY <1>2, <1>3, <1>4, <1>5, <1>6

LEMMA PublishPrometido ==
    ASSUME NEW a, Solido(a), NombresUnicos(a), NEW r, Aplicable(r),
           r.op = "publish", CodigoDe(a, r) = 0
    PROVE  Cumple(a, r)
<1> DEFINE u == r.user
           f == r.file
           c == r.descr
           i == Hallada(a, r.op, u)
           y == a[i]
           e == [name |-> f, descr |-> c]
           fs == Append(y.files, e)
           x == [y EXCEPT !.files = fs]
           b == [a EXCEPT ![i] = x]
<1>1. i # 0 /\ ~Publicado(y, f) /\ f \in Files /\ c \in Descrs
    BY Admitida DEF Aplicable
<1>2. i \in 1 .. Len(a) /\ Sano(y)
    BY <1>1, TuplaHallada
<1>3. /\ e \in Fichero /\ y.files \in Seq(Fichero) /\ FicherosUnicos(y)
    BY <1>1, <1>2 DEF Fichero, Sano, Tupla
<1>4. \A j, k \in 1 .. Len(fs) : fs[j].name = fs[k].name => j = k
    BY <1>1, <1>3, PublicarFicheros
<1>5. AlmacenTras(a, r) = b
    <2>1. AlmacenTras(a, r) = Publicar(a, i, f, c)
        BY DEF AlmacenTras
    <2>2. Publicar(a, i, f, c) = b
        BY <1>2 DEF Publicar, Solido
    <2> QED
        BY <2>1, <2>2
<1>6. fs \in Seq(Fichero)
    BY <1>3, AppendProperties
<1>7. x = [y EXCEPT !.files = fs] /\ b = [a EXCEPT ![i] = x]
      /\ fs = Append(y.files, [name |-> f, descr |-> c])
    OBVIOUS
<1> HIDE DEF fs, x, b, i
<1>8. /\ DirectorioDe(b) = PonFiles(DirectorioDe(a), u, FicherosDe(x))
      /\ DirectorioDe(a)[u].files = FicherosDe(y)
      /\ x.files = fs
      /\ Solido(b) /\ NombresUnicos(b)
    <2>1. r.op # "register" /\ i = Hallada(a, r.op, r.user)
        BY DEF i
    <2> QED
        BY <1>1, <1>4, <1>6, <2>1, FicherosCambiados DEF x, b
<1>9. FicherosDe(x) = R!Put(FicherosDe(y), f, c)
    <2>1. x.files = Append(y.files, [name |-> f, descr |-> c])
        BY <1>7, <1>8
    <2> HIDE DEF y, f, c
    <2> QED
        BY <1>1, <1>3, <2>1, FicherosAlta
<1>10. R!Effect(DirectorioDe(a), r)
         = PonFiles(DirectorioDe(a), u, R!Put(DirectorioDe(a)[u].files, f, c))
    BY Efectos
<1> QED
    BY <1>5, <1>8, <1>9, <1>10 DEF Cumple

LEMMA DeletePrometido ==
    ASSUME NEW a, Solido(a), NombresUnicos(a), NEW r, Aplicable(r),
           r.op = "delete", CodigoDe(a, r) = 0
    PROVE  Cumple(a, r)
<1> DEFINE u == r.user
           f == r.file
           i == Hallada(a, r.op, u)
           y == a[i]
           k == CHOOSE j \in 1 .. Len(y.files) : EsUltimoFichero(y, f, j)
           fs == Quitar(y.files, k)
           x == [y EXCEPT !.files = fs]
           b == [a EXCEPT ![i] = x]
<1>1. i # 0 /\ Publicado(y, f)
    BY Admitida DEF Aplicable
<1>2. i \in 1 .. Len(a) /\ Sano(y)
    BY <1>1, TuplaHallada
<1>3. y.files \in Seq(Fichero) /\ FicherosUnicos(y) /\ Len(y.files) \in Nat
    BY <1>2, LenProperties DEF Sano, Tupla
<1>4. k \in 1 .. Len(y.files) /\ y.files[k].name = f
    <2>1. PICK j \in 1 .. Len(y.files) : y.files[j].name = f
        BY <1>1 DEF Publicado
    <2>2. EsUltimoFichero(y, f, j)
        BY <1>3, <2>1 DEF EsUltimoFichero, FicherosUnicos
    <2>3. k \in 1 .. Len(y.files) /\ EsUltimoFichero(y, f, k)
        BY <2>2
    <2> QED
        BY <2>3 DEF EsUltimoFichero
<1>5. AlmacenTras(a, r) = b
    <2>1. AlmacenTras(a, r) = Borrar(a, i, k)
        BY DEF AlmacenTras
    <2>2. Borrar(a, i, k) = b
        BY <1>2 DEF Borrar, Solido
    <2> QED
        BY <2>1, <2>2
<1> HIDE DEF k
<1>6. \A j, l \in 1 .. Len(fs) : fs[j].name = fs[l].name => j = l
    BY <1>3, <1>4, QuitarFicheros
<1>7. fs \in Seq(Fichero)
    BY <1>3, <1>4, QuitarProps
<1>8. x = [y EXCEPT !.files = fs] /\ b = [a EXCEPT ![i] = x] /\ fs = Quitar(y.files, k)
    OBVIOUS
<1> HIDE DEF fs, x, b, i
<1>9. /\ DirectorioDe(b) = PonFiles(DirectorioDe(a), u, FicherosDe(x))
      /\ DirectorioDe(a)[u].files = FicherosDe(y)
      /\ x.files = fs
      /\ Solido(b) /\ NombresUnicos(b)
    <2>1. r.op # "register" /\ i = Hallada(a, r.op, r.user)
        BY DEF i
    <2> QED
        BY <1>1, <1>6, <1>7, <2>1, FicherosCambiados DEF x, b
<1>10. FicherosDe(x) = Sin(FicherosDe(y), f)
    <2>1. x.files = Quitar(y.files, k)
        BY <1>8, <1>9
    <2> HIDE DEF y, f
    <2> QED
        BY <1>3, <1>4, <2>1, FicherosBaja
<1>11. R!Effect(DirectorioDe(a), r)
         = PonFiles(DirectorioDe(a), u, Sin(DirectorioDe(a)[u].files, f))
    BY Efectos
<1> QED
    BY <1>5, <1>9, <1>10, <1>11 DEF Cumple

LEMMA ListUsersPrometido ==
    ASSUME NEW a, Solido(a), NombresUnicos(a), NEW r, r.op = "list_users"
    PROVE  ItemsDe(a, r) = R!Items(DirectorioDe(a), r)
<1> DEFINE d == DirectorioDe(a)
           E == {<<a[i].cliente, a[i].addr>> : i \in Conectados(a)}
           L == {<<u, d[u].addr>> : u \in {v \in DOMAIN d : R!Online(d, v)}}
<1>1. \A i \in Conectados(a) : d[a[i].cliente].addr = a[i].addr
    <2> SUFFICES ASSUME NEW i \in Conectados(a) PROVE d[a[i].cliente].addr = a[i].addr
        OBVIOUS
    <2>1. i \in 1 .. Len(a) /\ a[i].connected = 1
        BY DEF Conectados
    <2>2. d[a[i].cliente] = EntradaDe(a[i])
        BY <2>1, EntradaVista
    <2> QED
        BY <2>1, <2>2, CamposEntrada
<1>2. ASSUME NEW e \in E PROVE e \in L
    <2>1. PICK i \in Conectados(a) : e = <<a[i].cliente, a[i].addr>>
        OBVIOUS
    <2>2. e = <<a[i].cliente, d[a[i].cliente].addr>>
        BY <1>1, <2>1
    <2>3. a[i].cliente \in DOMAIN d /\ R!Online(d, a[i].cliente)
        BY EnLinea
    <2> QED
        BY <2>2, <2>3
<1>3. ASSUME NEW e \in L PROVE e \in E
    <2>1. PICK u \in DOMAIN d : R!Online(d, u) /\ e = <<u, d[u].addr>>
        OBVIOUS
    <2>2. PICK i \in Conectados(a) : a[i].cliente = u
        BY <2>1, EnLinea
    <2> QED
        BY <1>1, <2>1, <2>2
<1>4. ItemsDe(a, r) = E
    BY DEF ItemsDe
<1>5. R!Items(d, r) = L
    BY Entradas
<1> HIDE DEF E, L
<1> QED
    BY <1>2, <1>3, <1>4, <1>5

LEMMA ListContentPrometido ==
    ASSUME NEW a, Solido(a), NombresUnicos(a), NEW r, r.op = "list_content",
           Registrado(a, r.other)
    PROVE  ItemsDe(a, r) = R!Items(DirectorioDe(a), r)
<1> DEFINE v == r.other
           j == Hallada(a, r.op, v)
           s == a[j].files
           d == DirectorioDe(a)
           E == {<<s[k].name, s[k].descr>> : k \in 1 .. Len(s)}
           L == {<<f, d[v].files[f]>> : f \in DOMAIN d[v].files}
<1>0. a \in Seq(Tupla) /\ r.op # "register"
    BY DEF Solido
<1>1. j \in 1 .. Len(a) /\ a[j].cliente = v
    BY <1>0, HallaUnica
<1>2. d[v].files = FicherosDe(a[j])
    BY <1>1, EntradaVista, CamposEntrada
<1>3. FicherosUnicos(a[j])
    BY <1>1 DEF Solido
<1>4. ItemsDe(a, r) = E
    BY DEF ItemsDe
<1>5. R!Items(d, r) = L
    BY Entradas
<1> HIDE DEF j, d, v
<1>6. \A k \in 1 .. Len(s) : d[v].files[s[k].name] = s[k].descr
    BY <1>2, <1>3, DescripcionDe
<1>7. DOMAIN d[v].files = {s[k].name : k \in 1 .. Len(s)}
    BY <1>2, DominioFicheros
<1> HIDE DEF s
<1>8. ASSUME NEW e \in E PROVE e \in L
    BY <1>6, <1>7
<1>9. ASSUME NEW e \in L PROVE e \in E
    <2>1. PICK f \in DOMAIN d[v].files : e = <<f, d[v].files[f]>>
        OBVIOUS
    <2>2. PICK k \in 1 .. Len(s) : f = s[k].name
        BY <1>7
    <2> QED
        BY <1>6, <2>1, <2>2
<1> HIDE DEF E, L
<1> QED
    BY <1>4, <1>5, <1>8, <1>9 DEF d, v

LEMMA GetFilePrometido ==
    ASSUME NEW a, Solido(a), NombresUnicos(a), NEW r, r.op = "get_file",
           CodigoDe(a, r) = 0
    PROVE  ItemsDe(a, r) = R!Items(DirectorioDe(a), r)
<1> DEFINE i == Hallada(a, r.op, r.user)
<1>0. r.op # "register" /\ r.op \in R!Operations
    BY DEF R!Operations
<1>1. i # 0 /\ a[i].connected = 1
    BY <1>0, Admitida
<1>2. DirectorioDe(a)[r.user]
         = [addr  |-> IF a[i].connected = 1 THEN a[i].addr ELSE NoAddr,
            files |-> FicherosDe(a[i])]
    BY <1>0, <1>1, TuplaHallada
<1>3. DirectorioDe(a)[r.user].addr = a[i].addr
    BY <1>1, <1>2
<1>4. ItemsDe(a, r) = {a[i].addr}
    BY DEF ItemsDe
<1> QED
    BY <1>3, <1>4, Entradas

\* In a sound store without repeated names, a request that does not register
\* a taken name gets the answer of the directory, leaves the directory it
\* should, and the store sound and its names unique (server.c 250-940).
THEOREM Prometido ==
    ASSUME NEW a, Solido(a), NombresUnicos(a), NEW r, Aplicable(r), ~Repite(a, r)
    PROVE  LET d == DirectorioDe(a)
           IN  /\ CodigoDe(a, r) = R!Code(d, r)
               /\ RespuestaA(a, r) = R!Answer(d, r)
               /\ CodigoDe(a, r) = 0 =>
                     /\ ItemsDe(a, r) = R!Items(d, r)
                     /\ DirectorioDe(AlmacenTras(a, r)) = R!Effect(d, r)
                     /\ Solido(AlmacenTras(a, r))
                     /\ NombresUnicos(AlmacenTras(a, r))
<1> DEFINE d == DirectorioDe(a)
<1>0. r.op \in R!Operations
    BY DEF Aplicable
<1>1. CodigoDe(a, r) = R!Code(d, r)
    BY <1>0, CodigoPrometido
<1>2. ASSUME CodigoDe(a, r) = 0, r.op \notin {"list_users", "list_content", "get_file"}
      PROVE  Cumple(a, r) /\ ItemsDe(a, r) = R!Items(d, r)
    <2>1. r.op \in {"register", "unregister", "connect", "disconnect", "publish", "delete"}
        BY <1>0, <1>2 DEF R!Operations
    <2>2. ItemsDe(a, r) = {} /\ R!Items(d, r) = {}
        <3>1. ItemsDe(a, r) = {}
            BY <1>2 DEF ItemsDe
        <3> QED
            BY <2>1, <3>1, Entradas
    <2>3. Cumple(a, r)
        BY <1>2, <2>1, RegisterPrometido, UnregisterPrometido, ConnectPrometido,
           DisconnectPrometido, PublishPrometido, DeletePrometido
    <2> QED
        BY <2>2, <2>3
<1>3. ASSUME CodigoDe(a, r) = 0, r.op \in {"list_users", "list_content", "get_file"}
      PROVE  Cumple(a, r) /\ ItemsDe(a, r) = R!Items(d, r)
    <2>1. AlmacenTras(a, r) = a
        BY <1>3 DEF AlmacenTras
    <2>2. R!Effect(d, r) = d
        BY <1>3, Efectos
    <2>3. r.op = "list_content" => Registrado(a, r.other)
        BY <1>0, <1>3, Admitida
    <2>4. ItemsDe(a, r) = R!Items(d, r)
        BY <1>3, <2>3, ListUsersPrometido, ListContentPrometido, GetFilePrometido
    <2> QED
        BY <2>1, <2>2, <2>4 DEF Cumple
<1>4. RespuestaA(a, r) = R!Answer(d, r)
    BY <1>1, <1>2, <1>3 DEF RespuestaA, R!Answer
<1> QED
    BY <1>1, <1>2, <1>3, <1>4 DEF Cumple

-----------------------------------------------------------------------------
(* Stores in which a name is held by several tuples.                       *)

\* A set of numbers that is not empty has a smallest one.
LEMMA ElMenor ==
    ASSUME NEW T, T \subseteq Nat, T # {}
    PROVE  \E x \in T : \A y \in T : x <= y
<1> DEFINE Menor == {p \in Nat \X Nat : p[1] < p[2]}
<1>0. IsWellFoundedOn(Menor, Nat)
    BY NatLessThanWellFounded DEF OpToRel
<1>1. PICK x \in T : \A y \in T : ~(<<y, x>> \in Menor)
  <2> HIDE DEF Menor
  <2> QED
    BY <1>0, WFMin
<1>2. ASSUME NEW y \in T PROVE x <= y
  <2>2. ~(y < x)
      BY <1>1
  <2> QED
      BY <2>2
<1> QED
    BY <1>2

\* A registered user is found, however many tuples hold the name.
LEMMA HallaAlguna ==
    ASSUME NEW a \in Seq(Tupla), NEW op, op # "register", NEW u
    PROVE  Hallada(a, op, u) # 0 => Hallada(a, op, u) \in 1 .. Len(a)
<1>0. Len(a) \in Nat
    BY LenProperties
<1>1. CASE ~Registrado(a, u)
  <2>1. Halla(a, op, u, 0)
      BY <1>1 DEF Halla
  <2> QED
      BY <2>1, HalladaEs
<1>2. CASE Registrado(a, u)
  <2> DEFINE T == {i \in 1 .. Len(a) : a[i].cliente = u}
             Q == {n \in 0 .. Len(a) : \E i \in T : n = Len(a) - i}
  <2>1. T \subseteq Nat /\ T # {} /\ Q \subseteq Nat /\ Q # {}
    <3>1. PICK i \in 1 .. Len(a) : a[i].cliente = u
        BY <1>2 DEF Registrado
    <3>2. i \in T /\ Len(a) - i \in Q
        BY <1>0, <3>1
    <3>3. T \subseteq Nat /\ Q \subseteq Nat
        BY <1>0
    <3> HIDE DEF T, Q
    <3> QED
        BY <3>2, <3>3
  <2>2. PICK i \in T : \A j \in T : i <= j
    <3> HIDE DEF T
    <3> QED
      BY <2>1, ElMenor
  <2>3. PICK n \in Q : \A m \in Q : n <= m
    <3> HIDE DEF Q
    <3> QED
      BY <2>1, ElMenor
  <2>4. PICK k \in T : n = Len(a) - k
      BY <2>3
  <2>5. EsPrimero(a, u, i)
      BY <1>0, <2>2 DEF EsPrimero
  <2>6. EsUltimo(a, u, k)
    <3>1. ASSUME NEW j \in k + 1 .. Len(a), a[j].cliente = u PROVE FALSE
      <4>1. j \in T /\ Len(a) - j \in Q
          BY <1>0, <3>1
      <4>2. n <= Len(a) - j
          BY <2>3, <4>1
      <4>3. n = Len(a) - k /\ k \in 1 .. Len(a) /\ j \in Int /\ j > k
          BY <1>0, <2>4
      <4> HIDE DEF T, Q
      <4> QED
          BY <1>0, <4>2, <4>3
    <3> QED
        BY <1>0, <3>1 DEF EsUltimo
  <2>7. Halla(a, op, u, IF op = "unregister" THEN i ELSE k)
      BY <2>5, <2>6 DEF Halla
  <2> QED
      BY <1>0, <2>7, HalladaEs
<1> QED
    BY <1>1, <1>2

\* A request that is served leaves a store whose tuples are as they should be, with
\* a name in it twice or not.
LEMMA SolidoTras ==
    ASSUME NEW a, Solido(a), NEW r, Aplicable(r), CodigoDe(a, r) = 0
    PROVE  Solido(AlmacenTras(a, r))
<1> DEFINE u == r.user
           i == Hallada(a, r.op, u)
           x == a[i]
<1>0. a \in Seq(Tupla) /\ Len(a) \in Nat /\ \A j \in 1 .. Len(a) : Sano(a[j])
    BY SolidoSano, LenProperties DEF Solido
<1>1. CASE r.op = "register"
  <2>1. Sano(TuplaVacia(u)) /\ TuplaVacia(u) \in Tupla
      BY <1>1 DEF Aplicable, Sano, TuplaVacia, Tupla, FicherosUnicos
  <2> DEFINE t == TuplaVacia(u)
  <2>2. AlmacenTras(a, r) = Append(a, t)
      BY <1>1 DEF AlmacenTras
  <2> HIDE DEF t
  <2>3. Append(a, t) \in Seq(Tupla) /\ \A j \in 1 .. Len(Append(a, t)) : Sano(Append(a, t)[j])
      BY <1>0, <2>1, AppendProperties DEF t
  <2> QED
      BY <2>2, <2>3, SolidoSano
<1>2. CASE r.op # "register" /\ r.op \in {"list_users", "list_content", "get_file"}
    BY <1>2 DEF AlmacenTras
<1>3. CASE r.op \in {"unregister", "connect", "disconnect", "publish", "delete"}
  <2>1. i # 0
      BY <1>3, Admitida DEF Aplicable
  <2>2. i \in 1 .. Len(a) /\ Sano(x)
      BY <1>0, <1>3, <2>1, HallaAlguna
  <2>3. x \in Tupla /\ x.files \in Seq(Fichero) /\ FicherosUnicos(x) /\ Len(x.files) \in Nat
      BY <2>2, LenProperties DEF Sano, Tupla
  <2>4. CASE r.op = "unregister"
    <3>1. /\ Quitar(a, i) \in Seq(Tupla) /\ Len(Quitar(a, i)) = Len(a) - 1
          /\ \A j \in 1 .. Len(a) - 1 : Quitar(a, i)[j] = IF j = i THEN a[Len(a)] ELSE a[j]
        BY <1>0, <2>2, QuitarProps
    <3>2. \A j \in 1 .. Len(Quitar(a, i)) : Sano(Quitar(a, i)[j])
        BY <1>0, <2>2, <3>1
    <3>3. AlmacenTras(a, r) = Quitar(a, i)
        BY <2>4 DEF AlmacenTras
    <3> QED
        BY <3>1, <3>2, <3>3, SolidoSano
  <2>5. CASE r.op \in {"connect", "disconnect"}
    <3>1. PICK t : Sano(t) /\ AlmacenTras(a, r) = [a EXCEPT ![i] = t]
      <4>1. CASE r.op = "connect"
        <5>1. AlmacenTras(a, r) = [a EXCEPT ![i] = [x EXCEPT !.connected = 1, !.addr = r.addr]]
            BY <1>0, <2>2, <2>3, <4>1 DEF AlmacenTras, Conectar, Tupla
        <5> QED
            BY <2>2, <4>1, <5>1, SanaCambiada DEF Aplicable
      <4>2. CASE r.op = "disconnect"
        <5>1. AlmacenTras(a, r) = [a EXCEPT ![i] = [x EXCEPT !.connected = 0]]
            BY <1>0, <2>2, <4>2 DEF AlmacenTras, Desconectar
        <5> QED
            BY <2>2, <5>1, SanaCambiada
      <4> QED
          BY <2>5, <4>1, <4>2
    <3> HIDE DEF x, i
    <3>2. Solido([a EXCEPT ![i] = t])
        BY <2>2, <3>1, SolidoCambiado
    <3> QED
        BY <3>1, <3>2
  <2>6. CASE r.op \in {"publish", "delete"}
    <3>1. PICK fs \in Seq(Fichero) :
              /\ \A j, k \in 1 .. Len(fs) : fs[j].name = fs[k].name => j = k
              /\ AlmacenTras(a, r) = [a EXCEPT ![i] = [x EXCEPT !.files = fs]]
      <4>1. CASE r.op = "publish"
        <5> DEFINE fs == Append(x.files, [name |-> r.file, descr |-> r.descr])
        <5>1. ~Publicado(x, r.file) /\ r.file \in Files /\ r.descr \in Descrs
            BY <4>1, Admitida DEF Aplicable
        <5>2. \A j, k \in 1 .. Len(fs) : fs[j].name = fs[k].name => j = k
            BY <2>3, <5>1, PublicarFicheros
        <5>3. fs \in Seq(Fichero)
            BY <2>3, <5>1, AppendProperties DEF Fichero
        <5>4. AlmacenTras(a, r) = [a EXCEPT ![i] = [x EXCEPT !.files = fs]]
            BY <1>0, <2>2, <4>1 DEF AlmacenTras, Publicar
        <5> HIDE DEF fs, x, i
        <5> QED
            BY <5>2, <5>3, <5>4
      <4>2. CASE r.op = "delete"
        <5> DEFINE k == CHOOSE j \in 1 .. Len(x.files) : EsUltimoFichero(x, r.file, j)
                   fs == Quitar(x.files, k)
        <5>1. Publicado(x, r.file)
            BY <4>2, Admitida DEF Aplicable
        <5>2. k \in 1 .. Len(x.files)
          <6>1. PICK j \in 1 .. Len(x.files) : x.files[j].name = r.file
              BY <5>1 DEF Publicado
          <6>2. EsUltimoFichero(x, r.file, j)
              BY <2>3, <6>1 DEF EsUltimoFichero, FicherosUnicos
          <6> QED
              BY <6>2
        <5>3. AlmacenTras(a, r) = [a EXCEPT ![i] = [x EXCEPT !.files = fs]]
            BY <1>0, <2>2, <4>2 DEF AlmacenTras, Borrar
        <5> HIDE DEF k
        <5>4. \A j, l \in 1 .. Len(fs) : fs[j].name = fs[l].name => j = l
            BY <2>3, <5>2, QuitarFicheros
        <5>5. fs \in Seq(Fichero)
            BY <2>3, <5>2, QuitarProps
        <5> HIDE DEF fs, x, i
        <5> QED
            BY <5>3, <5>4, <5>5
      <4> QED
          BY <2>6, <4>1, <4>2
    <3> HIDE DEF x, i
    <3>2. Sano([x EXCEPT !.files = fs])
        BY <2>2, <3>1, SanaCambiada
    <3>3. Solido([a EXCEPT ![i] = [x EXCEPT !.files = fs]])
        BY <2>2, <3>2, SolidoCambiado
    <3> QED
        BY <3>1, <3>3
  <2> QED
      BY <1>3, <2>4, <2>5, <2>6
<1> QED
    BY <1>1, <1>2, <1>3 DEF Aplicable, R!Operations
=============================================================================
