------------------------------ MODULE Almacen ------------------------------
(***************************************************************************)
(* The store of server.c: the dynamic array almacen of struct tupla, one   *)
(* per registered user, and the searches and updates the handlers make in  *)
(* it.  The array with n_elementos is a sequence, and so is the array      *)
(* files with its file_count.  ip and puerto are only ever written and     *)
(* read together: one address stands for both.                             *)
(***************************************************************************)
EXTENDS Integers, Sequences, FiniteSets

CONSTANTS
    Users,    \* names of users, registered or not
    Files,    \* names of files
    Descrs,   \* descriptions of files
    Addrs,    \* addresses (ip and port) of clients
    NoAddr    \* ip and puerto of a tuple that has never been connected

ASSUME AlmacenAssumption == NoAddr \notin Addrs

Fichero == [name : Files, descr : Descrs]

Tupla == [cliente   : Users,
          files     : Seq(Fichero),
          connected : {0, 1},
          addr      : Addrs \cup {NoAddr}]

\* The tuple register inserts.
TuplaVacia(u) ==
    [cliente |-> u, files |-> <<>>, connected |-> 0, addr |-> NoAddr]

-----------------------------------------------------------------------------
(* Searches.  unregister takes the first tuple of a user, every other      *)
(* handler runs its loop to the end and keeps the last one.                *)

Registrado(a, u) == \E i \in 1 .. Len(a) : a[i].cliente = u

EsPrimero(a, u, i) ==
    /\ i \in 1 .. Len(a)
    /\ a[i].cliente = u
    /\ \A j \in 1 .. i - 1 : a[j].cliente # u

EsUltimo(a, u, i) ==
    /\ i \in 1 .. Len(a)
    /\ a[i].cliente = u
    /\ \A j \in i + 1 .. Len(a) : a[j].cliente # u

\* The loop of register compares almacen->cliente, the name in the FIRST
\* tuple, whatever the value of i.
EstaEnUso(a, u) == Len(a) > 0 /\ a[1].cliente = u

\* Defective variant: only the first file is compared, as in register.
PublicadoElPrimero(t, f) == Len(t.files) > 0 /\ t.files[1].name = f

Publicado(t, f) == \E i \in 1 .. Len(t.files) : t.files[i].name = f

\* Defective variant: the index of the file found is not kept.
SinIndice(t, f, i) == i = 1 /\ Publicado(t, f)

EsUltimoFichero(t, f, i) ==
    /\ i \in 1 .. Len(t.files)
    /\ t.files[i].name = f
    /\ \A j \in i + 1 .. Len(t.files) : t.files[j].name # f

\* The indices list_users sends, in the order of its loop.
Conectados(a) == {i \in 1 .. Len(a) : a[i].connected = 1}

-----------------------------------------------------------------------------
(* Updates.                                                                *)

\* Defective variant: the last element is dropped and i keeps its own.
QuitarUltimo(s, i) == SubSeq(s, 1, Len(s) - 1)

\* Defective variant: the last element is cleared and still counted.
QuitarSinBajar(s, i) == [s EXCEPT ![i] = s[Len(s)], ![Len(s)] = <<>>]

\* Element i is overwritten by the last one and the sequence loses its last.
Quitar(s, i) ==
    [j \in 1 .. Len(s) - 1 |-> IF j = i THEN s[Len(s)] ELSE s[j]]

\* Defective variant: the tuple is inserted without a look at the capacity.
SinDoblar(n, max) == max

\* The capacity register leaves: doubled when the array is full.
Doblar(n, max) == IF n = max THEN 2 * max ELSE max

\* Defective variant: the address of the last connection is kept.
ConectarSinDireccion(a, i, addr) == [a EXCEPT ![i].connected = 1]

Conectar(a, i, addr) ==
    [a EXCEPT ![i].connected = 1, ![i].addr = addr]

\* ip and puerto stay as they were.
Desconectar(a, i) == [a EXCEPT ![i].connected = 0]

Publicar(a, i, f, d) ==
    [a EXCEPT ![i].files = Append(@, [name |-> f, descr |-> d])]

Borrar(a, i, k) == [a EXCEPT ![i].files = Quitar(@, k)]

-----------------------------------------------------------------------------
(* What the store should look like.                                        *)

NombresUnicos(a) ==
    \A i, j \in 1 .. Len(a) : a[i].cliente = a[j].cliente => i = j

FicherosUnicos(t) ==
    \A i, j \in 1 .. Len(t.files) : t.files[i].name = t.files[j].name => i = j

\* What the handlers take for granted of the store they find.
Solido(a) ==
    /\ a \in Seq(Tupla)
    /\ \A i \in 1 .. Len(a) :
          FicherosUnicos(a[i]) /\ (a[i].connected = 1 => a[i].addr # NoAddr)

=============================================================================
