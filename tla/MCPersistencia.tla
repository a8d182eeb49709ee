--------------------------- MODULE MCPersistencia ---------------------------
(* Persistencia for TLC: the values of the constants.                       *)
EXTENDS Persistencia

CONSTANTS u1, u2, f1, f2, d1, a1, main, t1

MCUsers == {u1, u2}
MCFiles == {f1, f2}
MCDescrs == {d1}
MCAddrs == {a1}
MCHilos == {main, t1}

Fich(f) == [name |-> f, descr |-> d1]
Tup(u, fs, c) == [cliente |-> u, files |-> fs, connected |-> c, addr |-> a1]

\* An empty file, and one with a connected user and one that is not, for which
\* a load with room for one tuple doubles the array twice.
Ficheros ==
    {<<>>,
     <<Tup(u1, <<Fich(f1), Fich(f2)>>, 1), Tup(u2, <<Fich(f1)>>, 0)>>}
=============================================================================
