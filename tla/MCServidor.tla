----------------------------- MODULE MCServidor -----------------------------
(* Servidor for TLC: the values of the constants.                           *)
EXTENDS ServidorDirectorio, TLC

CONSTANTS u1, u2, f1, f2, d1, a1, a2, t1, t2

MCUsers == {u1, u2}
MCFiles == {f1, f2}
MCDescrs == {d1}
MCAddrs == {a1, a2}
Hilos2 == {t1, t2}
Simetria2 == Permutations(Hilos2)

Pet(op, u, o, f, a) ==
    [op |-> op, user |-> u, other |-> o, file |-> f, descr |-> d1, addr |-> a]

\* A request without a use for its other fields.
P1(op, u) == Pet(op, u, u, f1, a1)

Fich(f) == [name |-> f, descr |-> d1]
Tup(u, fs, c, a) == [cliente |-> u, files |-> fs, connected |-> c, addr |-> a]

\* Stores of an earlier run, in which a user that never disconnected is still
\* connected: none, one and two users in every state of connection, and a
\* name that was registered twice.
Dos(c1, c2) ==
    <<Tup(u1, <<Fich(f1), Fich(f2)>>, c1, a1), Tup(u2, <<Fich(f1)>>, c2, a2)>>
StoresUnicos ==
    {<<>>, <<Tup(u2, <<>>, 0, NoAddr)>>}
    \cup {Dos(c1, c2) : c1, c2 \in {0, 1}}
Stores ==
    StoresUnicos
    \cup {Dos(1, 1) \o <<Tup(u2, <<Fich(f2)>>, 0, a1)>>}

\* One request of each kind, some on the same user, some on different ones.
Todas ==
    {P1("register", u1), P1("register", u2),
     P1("unregister", u2),
     Pet("connect", u2, u2, f1, a2),
     P1("disconnect", u1), P1("disconnect", u2),
     Pet("publish", u1, u1, f2, a1), Pet("publish", u2, u2, f2, a1),
     Pet("delete", u1, u1, f2, a1), Pet("delete", u2, u2, f1, a1),
     P1("list_users", u1),
     Pet("list_content", u1, u2, f1, a1),
     Pet("get_file", u1, u1, f1, a1)}

\* Requests for the runs in which clients go away.
Algunas ==
    {Pet("connect", u2, u2, f1, a2), Pet("delete", u2, u2, f1, a1),
     P1("list_users", u1), Pet("get_file", u1, u1, f1, a1), P1("otra", u1)}

BasuraMC == {P1("otra", u2)}
UnDos == {Dos(1, 0)}

SoloQuedan == {"stays"}
Finalizan == {"stays", "closes", "resets", "stalls"}
=============================================================================
