----------------------------- MODULE MCCliente -----------------------------
(* Cliente for TLC: the values of the constants.                            *)
EXTENDS Cliente, TLC

CONSTANTS c1, c2, u1, u2, f1, n1, d1, p1, p2

MCClientes == {c1, c2}
MCUsers == {u1, u2}
MCFiles == {f1, n1, End}
MCRaros == {n1}
MCDescrs == {d1}
MCAddrs == {p1, p2}

Ord(op, u, f, a, q) ==
    [op |-> op, user |-> u, other |-> u, file |-> f, descr |-> d1, addr |-> a, quit |-> q]

MCOrdenes ==
    {Ord("register", u1, f1, p1, FALSE),
     Ord("connect", u1, f1, p1, FALSE), Ord("connect", u1, f1, p2, FALSE),
     Ord("connect", u2, f1, p1, FALSE),
     Ord("disconnect", u1, f1, p1, FALSE), Ord("disconnect", u1, f1, p1, TRUE)}
    \cup {Ord("get_file", u1, f, p1, FALSE) : f \in MCFiles}

\* Both users registered, u2 in the first tuple and u1, with every file, in the
\* second one; an earlier run may have left u1 connected.
Fila(f) == [name |-> f, descr |-> d1]
MCGuardados ==
    {<<TuplaVacia(u2),
       [cliente |-> u1, files |-> <<Fila(f1), Fila(n1), Fila(End)>>,
        connected |-> n, addr |-> p2]>> : n \in {0, 1}}
=============================================================================
