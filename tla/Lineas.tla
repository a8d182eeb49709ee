------------------------------- MODULE Lineas -------------------------------
(***************************************************************************)
(* What the two ends of a connection count on: texts arrive whole and in   *)
(* the order they were sent, none twice and none left out.  When the       *)
(* sender dies, the text it was sending may arrive as its first bytes      *)
(* only, and the calls that follow find nothing.                           *)
(***************************************************************************)
EXTENDS Integers, Sequences

CONSTANTS
    Textos,  \* the texts
    Nada,    \* what is read where there is nothing left
    N        \* one more than the bytes a line keeps

VARIABLES
    lineas,     \* the turns of the texts that are read as lines
    enviados, recibidos, vivo

vars == <<lineas, enviados, recibidos, vivo>>

Init ==
    /\ lineas \subseteq Nat
    /\ enviados = <<>> /\ recibidos = <<>>
    /\ vivo = TRUE

Turno == Len(recibidos) + 1

Recorta(x) == IF Turno \in lineas /\ Len(x) >= N THEN SubSeq(x, 1, N - 1) ELSE x

Envia ==
    /\ vivo
    /\ \E x \in Textos : enviados' = Append(enviados, x)
    /\ UNCHANGED <<lineas, recibidos, vivo>>

Entrega ==
    /\ Turno <= Len(enviados)
    /\ recibidos' = Append(recibidos, Recorta(enviados[Turno]))
    /\ UNCHANGED <<lineas, enviados, vivo>>

EntregaCortado ==
    /\ ~vivo
    /\ enviados # <<>> /\ Turno = Len(enviados)
    /\ \E n \in 0 .. Len(enviados[Turno]) :
          recibidos' = Append(recibidos, Recorta(SubSeq(enviados[Turno], 1, n)))
    /\ UNCHANGED <<lineas, enviados, vivo>>

EntregaNada ==
    /\ ~vivo
    /\ Turno >= Len(enviados)
    /\ \E x \in {Nada, <<>>} : recibidos' = Append(recibidos, x)
    /\ UNCHANGED <<lineas, enviados, vivo>>

Muere == vivo /\ vivo' = FALSE /\ UNCHANGED <<lineas, enviados, recibidos>>

Next == Envia \/ Entrega \/ EntregaCortado \/ EntregaNada \/ Muere

Spec == Init /\ [][Next]_vars
=============================================================================
