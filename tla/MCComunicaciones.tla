-------------------------- MODULE MCComunicaciones --------------------------
(* Comunicaciones for TLC: the values of the constants.                     *)
EXTENDS Comunicaciones, TLC

CONSTANTS a, b, c

MCBytes == {a, b, c, Nul, Nl}
MCAltos == {c}

\* Empty, within, at and past the two bytes that fit a line, and one that is not
\* ASCII; the last one can only be contents of a file.
MCTextos == {<<>>, <<a>>, <<b, a>>, <<a, c, a>>, <<a, a, b, b>>, <<b, Nul, Nl>>}

\* A request, an answer that is a listing, and the transfer of a file.
MCProtocolos ==
    {<<"readLine", "readLine", "readLine">>,
     <<"readString", "readString", "readString">>,
     <<"readString", "readString_binary">>}
=============================================================================
