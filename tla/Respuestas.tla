----------------------------- MODULE Respuestas -----------------------------
(***************************************************************************)
(* What the server promises: a directory that maps each registered user to *)
(* the address it is connected from, if any, and to the files it has       *)
(* published.  The answer to a request and what it changes, as functions   *)
(* of the directory.  The codes are those the handlers of server.c send.   *)
(***************************************************************************)
EXTENDS Integers

CONSTANTS
    Users, Files, Descrs, Addrs,
    NoAddr      \* the user is not connected

Operations == {"register", "unregister", "connect", "disconnect", "publish",
               "delete", "list_users", "list_content", "get_file"}

\* The fields of a request that its operation is about.
Arguments(op) ==
    CASE op \in {"register", "unregister", "disconnect", "list_users"} -> {"user"}
      [] op = "connect" -> {"user", "addr"}
      [] op = "publish" -> {"user", "file", "descr"}
      [] op \in {"delete", "get_file"} -> {"user", "file"}
      [] op = "list_content" -> {"user", "other"}

\* No answer yet.
NoResp == -2
NoAns == [code |-> NoResp, items |-> {}]

IsDirectory(d) ==
    /\ DOMAIN d \subseteq Users
    /\ \A u \in DOMAIN d :
          /\ d[u].addr \in Addrs \cup {NoAddr}
          /\ DOMAIN d[u].files \subseteq Files
          /\ \A f \in DOMAIN d[u].files : d[u].files[f] \in Descrs

Known(d, u) == u \in DOMAIN d
Online(d, u) == Known(d, u) /\ d[u].addr # NoAddr
Offers(d, u, f) == Known(d, u) /\ f \in DOMAIN d[u].files

-----------------------------------------------------------------------------
\* The code of operation op, by what holds of its user (known, online, offers
\* the file), of everybody (anyone is online), and of the other user (known).
CodeOf(op, known, online, offers, anyone, other) ==
    CASE op = "register" -> IF known THEN 1 ELSE 0
      [] op \in {"unregister", "connect"} ->
            IF ~known THEN 1 ELSE IF online THEN 2 ELSE 0
      [] op = "disconnect" -> IF ~known THEN 1 ELSE IF ~online THEN 2 ELSE 0
      [] op = "publish" ->
            IF ~known THEN 1 ELSE IF ~online THEN 2 ELSE IF offers THEN 3 ELSE 0
      [] op = "delete" ->
            IF ~known THEN 1 ELSE IF ~online THEN 2 ELSE IF ~offers THEN 3 ELSE 0
      [] op = "list_users" -> IF ~known THEN 1 ELSE IF ~anyone THEN 2 ELSE 0
      [] op = "list_content" ->
            IF ~known THEN 1 ELSE IF ~online THEN 2 ELSE IF ~other THEN 3 ELSE 0
      [] op = "get_file" -> IF ~online THEN 2 ELSE IF ~offers THEN 1 ELSE 0

Code(d, r) ==
    CodeOf(r.op, Known(d, r.user), Online(d, r.user), Offers(d, r.user, r.file),
           \E u \in DOMAIN d : Online(d, u), Known(d, r.other))

\* What is sent after code 0.
Items(d, r) ==
    CASE r.op = "list_users" ->
            {<<u, d[u].addr>> : u \in {v \in DOMAIN d : Online(d, v)}}
      [] r.op = "list_content" ->
            {<<f, d[r.other].files[f]>> : f \in DOMAIN d[r.other].files}
      [] r.op = "get_file" -> {d[r.user].addr}
      [] OTHER -> {}

Answer(d, r) ==
    LET c == Code(d, r)
    IN  [code |-> c, items |-> IF c = 0 THEN Items(d, r) ELSE {}]

\* d with u mapped to e.
Put(d, u, e) == [v \in DOMAIN d \cup {u} |-> IF v = u THEN e ELSE d[v]]

\* The directory after a request that is answered with 0.
Effect(d, r) ==
    CASE r.op = "register" ->
            Put(d, r.user, [addr |-> NoAddr, files |-> [f \in {} |-> {}]])
      [] r.op = "unregister" -> [u \in DOMAIN d \ {r.user} |-> d[u]]
      [] r.op = "connect" -> [d EXCEPT ![r.user].addr = r.addr]
      [] r.op = "disconnect" -> [d EXCEPT ![r.user].addr = NoAddr]
      [] r.op = "publish" ->
            [d EXCEPT ![r.user].files = Put(@, r.file, r.descr)]
      [] r.op = "delete" ->
            [d EXCEPT ![r.user].files =
                [f \in DOMAIN @ \ {r.file} |-> @[f]]]
      [] OTHER -> d
=============================================================================
