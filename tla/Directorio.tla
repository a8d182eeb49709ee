----------------------------- MODULE Directorio -----------------------------
(***************************************************************************)
(* The directory of module Respuestas with several clients at a time: the  *)
(* request of each arrives, whole or in part, is read, and is served in    *)
(* one step.                                                               *)
(***************************************************************************)
EXTENDS Respuestas

CONSTANTS
    Threads,    \* the threads that serve requests
    Peticion,   \* the requests
    NoArgs      \* no request has been read yet

VARIABLES
    dir,   \* registered users -> [addr, files], files: names -> descriptions
    said,  \* what arrives of each client's request: some fields of it
    ask,   \* the request each thread has read
    ans,   \* the answer each thread has given
    gone   \* the threads whose client has gone away

vars == <<dir, said, ask, ans, gone>>

Nothing == [f \in {} |-> NoAddr]

Init ==
    /\ IsDirectory(dir)
    /\ said = [t \in Threads |-> Nothing]
    /\ ask = [t \in Threads |-> NoArgs]
    /\ ans = [t \in Threads |-> NoAns]
    /\ gone = {}

-----------------------------------------------------------------------------
\* What has arrived names a known operation, or is all that one needs.
Named(s) == "op" \in DOMAIN s /\ s.op \in Operations
Whole(s) == Named(s) /\ Arguments(s.op) \subseteq DOMAIN s

\* Request r has all that s has.
Completes(r, s) == \A f \in DOMAIN s : r[f] = s[f]

\* A client comes; it may be gone before its request is read.
Arrive(t) ==
    /\ UNCHANGED <<dir, ask, ans>>
    /\ said[t] = Nothing /\ ask[t] = NoArgs /\ ans[t] = NoAns
    /\ said' = [said EXCEPT ![t] = said'[t]]
    /\ \E r \in Peticion : Completes(r, said'[t])
    /\ gone' \in {gone, gone \cup {t}}

\* A request is read as it was sent.  One that a client has cut short by
\* leaving may be read too, with anything in the place of what is missing.
Read(t, r) ==
    /\ ask[t] = NoArgs
    /\ ans[t] = NoAns
    /\ ask' = [ask EXCEPT ![t] = r]
    /\ Named(said[t])
    /\ Completes(r, said[t])
    /\ Whole(said[t]) \/ t \in gone
    /\ UNCHANGED <<dir, said, ans, gone>>

Serve(t) ==
    /\ ask[t] # NoArgs
    /\ ans[t] = NoAns
    /\ ans' = [ans EXCEPT ![t] = Answer(dir, ask[t])]
    /\ dir' = IF Code(dir, ask[t]) = 0 THEN Effect(dir, ask[t]) ELSE dir
    /\ UNCHANGED <<said, ask, gone>>

Fail(t, codes) ==
    /\ ans[t] = NoAns
    /\ \E c \in codes : ans' = [ans EXCEPT ![t] = [code |-> c, items |-> {}]]
    /\ UNCHANGED <<dir, said, ask, gone>>

\* The operation is none of the known ones.
Reject(t) ==
    /\ ask[t] = NoArgs
    /\ "op" \in DOMAIN said[t] /\ said[t].op \notin Operations
    /\ Fail(t, {-1})

\* The client left before its request was complete, or before the answer of
\* an operation that sends more than a code, and the thread has noticed: the
\* request has no effect.
GiveUp(t) ==
    /\ t \in gone
    /\ \/ ask[t] = NoArgs /\ ~Whole(said[t]) /\ Fail(t, {2, 3, 4})
       \/ ask[t] # NoArgs /\ ask[t].op = "list_users" /\ Fail(t, {3})
       \/ ask[t] # NoArgs /\ ask[t].op = "list_content" /\ Fail(t, {4})
       \/ ask[t] # NoArgs /\ ask[t].op = "get_file" /\ Fail(t, {-1, 2})

Next ==
    \E t \in Threads :
        \/ Arrive(t)
        \/ \E r \in Peticion : Read(t, r)
        \/ Serve(t)
        \/ Reject(t)
        \/ GiveUp(t)

Spec == Init /\ [][Next]_vars
=============================================================================
