----------------------------- MODULE Aceptador -----------------------------
(***************************************************************************)
(* The main loop of server.c and the first lines of the thread it starts   *)
(* for every connection.  main accepts a connection into the global sc,    *)
(* starts a thread that is given the ADDRESS of sc, and may not accept     *)
(* again before the thread has copied sc; sync_mutex, sync_copied and      *)
(* sync_cond carry that handshake.                                         *)
(*                                                                         *)
(* Connections are numbered in the order in which they are accepted, from  *)
(* 0: the connection accepted in the iteration of main that has            *)
(* contador = k is connection k, and so is the thread started for it.      *)
(***************************************************************************)
EXTENDS Integers

CONSTANTS
    MaxConns,   \* bound: the connections that ever arrive
    ThidSize    \* the length of thid, MAX_STR in the code

Conns == 0 .. MaxConns - 1

\* The owners of sync_mutex that are no connection's thread: nobody, main.
Nobody == -1
Main == -2

ASSUME AceptadorAssumption ==
    /\ MaxConns \in Nat
    /\ ThidSize \in Nat

VARIABLES
    mpc,          \* where main is in its loop
    sc,           \* the global socket
    contador,     \* the index main gives the next thread
    sync_mutex,   \* the owner of sync_mutex
    sync_copied,  \* the flag of the handshake
    pc,           \* where each thread is
    sc_local      \* the connection each thread copied

vars == <<mpc, sc, contador, sync_mutex, sync_copied, pc, sc_local>>

NoConn == -1

Init ==
    /\ mpc = "accept"
    /\ sc = NoConn
    /\ contador = 0
    /\ sync_mutex = Nobody
    /\ sync_copied = FALSE
    /\ pc = [k \in Conns |-> "none"]
    /\ sc_local = [k \in Conns |-> NoConn]

-----------------------------------------------------------------------------
(* main.  When it returns, on an error of accept or of pthread_create, the *)
(* process ends and every thread with it.                                  *)

Running == mpc # "exit"

Accept ==
    /\ mpc = "accept"
    /\ contador < MaxConns
    /\ mpc' = "create"
    /\ sc' = contador
    /\ UNCHANGED <<contador, sync_mutex, sync_copied, pc, sc_local>>

AcceptFails ==
    /\ mpc = "accept"
    /\ mpc' = "exit"
    /\ sc' = NoConn
    /\ UNCHANGED <<contador, sync_mutex, sync_copied, pc, sc_local>>

\* &thid[contador] is not checked against the array: past its end
\* pthread_create writes over other variables, and CreateFails is what the
\* process does when it does not survive that.
Create ==
    /\ mpc = "create"
    /\ mpc' = "lock"
    /\ pc' = [pc EXCEPT ![contador] = "new"]
    /\ UNCHANGED <<sc, contador, sync_mutex, sync_copied, sc_local>>

CreateFails ==
    /\ mpc = "create"
    /\ mpc' = "exit"
    /\ UNCHANGED <<sc, contador, sync_mutex, sync_copied, pc, sc_local>>

MainLocks ==
    /\ mpc = "lock"
    /\ sync_mutex = Nobody
    /\ sync_mutex' = Main
    /\ mpc' = "check"
    /\ UNCHANGED <<sc, contador, sync_copied, pc, sc_local>>

\* Defective variant: waiting for the flag without releasing sync_mutex.
MainWaitsHoldingMutex ==
    /\ mpc = "check"
    /\ ~sync_copied
    /\ mpc' = "waiting"
    /\ UNCHANGED <<sc, contador, sync_mutex, sync_copied, pc, sc_local>>

\* pthread_cond_wait releases the mutex and starts to wait in one step.
MainWaits ==
    /\ mpc = "check"
    /\ ~sync_copied
    /\ sync_mutex' = Nobody
    /\ mpc' = "waiting"
    /\ UNCHANGED <<sc, contador, sync_copied, pc, sc_local>>

MainSpuriousWakeup ==
    /\ mpc = "waiting"
    /\ mpc' = "woken"
    /\ UNCHANGED <<sc, contador, sync_mutex, sync_copied, pc, sc_local>>

\* A woken pthread_cond_wait returns when it has the mutex again.
MainRelocks ==
    /\ mpc = "woken"
    /\ sync_mutex = Nobody
    /\ sync_mutex' = Main
    /\ mpc' = "check"
    /\ UNCHANGED <<sc, contador, sync_copied, pc, sc_local>>

\* Defective variant: sync_copied is not reset for the next connection.
MainProceedsWithoutReset ==
    /\ mpc = "check"
    /\ sync_copied
    /\ sync_mutex' = Nobody
    /\ contador' = contador + 1
    /\ mpc' = "accept"
    /\ UNCHANGED <<sc, sync_copied, pc, sc_local>>

\* Defective variant: contador is advanced twice in an iteration.
MainProceedsTwice ==
    /\ mpc = "check"
    /\ sync_copied
    /\ sync_copied' = FALSE
    /\ sync_mutex' = Nobody
    /\ contador' = contador + 2
    /\ mpc' = "accept"
    /\ UNCHANGED <<sc, pc, sc_local>>

MainProceeds ==
    /\ mpc = "check"
    /\ sync_copied
    /\ sync_copied' = FALSE
    /\ sync_mutex' = Nobody
    /\ contador' = contador + 1
    /\ mpc' = "accept"
    /\ UNCHANGED <<sc, pc, sc_local>>

-----------------------------------------------------------------------------
(* The thread of connection k, up to the point where it has its socket.    *)

ThreadLocks(k) ==
    /\ Running
    /\ pc[k] = "new"
    /\ sync_mutex = Nobody
    /\ sync_mutex' = k
    /\ pc' = [pc EXCEPT ![k] = "copy"]
    /\ UNCHANGED <<mpc, sc, contador, sync_copied, sc_local>>

\* Defective variant: the signal is forgotten.
NoSignal(m) == m

\* What pthread_cond_signal does to main.
Signal(m) == IF m = "waiting" THEN "woken" ELSE m

\* sc_local = *pp, sync_copied = true, pthread_cond_signal.
ThreadCopies(k) ==
    /\ Running
    /\ pc[k] = "copy"
    /\ sc_local' = [sc_local EXCEPT ![k] = sc]
    /\ sync_copied' = TRUE
    /\ mpc' = Signal(mpc)
    /\ pc' = [pc EXCEPT ![k] = "unlock"]
    /\ UNCHANGED <<sc, contador, sync_mutex>>

ThreadUnlocks(k) ==
    /\ Running
    /\ pc[k] = "unlock"
    /\ sync_mutex' = Nobody
    /\ pc' = [pc EXCEPT ![k] = "serve"]
    /\ UNCHANGED <<mpc, sc, contador, sync_copied, sc_local>>

\* Everything tratar_peticion does afterwards is module Servidor.
ThreadEnds(k) ==
    /\ Running
    /\ pc[k] = "serve"
    /\ pc' = [pc EXCEPT ![k] = "done"]
    /\ UNCHANGED <<mpc, sc, contador, sync_mutex, sync_copied, sc_local>>

\* The process has ended, or no connection is left to arrive.
Stopped ==
    /\ \/ ~Running
       \/ /\ mpc = "accept" /\ contador = MaxConns
          /\ \A k \in Conns : pc[k] = "done"
    /\ UNCHANGED vars

MainStep ==
    \/ Accept \/ AcceptFails \/ Create \/ CreateFails
    \/ MainLocks \/ MainWaits \/ MainSpuriousWakeup \/ MainRelocks
    \/ MainProceeds

ThreadStep(k) ==
    ThreadLocks(k) \/ ThreadCopies(k) \/ ThreadUnlocks(k) \/ ThreadEnds(k)

Next ==
    \/ MainStep
    \/ \E k \in Conns : ThreadStep(k)
    \/ Stopped

Spec == Init /\ [][Next]_vars

\* main is scheduled whenever it can run, and so is every thread.  A
\* spurious wakeup may come for ever, and each one takes the mutex for a
\* moment, so that a thread gets it only if the mutex does not starve it.
Fairness ==
    /\ WF_vars(Accept \/ Create \/ MainWaits \/ MainProceeds)
    /\ SF_vars(MainLocks \/ MainRelocks)
    /\ \A k \in Conns :
          /\ SF_vars(ThreadLocks(k))
          /\ WF_vars(ThreadCopies(k) \/ ThreadUnlocks(k) \/ ThreadEnds(k))

FairSpec == Spec /\ Fairness

-----------------------------------------------------------------------------
(* Properties                                                              *)

\* Type correctness of the variables of the accept loop (server.c 22-35, 69).
TypeOK ==
    /\ mpc \in {"accept", "create", "lock", "check", "waiting", "woken", "exit"}
    /\ sc \in Conns \cup {NoConn}
    /\ contador \in 0 .. MaxConns
    /\ sync_mutex \in Conns \cup {Main, Nobody}
    /\ sync_copied \in BOOLEAN
    /\ pc \in [Conns -> {"none", "new", "copy", "unlock", "serve", "done"}]
    /\ sc_local \in [Conns -> Conns \cup {NoConn}]

HasCopied(k) == pc[k] \in {"unlock", "serve", "done"}

\* Every connection is served by exactly one thread, the one started for it:
\* no thread reads sc after main has accepted the next connection into it
\* (server.c 110, 116, 137).
OwnConnection == \A k \in Conns : HasCopied(k) => sc_local[k] = k

\* main is not asleep on sync_cond when the flag it waits for is already set:
\* the signal of server.c 140 cannot be lost between the test of line 122
\* and the wait of line 123.
NoLostWakeup == mpc = "waiting" => ~sync_copied

\* main never overwrites sc while a thread that has been started has still to
\* read it (server.c 110 against 137), however late that thread is scheduled.
ScNotOverwritten ==
    [][sc' # sc => \A k \in Conns : pc[k] \in {"none", "serve", "done", "unlock"}]_vars

\* A connection that main has accepted is copied by its thread, and main goes
\* back to accept, unless the process ends (server.c 108-129).
EveryConnectionServed ==
    \A k \in Conns :
        (mpc = "create" /\ contador = k) ~> (HasCopied(k) \/ ~Running)

MainReturnsToAccept == (mpc # "accept") ~> (mpc = "accept" \/ ~Running)

\* The comment of server.c 107 promises an endless loop; every iteration
\* gives pthread_create the address of thid[contador] (116), which has to be
\* an element of the array of line 71.
ThidInBounds == mpc = "create" => contador < ThidSize
=============================================================================
