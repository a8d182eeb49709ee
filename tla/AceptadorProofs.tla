-------------------------- MODULE AceptadorProofs --------------------------
(***************************************************************************)
(* The handshake of the accept loop, for any number of connections: every  *)
(* connection is handed to the one thread started for it, and main does    *)
(* not sleep through the signal of that thread.                            *)
(***************************************************************************)
EXTENDS Aceptador, TLAPS

\* While main is in the loop body after pthread_create, the thread of this
\* iteration exists and sc is still its connection.
Handing == mpc \in {"lock", "check", "waiting", "woken"}

\* sync_mutex is held by main while it tests the flag, and by a thread while
\* it copies.
MutexInv ==
    /\ sync_mutex = Main => mpc = "check" \/ mpc = "exit"
    /\ mpc = "check" => sync_mutex = Main
    /\ \A k \in Conns : pc[k] \in {"copy", "unlock"} <=> sync_mutex = k

\* Threads before contador have copied, those after it do not exist, and the
\* flag is set exactly when the thread of this iteration has copied.
OrderInv ==
    /\ \A k \in Conns : k < contador => HasCopied(k)
    /\ \A k \in Conns : k > contador => pc[k] = "none"
    /\ mpc \in {"accept", "create"} =>
          /\ ~sync_copied
          /\ contador \in Conns => pc[contador] = "none"
    /\ mpc = "create" => contador \in Conns /\ sc = contador
    /\ Handing =>
          /\ contador \in Conns
          /\ sc = contador
          /\ pc[contador] # "none"
          /\ sync_copied <=> HasCopied(contador)

IInv == TypeOK /\ MutexInv /\ OrderInv /\ OwnConnection /\ NoLostWakeup

\* The initial state satisfies the inductive invariant.
LEMMA InitIInv == Init => IInv
<1> USE AceptadorAssumption DEF AceptadorAssumption
<1> SUFFICES ASSUME Init PROVE IInv
    OBVIOUS
<1>1. TypeOK
    <2>1. sync_copied \in BOOLEAN
        BY DEF Init
    <2> QED
        BY <2>1 DEF Init, TypeOK, Conns, NoConn, Nobody
<1>2. MutexInv
    BY DEF Init, MutexInv, Conns, Nobody, Main
<1>3. OrderInv
    BY DEF Init, OrderInv, Conns, Handing, HasCopied
<1>4. OwnConnection /\ NoLostWakeup
    BY DEF Init, OwnConnection, NoLostWakeup, HasCopied
<1> QED
    BY <1>1, <1>2, <1>3, <1>4 DEF IInv

\* Every step of main and of the threads preserves it.
LEMMA StepIInv == IInv /\ [Next]_vars => IInv'
<1> USE AceptadorAssumption DEF AceptadorAssumption, Conns, NoConn, Main, Nobody, HasCopied, Handing, Running
<1> SUFFICES ASSUME IInv, [Next]_vars PROVE IInv'
    OBVIOUS
<1> USE DEF IInv, TypeOK, MutexInv, OrderInv, OwnConnection, NoLostWakeup
<1>1. CASE Accept
    BY <1>1 DEF Accept
<1>2. CASE AcceptFails
    BY <1>2 DEF AcceptFails
<1>3. CASE Create
    BY <1>3 DEF Create
<1>4. CASE CreateFails
    BY <1>4 DEF CreateFails
<1>5. CASE MainLocks
    BY <1>5 DEF MainLocks
<1>6. CASE MainWaits
    BY <1>6 DEF MainWaits
<1>7. CASE MainSpuriousWakeup
    BY <1>7 DEF MainSpuriousWakeup
<1>8. CASE MainRelocks
    BY <1>8 DEF MainRelocks
<1>9. CASE MainProceeds
    \* The thread of this iteration has copied, so that contador may pass it.
    <2>1. contador \in Conns /\ HasCopied(contador) /\ contador' = contador + 1
        BY <1>9 DEF MainProceeds
    <2>2. sync_copied' = FALSE /\ mpc' = "accept" /\ pc' = pc
        BY <1>9 DEF MainProceeds
    <2>3. TypeOK'
        <3>1. sync_copied' \in BOOLEAN
            BY <2>2
        <3> QED
            BY <2>1, <3>1, <1>9 DEF MainProceeds
    <2>4. MutexInv'
        BY <1>9 DEF MainProceeds
    <2>5. OrderInv'
        <3>1. \A k \in Conns : k < contador' => HasCopied(k)'
            BY <2>1, <2>2
        <3>2. \A k \in Conns : k > contador' => pc'[k] = "none"
            BY <2>1, <2>2
        <3>3. contador' \in Conns => pc'[contador'] = "none"
            BY <2>1, <2>2
        <3> QED
            BY <3>1, <3>2, <3>3, <2>2
    <2>6. OwnConnection' /\ NoLostWakeup'
        BY <1>9 DEF MainProceeds
    <2> QED
        BY <2>3, <2>4, <2>5, <2>6
<1>10. ASSUME NEW k \in Conns, ThreadLocks(k) PROVE IInv'
    BY <1>10 DEF ThreadLocks
<1>11. ASSUME NEW k \in Conns, ThreadCopies(k) PROVE IInv'
    BY <1>11 DEF ThreadCopies, Signal
<1>12. ASSUME NEW k \in Conns, ThreadUnlocks(k) PROVE IInv'
    BY <1>12 DEF ThreadUnlocks
<1>13. ASSUME NEW k \in Conns, ThreadEnds(k) PROVE IInv'
    BY <1>13 DEF ThreadEnds
<1>14. CASE Stopped
    BY <1>14 DEF Stopped, vars
<1>15. CASE UNCHANGED vars
    BY <1>15 DEF vars
<1> QED
    BY <1>1, <1>2, <1>3, <1>4, <1>5, <1>6, <1>7, <1>8, <1>9, <1>10, <1>11, <1>12, <1>13, <1>14, <1>15 DEF Next, MainStep, ThreadStep

\* The variables keep their types in every behaviour of the accept loop.
THEOREM TypeCorrect == Spec => []TypeOK
<1>1. Spec => []IInv
    BY InitIInv, StepIInv, PTL DEF Spec
<1>2. IInv => TypeOK
    BY DEF IInv
<1> QED
    BY <1>1, <1>2, PTL

\* Every thread that has copied sc has the connection it was started for,
\* however the threads and main are scheduled (server.c 110, 116, 137).
THEOREM ConnectionsHandedOver == Spec => []OwnConnection
<1>1. Spec => []IInv
    BY InitIInv, StepIInv, PTL DEF Spec
<1>2. IInv => OwnConnection
    BY DEF IInv
<1> QED
    BY <1>1, <1>2, PTL

\* main never sleeps on sync_cond with the flag set (server.c 122-123, 138-140).
THEOREM WakeupsNotLost == Spec => []NoLostWakeup
<1>1. Spec => []IInv
    BY InitIInv, StepIInv, PTL DEF Spec
<1>2. IInv => NoLostWakeup
    BY DEF IInv
<1> QED
    BY <1>1, <1>2, PTL

\* sc changes only when no started thread has still to read it (server.c 110,
\* 137).
THEOREM ScKept == Spec => ScNotOverwritten
<1> USE AceptadorAssumption DEF AceptadorAssumption
<1>1. Spec => []IInv
    BY InitIInv, StepIInv, PTL DEF Spec
<1>2. IInv /\ [Next]_vars => (sc' # sc =>
         \A k \in Conns : pc[k] \in {"none", "serve", "done", "unlock"})
    <2> SUFFICES ASSUME IInv, Next, sc' # sc,
                        NEW k \in Conns
                 PROVE  pc[k] \in {"none", "serve", "done", "unlock"}
        BY DEF vars
    <2>1. mpc = "accept"
        BY DEF Next, MainStep, ThreadStep, Accept, AcceptFails, Create,
               CreateFails, MainLocks, MainWaits, MainSpuriousWakeup,
               MainRelocks, MainProceeds, ThreadLocks, ThreadCopies,
               ThreadUnlocks, ThreadEnds, Stopped, vars
    <2>2. CASE k < contador
        BY <2>2 DEF IInv, OrderInv, HasCopied
    <2>3. CASE k = contador
        BY <2>1, <2>3 DEF IInv, OrderInv
    <2>4. CASE k > contador
        BY <2>4 DEF IInv, OrderInv
    <2> QED
        BY <2>2, <2>3, <2>4 DEF IInv, TypeOK, Conns
<1> QED
    BY <1>1, <1>2, PTL DEF Spec, ScNotOverwritten
=============================================================================
