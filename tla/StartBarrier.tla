------------------------------ MODULE StartBarrier ------------------------------
(***************************************************************************)
(* The barrier at the head of start_routine (lockfreeBtree.c): a thread    *)
(* makes its first call when all of them have come.  The code between      *)
(* g_mutex_lock and g_mutex_unlock is one step, or two where g_cond_wait   *)
(* gives the lock away.  That it returns only after a broadcast is assumed *)
(* here; the code waits without a loop.                                    *)
(***************************************************************************)
EXTENDS Integers, FiniteSets

CONSTANT Thread

ASSUME ThreadAssumption == IsFiniteSet(Thread) /\ Thread # {}

VARIABLES
    waiting,    \* bar->waiting
    place       \* where each thread is

gate == <<waiting, place>>

WithoutMain == Cardinality(Thread) - 1                    \* a wrong version
size == Cardinality(Thread)     \* bar->size

BarrierType ==
    /\ waiting \in 0 .. size
    /\ place \in [Thread -> {"before", "waits", "woken", "through"}]

BarrierInit ==
    /\ waiting = 0
    /\ place = [t \in Thread |-> "before"]

\* g_cond_broadcast, by the last thread to come
Broadcast(t) ==
    [u \in Thread |-> IF u = t THEN "through" ELSE IF place[u] = "waits" THEN "woken" ELSE place[u]]

Arrive(t) ==
    /\ place[t] = "before"
    /\ \/ /\ waiting + 1 = size
          /\ place' = Broadcast(t)
          /\ UNCHANGED waiting
       \/ /\ waiting + 1 # size
          /\ place' = [place EXCEPT ![t] = "waits"]
          /\ waiting' = waiting + 1

Leave(t) ==
    /\ place[t] = "woken"
    /\ place' = [place EXCEPT ![t] = "through"]
    /\ waiting' = waiting - 1

BarrierNext == \E t \in Thread : Arrive(t) \/ Leave(t)

BarrierSpec == BarrierInit /\ [][BarrierNext]_gate

(***************************************************************************)
(* No thread starts its calls before every thread has come to the barrier: *)
(* threads that leave decrement the count that those still coming compare. *)
(***************************************************************************)
StartTogether ==
    (\E t \in Thread : place[t] = "through") => \A t \in Thread : place[t] # "before"
===============================================================================
