-------------------------- MODULE CountingSemaphore --------------------------
(***************************************************************************)
(* What a semaphore promises its clients (synch.h): P() waits until the    *)
(* value is positive and then decrements it, V() increments it, and each   *)
(* of the two is atomic.  Nothing is said of the order in which waiting    *)
(* threads are served.                                                     *)
(***************************************************************************)
EXTENDS Integers

CONSTANTS Threads, Sems, NULL, InitialValue

VARIABLES
  value,   \* the value of each semaphore
  waits    \* the semaphore each thread is waiting for, or NULL

Init ==
  /\ value = InitialValue
  /\ waits = [t \in Threads |-> NULL]

(* The value is taken, by a thread that arrives or by one that waited.     *)
Take(t, s) ==
  /\ waits[t] \in {NULL, s}
  /\ value[s] > 0
  /\ value' = [value EXCEPT ![s] = @ - 1]
  /\ waits' = [waits EXCEPT ![t] = NULL]

Wait(t, s) ==
  /\ waits[t] = NULL
  /\ value[s] = 0
  /\ waits' = [waits EXCEPT ![t] = s]
  /\ UNCHANGED value

V(s) ==
  /\ value' = [value EXCEPT ![s] = @ + 1]
  /\ UNCHANGED waits

Next ==
  \E s \in Sems : V(s) \/ \E t \in Threads : Take(t, s) \/ Wait(t, s)

Spec == Init /\ [][Next]_<<value, waits>>

=============================================================================
