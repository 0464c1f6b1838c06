------------------------------ MODULE Monitor ------------------------------
(***************************************************************************)
(* What a mutex with a condition variable promises its callers: one holder *)
(* at a time, a release only by the holder, and a wait that comes back     *)
(* with the mutex held as deeply as before, only after a notification.     *)
(* libc/threads.c is shown to implement it (Threads!MonitorSpec).          *)
(***************************************************************************)
EXTENDS Naturals

CONSTANTS
  Threads,     \* the callers
  Nobody       \* the holder of a free mutex

VARIABLES
  holder,      \* who holds the mutex
  depth,       \* how often the holder locked it
  saved,       \* depth given up by a thread in a wait, 0 outside of one
  waitset      \* threads whose wait has not been notified

mvars == <<holder, depth, saved, waitset>>

Init ==
  /\ holder = Nobody
  /\ depth = 0
  /\ saved = [t \in Threads |-> 0]
  /\ waitset = {}

Enter(t) ==
  /\ holder = Nobody
  /\ saved[t] = 0
  /\ holder' = t
  /\ depth' = 1
  /\ UNCHANGED <<saved, waitset>>

Reenter(t) ==
  /\ holder = t
  /\ depth' = depth + 1
  /\ UNCHANGED <<holder, saved, waitset>>

Leave(t) ==
  /\ holder = t
  /\ depth' = depth - 1
  /\ holder' = IF depth = 1 THEN Nobody ELSE t
  /\ UNCHANGED <<saved, waitset>>

Wait(t) ==
  /\ holder = t
  /\ holder' = Nobody
  /\ depth' = 0
  /\ saved' = [saved EXCEPT ![t] = depth]
  /\ waitset' = waitset \cup {t}

Notify ==
  /\ \E t \in waitset : waitset' = waitset \ {t}
  /\ UNCHANGED <<holder, depth, saved>>

NotifyAll ==
  /\ waitset' = {}
  /\ UNCHANGED <<holder, depth, saved>>

Regain(t) ==
  /\ holder = Nobody
  /\ saved[t] > 0
  /\ t \notin waitset
  /\ holder' = t
  /\ depth' = saved[t]
  /\ saved' = [saved EXCEPT ![t] = 0]
  /\ UNCHANGED waitset

Next ==
  \/ \E t \in Threads : Enter(t) \/ Reenter(t) \/ Leave(t) \/ Wait(t) \/ Regain(t)
  \/ Notify \/ NotifyAll

Spec == Init /\ [][Next]_mvars
=============================================================================
