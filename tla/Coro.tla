-------------------------------- MODULE Coro --------------------------------
(***************************************************************************)
(* The stackful coroutines of libc/coro.c: control blocks carved from the  *)
(* caller's buffers, a static `current`, and a switch that goes down into  *)
(* a coroutine on co_resume and back to its resumer on co_yield or on the  *)
(* return of its body.  exec is the stack the processor is really on; the  *)
(* code only has `current`.  A caller does not resume a coroutine that is  *)
(* running or waiting in a resume of its own, whose saved context is stale.*)
(***************************************************************************)
EXTENDS Naturals, FiniteSets

CONSTANTS
  Coros,         \* buffers coroutines are carved from
  Host,          \* the initial context
  Null           \* NULL

ASSUME CoroAssumption == Host \notin Coros /\ Null \notin Coros \cup {Host}

VARIABLES
  cstate,        \* state of a control block, "none" before co_create
  resumer,       \* context a coroutine switches back to
  saved,         \* prev in the co_resume a context is in: what current is set back to
  current,       \* the static variable
  exec,          \* the context that runs
  tripped        \* coroutines that overran their stack into the canary

coroVars == <<cstate, resumer, saved, current, exec, tripped>>

Contexts == Coros \cup {Host}

CoroInit ==
  /\ cstate = [c \in Coros |-> "none"]
  /\ resumer = [c \in Coros |-> Host]
  /\ saved = [x \in Contexts |-> Null]
  /\ current = Null /\ exec = Host /\ tripped = {}

\* co_create; a buffer may be used again once its coroutine is done.
Create(c) ==
  /\ cstate[c] \in {"none", "done"}
  /\ cstate' = [cstate EXCEPT ![c] = "suspended"]
  /\ tripped' = tripped \ {c}
  /\ UNCHANGED <<resumer, saved, current, exec>>

\* co_resume up to the switch; a finished coroutine only gives back NULL.
co_resume(c) ==
  /\ cstate[c] = "suspended"
  /\ resumer' = [resumer EXCEPT ![c] = exec]
  /\ cstate' = [cstate EXCEPT ![c] = "running"]
  /\ saved' = [saved EXCEPT ![exec] = current]
  /\ current' = c
  /\ exec' = c
  /\ UNCHANGED tripped

\* Mutant of SwitchBack: current is cleared.
MutSwitchToNull(c, state) ==
  /\ exec' = resumer[c]
  /\ current' = Null
  /\ cstate' = [cstate EXCEPT ![c] = IF c \in tripped THEN "done" ELSE state]
  /\ UNCHANGED <<resumer, saved, tripped>>

\* The switch back to the resumer of c, and the rest of the resumer's co_resume.
SwitchBack(c, state) ==
  /\ exec' = resumer[c]
  /\ current' = saved[resumer[c]]
  /\ cstate' = [cstate EXCEPT ![c] = IF c \in tripped THEN "done" ELSE state]
  /\ UNCHANGED <<resumer, saved, tripped>>

\* co_yield, and the end of co_trampoline: both go by `current`.
Yield == current # Null /\ SwitchBack(current, "suspended")
Return == current # Null /\ SwitchBack(current, "done")

\* The body that runs grows its stack past its buffer.
Overrun ==
  /\ exec \in Coros
  /\ tripped' = tripped \cup {exec}
  /\ UNCHANGED <<cstate, resumer, saved, current, exec>>

CoroNext == (\E c \in Coros : Create(c) \/ co_resume(c)) \/ Yield \/ Return \/ Overrun

CoroSpec == CoroInit /\ [][CoroNext]_coroVars

-----------------------------------------------------------------------------
(* Properties.                                                             *)

\* The coroutines marked running are those that run or wait in a resume of their own, and
\* each has a resumer that waits for it: following the resumers leads back to the host.
\* co_self names the one that runs, at every depth of nested resumes (co_resume, co_yield).
\* One that overran its stack is not run again once control is back with its resumer:
\* "reporting done here keeps a caller from resuming into a broken context".
ChainToHost ==
  /\ current = IF exec = Host THEN Null ELSE exec
  /\ \A c \in Coros : cstate[c] = "running" =>
       /\ resumer[c] = Host \/ cstate[resumer[c]] = "running"
       /\ resumer[c] # c
  /\ \A c, d \in Coros : (c # d /\ cstate[c] = "running" /\ cstate[d] = "running") => resumer[c] # resumer[d]
  /\ exec = Host \/ cstate[exec] = "running"
  /\ \A c \in Coros : cstate[c] = "running" => resumer[c] # exec
  /\ \A c \in tripped : cstate[c] \in {"running", "done"}
=============================================================================
